--------------------------- MODULE MaintenanceProofs ---------------------------
(* Proofs about Maintenance, for all videos and workers, whichever queues  *)
(* the workers consume, all intervals and windows, and any faults.         *)
EXTENDS Maintenance, TLAPS

LEMMA Named == Tasks = {"purge", "report"}
BY DEF Tasks, Every

LEMMA Intervals ==
  /\ PurgeEvery \in Nat \ {0} /\ ReportEvery \in Nat \ {0}
  /\ Retention \in Nat /\ Window \in Nat /\ ProcessRetries \in Nat /\ MaxFaults \in Nat
  /\ Old \subseteq Videos /\ Locked \subseteq Videos
BY MaintenanceAssumption

LEMMA Ages ==
  ASSUME NEW n \in Nat
  PROVE  Never \in Never .. n /\ 0 \in Never .. n /\ 0 \in 0 .. n /\ n \in Never .. n /\ 0 .. n \subseteq Never .. n
BY DEF Never

LEMMA TypeInit == Init => TypeOK
<1> SUFFICES ASSUME Init PROVE TypeOK
  OBVIOUS
<1> USE Intervals, Named
<1>1. due \in [Tasks -> 0 .. PurgeEvery + ReportEvery]  BY DEF Init, Every
<1>2. worker \in [Workers -> Slot]  BY DEF Init, Idle, Slot
<1>3. Retention + 1 \in Nat /\ Window + 1 \in Nat  OBVIOUS
<1>4. /\ age \in [Videos -> 0 .. Retention + 1] /\ life \in [Videos -> Never .. Retention + 1]
      /\ failed \in [Videos -> Never .. Window + 1] /\ since \in 0 .. Window + 1
  BY <1>3, Ages DEF Init
<1>5. work \in [Videos -> SUBSET {"dir", "source", "audio", "clips"}]  BY DEF Init
<1>6. queue \in Seq(Tasks)  BY DEF Init
<1>7. /\ stage \in [Videos -> {"prepare", "render", "finalize", "over"}]
      /\ tries \in [Videos -> 0 .. ProcessRetries]
  BY DEF Init
<1>8. faults \in 0 .. MaxFaults  BY DEF Init
<1>9. late \in BOOLEAN  BY Zenon DEF Init
<1>10. QED  BY <1>1, <1>2, <1>4, <1>5, <1>6, <1>7, <1>8, <1>9 DEF TypeOK

(* Counters that saturate stay in their range.                             *)
LEMMA Saturates ==
  ASSUME NEW b \in Nat
  PROVE  /\ \A n \in 0 .. b : Later(n, b) \in 0 .. b
         /\ \A n \in Never .. b : Older(n, b) \in Never .. b
BY DEF Later, Older, Never

LEMMA TypeTick == TypeOK /\ Tick => TypeOK'
<1> SUFFICES ASSUME TypeOK, Tick PROVE TypeOK'
  OBVIOUS
<1> USE Intervals, Named DEF TypeOK, Tick
<1>1. due' \in [Tasks -> 0 .. PurgeEvery + ReportEvery]  OBVIOUS
<1>a. Retention + 1 \in Nat /\ Window + 1 \in Nat  OBVIOUS
<1>2. age' \in [Videos -> 0 .. Retention + 1]
  <2>1. \A v \in Videos : Later(age[v], Retention + 1) \in 0 .. Retention + 1  BY <1>a, Saturates
  <2> QED  BY <2>1
<1>3. life' \in [Videos -> Never .. Retention + 1] /\ failed' \in [Videos -> Never .. Window + 1]
  BY <1>a, Saturates
<1>4. since' \in 0 .. Window + 1  BY <1>a, Saturates
<1>5. QED  BY <1>1, <1>2, <1>3, <1>4

(* What the steps of the tasks write.                                      *)
LEMMA CreateTyped ==
  ASSUME TypeOK, NEW v \in Videos, NEW name \in {"dir", "source", "audio", "clips"}, Create(v, name)
  PROVE  /\ work' \in [Videos -> SUBSET {"dir", "source", "audio", "clips"}]
         /\ age' \in [Videos -> 0 .. Retention + 1]
BY Intervals DEF TypeOK, Create

LEMMA SlotTyped ==
  ASSUME TypeOK, NEW w \in Workers
  PROVE  /\ worker[w].left \subseteq Videos
         /\ Idle \in Slot /\ [step |-> "report", left |-> {}] \in Slot
         /\ \A l \in SUBSET Videos : [step |-> "visit", left |-> l] \in Slot
         /\ \A l \in SUBSET Videos, v \in Videos : [step |-> "remove", left |-> l, video |-> v] \in Slot
         /\ \A v \in Videos, s \in {"ingest", "transcribe", "analyze", "render"} : Working(s, v) \in Slot
BY DEF TypeOK, Slot, Idle, Working

LEMMA PurgeTyped == ASSUME TypeOK, NEW w \in Workers, Purge(w) PROVE TypeOK'
<1> USE SlotTyped DEF TypeOK, beatVars, videoVars, reportVars
<1>1. ASSUME NEW v \in Videos, Visit(w, v) PROVE TypeOK'
  <2>1. worker' \in [Workers -> Slot]
    <3>1. worker[w].left \ {v} \in SUBSET Videos  OBVIOUS
    <3> QED  BY <1>1, <3>1 DEF Visit
  <2> QED  BY <1>1, <2>1 DEF Visit
<1>2. ASSUME NEW v \in Videos, Remove(w, v) PROVE TypeOK'
  <2>1. worker' \in [Workers -> Slot]
    <3>1. [step |-> "visit", left |-> worker[w].left] \in Slot  OBVIOUS
    <3> QED  BY <1>2, <3>1 DEF Remove
  <2>2. work' \in [Videos -> SUBSET {"dir", "source", "audio", "clips"}]
    BY <1>2 DEF Remove
  <2>3. age' \in [Videos -> 0 .. Retention + 1]
    <3>1. 0 \in 0 .. Retention + 1  BY Intervals
    <3> QED  BY <1>2, <3>1 DEF Remove
  <2> QED  BY <1>2, <2>1, <2>2, <2>3 DEF Remove
<1>3. ASSUME NEW v \in Videos, RemoveFails(w, v) PROVE TypeOK'
  <2>1. worker' \in [Workers -> Slot]
    <3>1. [step |-> "visit", left |-> worker[w].left] \in Slot  OBVIOUS
    <3> QED  BY <1>3, <3>1 DEF RemoveFails, LoopOn
  <2>2. /\ work' \in [Videos -> SUBSET {"dir", "source", "audio", "clips"}]
        /\ age' \in [Videos -> 0 .. Retention + 1]
    <3>1. PICK rest \in SUBSET work[v] :
            /\ work' = [work EXCEPT ![v] = rest]
            /\ age' = [age EXCEPT ![v] = IF rest = work[v] THEN @ ELSE 0]
      BY <1>3 DEF RemoveFails
    <3>2. rest \subseteq {"dir", "source", "audio", "clips"}  BY <3>1
    <3>3. (IF rest = work[v] THEN age[v] ELSE 0) \in 0 .. Retention + 1  BY Intervals
    <3> QED  BY <3>1, <3>2, <3>3
  <2> QED  BY <1>3, <2>1, <2>2 DEF RemoveFails
<1>4. CASE PurgeEnds(w)  BY <1>4 DEF PurgeEnds
<1>5. QED  BY <1>1, <1>2, <1>3, <1>4 DEF Purge

LEMMA PrepareTyped == ASSUME TypeOK, NEW w \in Workers, Prepare(w) PROVE TypeOK'
<1> USE SlotTyped, Intervals DEF TypeOK, beatVars, videoVars, reportVars
<1>1. ASSUME NEW v \in Videos, StartPrepare(w, v) PROVE TypeOK'
  <2>1. Create(v, "dir") /\ "dir" \in {"dir", "source", "audio", "clips"}  BY <1>1 DEF StartPrepare
  <2>2. /\ work' \in [Videos -> SUBSET {"dir", "source", "audio", "clips"}]
        /\ age' \in [Videos -> 0 .. Retention + 1]
    BY <2>1, CreateTyped
  <2>3. life' \in [Videos -> Never .. Retention + 1]
    <3>1. Retention + 1 \in Nat  OBVIOUS
    <3> QED  BY <1>1, <3>1, Ages DEF StartPrepare
  <2> QED  BY <1>1, <2>2, <2>3 DEF StartPrepare, Start
<1>2. ASSUME NEW v \in Videos, Ingest(w, v) PROVE TypeOK'
  <2>1. Create(v, "source")  BY <1>2 DEF Ingest
  <2>2. /\ work' \in [Videos -> SUBSET {"dir", "source", "audio", "clips"}]
        /\ age' \in [Videos -> 0 .. Retention + 1]
    BY <2>1, CreateTyped
  <2> QED  BY <1>2, <2>2 DEF Ingest, Step
<1>3. ASSUME NEW v \in Videos, Transcribe(w, v) PROVE TypeOK'
  <2>1. Create(v, "audio")  BY <1>3 DEF Transcribe
  <2>2. /\ work' \in [Videos -> SUBSET {"dir", "source", "audio", "clips"}]
        /\ age' \in [Videos -> 0 .. Retention + 1]
    BY <2>1, CreateTyped
  <2> QED  BY <1>3, <2>2 DEF Transcribe, Step
<1>4. ASSUME NEW v \in Videos, Analyze(w, v) PROVE TypeOK'
  BY <1>4 DEF Analyze, Finish
<1>5. ASSUME NEW v \in Videos, PrepareFails(w, v) PROVE TypeOK'
  <2>1. failed' \in [Videos -> Never .. Window + 1]
    <3>1. Window + 1 \in Nat  OBVIOUS
    <3> QED  BY <1>5, <3>1, Ages DEF PrepareFails, Fail
  <2>2. stage' \in [Videos -> {"prepare", "render", "finalize", "over"}]
    BY <1>5 DEF PrepareFails
  <2>3. tries' \in [Videos -> 0 .. ProcessRetries]
    BY <1>5 DEF PrepareFails
  <2> QED  BY <1>5, <2>1, <2>2, <2>3 DEF PrepareFails, Finish
<1>6. QED  BY <1>1, <1>2, <1>3, <1>4, <1>5 DEF Prepare

LEMMA RenderTyped == ASSUME TypeOK, NEW w \in Workers, Render(w) PROVE TypeOK'
<1> USE SlotTyped, Intervals DEF TypeOK, beatVars, videoVars, reportVars
<1>1. ASSUME NEW v \in Videos, StartRender(w, v) PROVE TypeOK'
  <2>1. Create(v, "clips")  BY <1>1 DEF StartRender
  <2>2. /\ work' \in [Videos -> SUBSET {"dir", "source", "audio", "clips"}]
        /\ age' \in [Videos -> 0 .. Retention + 1]
    BY <2>1, CreateTyped
  <2> QED  BY <1>1, <2>2 DEF StartRender, Start
<1>2. ASSUME NEW v \in Videos, RenderEnds(w, v) PROVE TypeOK'
  <2>1. UNCHANGED failed \/ Fail(v)  BY <1>2 DEF RenderEnds
  <2>2. failed' \in [Videos -> Never .. Window + 1]
    <3>1. Window + 1 \in Nat  OBVIOUS
    <3>2. CASE UNCHANGED failed  BY <3>2
    <3>3. CASE Fail(v)  BY <3>1, <3>3, Ages DEF Fail
    <3> QED  BY <2>1, <3>2, <3>3
  <2> QED  BY <1>2, <2>2 DEF RenderEnds, Finish
<1>3. ASSUME NEW v \in Videos, FinalizeVideo(w, v) PROVE TypeOK'
  <2>1. stage' \in [Videos -> {"prepare", "render", "finalize", "over"}]
    BY <1>3 DEF FinalizeVideo
  <2>2. /\ work' \in [Videos -> SUBSET {"dir", "source", "audio", "clips"}]
        /\ age' \in [Videos -> 0 .. Retention + 1]
    <3>1. UNCHANGED <<work, age>> \/
          \E rest \in {{}, {"dir"}} :
            work' = [work EXCEPT ![v] = rest] /\ age' = [age EXCEPT ![v] = 0]
      BY <1>3 DEF FinalizeVideo
    <3>2. CASE UNCHANGED <<work, age>>  BY <3>2
    <3>3. ASSUME NEW rest \in {{}, {"dir"}},
                 work' = [work EXCEPT ![v] = rest] /\ age' = [age EXCEPT ![v] = 0]
          PROVE  /\ work' \in [Videos -> SUBSET {"dir", "source", "audio", "clips"}]
                 /\ age' \in [Videos -> 0 .. Retention + 1]
      BY <3>3
    <3> QED  BY <3>1, <3>2, <3>3
  <2> QED  BY <1>3, <2>1, <2>2 DEF FinalizeVideo
<1>4. QED  BY <1>1, <1>2, <1>3 DEF Render

LEMMA TypeStep == TypeOK /\ [Next]_vars => TypeOK'
<1> SUFFICES ASSUME TypeOK, [Next]_vars PROVE TypeOK'
  OBVIOUS
<1> USE Intervals, Named, SlotTyped DEF beatVars, videoVars, reportVars
<1>1. CASE Tick  BY <1>1, TypeTick
<1>2. CASE RestartBeat
  <2>1. Every \in [Tasks -> 0 .. PurgeEvery + ReportEvery]  BY DEF Every
  <2> QED  BY <1>2, <2>1 DEF RestartBeat, TypeOK
<1>3. ASSUME NEW t \in Tasks, Publish(t) PROVE TypeOK'
  <2>1. Every[t] \in 0 .. PurgeEvery + ReportEvery  BY DEF Every
  <2> QED  BY <1>3, <2>1 DEF Publish, TypeOK
<1>4. ASSUME NEW w \in Workers, TakeHousekeeping(w) PROVE TypeOK'
  <2>1. worker' \in [Workers -> Slot]
    <3>1. {v \in Videos : work[v] # {}} \in SUBSET Videos  OBVIOUS
    <3> QED  BY <1>4, <3>1 DEF TakeHousekeeping, Start, TypeOK
  <2>2. queue' \in Seq(Tasks)  BY <1>4 DEF TakeHousekeeping, TypeOK
  <2> QED  BY <1>4, <2>1, <2>2 DEF TakeHousekeeping, TypeOK
<1>5. ASSUME NEW w \in Workers, Report(w) PROVE TypeOK'
  <2>1. failed' \in [Videos -> Never .. Window + 1]
    <3>1. Window + 1 \in Nat  OBVIOUS
    <3> QED  BY <1>5, <3>1, Ages DEF Report, TypeOK
  <2> QED  BY <1>5, <2>1 DEF Report, TypeOK
<1>6. ASSUME NEW w \in Workers, LoseWorker(w) PROVE TypeOK'
  <2>1. queue' \in Seq(Tasks)
    <3> DEFINE t == IF worker[w].step = "report" THEN "report" ELSE "purge"
    <3>1. t \in Tasks /\ <<t>> \in Seq(Tasks)  OBVIOUS
    <3>2. <<t>> \o queue \in Seq(Tasks)  BY <3>1 DEF TypeOK
    <3>3. queue' \in {queue, <<t>> \o queue}  BY <1>6 DEF LoseWorker
    <3> QED  BY <3>2, <3>3 DEF TypeOK
  <2> QED  BY <1>6, <2>1 DEF LoseWorker, TypeOK
<1>7. ASSUME NEW w \in Workers, Purge(w) \/ Prepare(w) \/ Render(w) PROVE TypeOK'
  BY <1>7, PurgeTyped, PrepareTyped, RenderTyped
<1>8. CASE UNCHANGED vars  BY <1>8 DEF vars, TypeOK
<1>9. QED  BY <1>1, <1>2, <1>3, <1>4, <1>5, <1>6, <1>7, <1>8 DEF Next

-----------------------------------------------------------------------------
(* The failure report: its property is inductive.                          *)

LEMMA ReportStep ==
  ASSUME TypeOK, ReportedUnlessLate, [Next]_vars
  PROVE  ReportedUnlessLate'
<1> USE Intervals DEF TypeOK, ReportedUnlessLate
<1>1. CASE Tick
  <2>1. ASSUME NEW v \in Videos, failed'[v] > since' PROVE failed[v] > since
    <3>1. failed[v] \in Never .. Window + 1 /\ since \in 0 .. Window + 1  OBVIOUS
    <3>2. failed'[v] = Older(failed[v], Window + 1) /\ since' = Later(since, Window + 1)
      BY <1>1 DEF Tick
    <3> QED  BY <2>1, <3>1, <3>2 DEF Older, Later, Never
  <2> QED  BY <1>1, <2>1 DEF Tick
<1>2. ASSUME NEW w \in Workers, Report(w) PROVE ReportedUnlessLate'
  <2>1. ASSUME NEW v \in Videos, failed'[v] > 0 PROVE late'
    <3>1. ~(failed[v] \in 0 .. Window) /\ failed[v] \in Never .. Window + 1 /\ failed[v] > 0
      BY <1>2, <2>1 DEF Report, Recent, Never
    <3>2. failed[v] = Window + 1  BY <2>1, <3>1 DEF Never
    <3>3. late \/ since > Window
      <4>1. since \in 0 .. Window + 1 /\ (failed[v] > since => late)  BY <3>1
      <4> QED  BY <3>2, <4>1
    <3> QED  BY <1>2, <3>3 DEF Report
  <2> QED  BY <1>2, <2>1 DEF Report
<1>3. ASSUME NEW v \in Videos, Fail(v), UNCHANGED <<since, late>> PROVE ReportedUnlessLate'
  BY <1>3 DEF Fail
<1>4. CASE UNCHANGED <<failed, since, late>>
  BY <1>4
<1>5. ASSUME NEW w \in Workers, NEW v \in Videos, StartPrepare(w, v) PROVE ReportedUnlessLate'
  BY <1>4, <1>5 DEF StartPrepare, reportVars
<1>6. ASSUME NEW w \in Workers, NEW v \in Videos, RenderEnds(w, v) PROVE ReportedUnlessLate'
  <2>1. UNCHANGED <<since, late>> /\ (UNCHANGED failed \/ Fail(v))
    BY <1>6 DEF RenderEnds
  <2> QED  BY <1>3, <1>4, <2>1
<1>7. ASSUME NEW w \in Workers, NEW v \in Videos, PrepareFails(w, v) PROVE ReportedUnlessLate'
  BY <1>3, <1>7 DEF PrepareFails
<1>8. QED
  BY <1>1, <1>2, <1>4, <1>5, <1>6, <1>7
  DEF Next, vars, reportVars, RestartBeat, Publish, TakeHousekeeping, LoseWorker, Purge, Visit, Remove,
      RemoveFails, PurgeEnds, Prepare, Ingest, Transcribe, Analyze, Render, StartRender, FinalizeVideo

-----------------------------------------------------------------------------
(* The purge: no directory is older than its video, and what the purge is  *)
(* about to remove was old enough when it looked.                          *)

Begins == {"ingest", "transcribe", "analyze", "render"}
LifeInv ==
  /\ \A v \in Videos : work[v] # {} => age[v] <= life[v]
  /\ \A v \in Videos : stage[v] # "prepare" => life[v] # Never
  /\ \A w \in Workers : worker[w].step \in Begins => life[worker[w].video] # Never
  /\ \A w \in Workers : worker[w].step = "remove" => life[worker[w].video] > Retention

LEMMA LifeInit == Init => LifeInv
<1> SUFFICES ASSUME Init PROVE LifeInv
  OBVIOUS
<1>1. ASSUME NEW v \in Videos
      PROVE  /\ work[v] # {} => age[v] <= life[v]
             /\ stage[v] # "prepare" => life[v] # Never
  BY Intervals DEF Init, Never
<1>2. \A w \in Workers : worker[w].step = "idle"  BY DEF Init, Idle
<1>3. QED  BY <1>1, <1>2 DEF LifeInv, Begins

LEMMA LifeGrows ==
  ASSUME TypeOK, [Next]_vars, NEW v \in Videos
  PROVE  life[v] \in Int /\ life'[v] \in Int /\ life'[v] >= life[v] /\ life[v] >= Never
<1>1. life[v] \in Never .. Retention + 1 /\ life'[v] \in Never .. Retention + 1
  BY TypeStep DEF TypeOK
<1>2. life[v] \in Int /\ life'[v] \in Int /\ life[v] >= Never  BY <1>1, Intervals DEF Never
<1>3. CASE Tick
  <2>1. life'[v] = Older(life[v], Retention + 1)  BY <1>3 DEF Tick
  <2> QED  BY <1>1, <1>2, <2>1, Intervals DEF Older, Later, Never
<1>4. ASSUME NEW w \in Workers, NEW u \in Videos, StartPrepare(w, u) PROVE life'[v] >= life[v]
  BY <1>2, <1>4 DEF StartPrepare, TypeOK, Never
<1>5. CASE UNCHANGED life  BY <1>2, <1>5
<1>6. QED
  BY <1>2, <1>3, <1>4, <1>5
  DEF Next, vars, videoVars, RestartBeat, Publish, TakeHousekeeping, LoseWorker, Report, Purge, Visit,
      Remove, RemoveFails, PurgeEnds, Prepare, Ingest, Transcribe, Analyze, PrepareFails, Render,
      StartRender, RenderEnds, FinalizeVideo

LEMMA SlotVideo ==
  ASSUME TypeOK, NEW w \in Workers, worker[w].step \in Begins \cup {"remove"}
  PROVE  worker[w].video \in Videos
BY DEF TypeOK, Slot, Begins

(* A slot or a video that a step leaves alone.                             *)
LEMMA SlotKept ==
  ASSUME TypeOK, LifeInv, [Next]_vars, NEW w \in Workers, worker'[w] = worker[w]
  PROVE  /\ worker'[w].step \in Begins => life'[worker'[w].video] # Never
         /\ worker'[w].step = "remove" => life'[worker'[w].video] > Retention
<1>1. ASSUME worker[w].step \in Begins \cup {"remove"} PROVE worker[w].video \in Videos
  BY <1>1, SlotVideo
<1>2. \A v \in Videos : life[v] \in Int /\ life'[v] \in Int /\ life'[v] >= life[v] /\ life[v] >= Never
  BY LifeGrows
<1>3. QED  BY <1>1, <1>2, Intervals DEF LifeInv, Begins, Never

SlotInv(w) ==
  /\ worker[w].step \in Begins => life[worker[w].video] # Never
  /\ worker[w].step = "remove" => life[worker[w].video] > Retention
VideoInv(v) ==
  /\ work[v] # {} => age[v] <= life[v]
  /\ stage[v] # "prepare" => life[v] # Never

LEMMA LifeParts == LifeInv <=> (\A w \in Workers : SlotInv(w)) /\ (\A v \in Videos : VideoInv(v))
BY DEF LifeInv, SlotInv, VideoInv

LEMMA Written ==
  ASSUME TypeOK, LifeInv, NEW u \in Videos, NEW name \in {"dir", "source", "audio", "clips"},
         Create(u, name), life'[u] # Never, [Next]_vars, UNCHANGED stage
  PROVE  \A v \in Videos : VideoInv(v)'
<1> SUFFICES ASSUME NEW v \in Videos PROVE VideoInv(v)'
  OBVIOUS
<1>1. life[v] \in Int /\ life'[v] \in Int /\ life'[v] >= life[v] /\ life[v] >= Never  BY LifeGrows
<1>2. age[v] \in Nat /\ VideoInv(v)  BY Intervals, LifeParts DEF TypeOK
<1>3. CASE v # u
  <2>1. work'[v] = work[v] /\ age'[v] = age[v]  BY <1>3 DEF Create, TypeOK
  <2> QED  BY <1>1, <1>2, <2>1 DEF VideoInv, Never
<1>4. CASE v = u
  <2>1. age'[v] = (IF {"dir", name} \subseteq work[v] THEN age[v] ELSE 0)  BY <1>4 DEF Create, TypeOK
  <2>2. life'[v] >= 0  BY <1>1, <1>4 DEF Never
  <2> QED  BY <1>1, <1>2, <1>4, <2>1, <2>2 DEF VideoInv, Never
<1>5. QED  BY <1>3, <1>4

LEMMA SlotsMove ==
  ASSUME TypeOK, LifeInv, [Next]_vars, NEW w \in Workers, NEW slot,
         worker' = [worker EXCEPT ![w] = slot],
         slot.step \in Begins => life'[slot.video] # Never,
         slot.step = "remove" => life'[slot.video] > Retention
  PROVE  \A x \in Workers : SlotInv(x)'
<1> SUFFICES ASSUME NEW x \in Workers PROVE SlotInv(x)'
  OBVIOUS
<1>1. CASE x = w
  <2>1. worker'[x] = slot  BY <1>1 DEF TypeOK
  <2> QED  BY <2>1 DEF SlotInv
<1>2. CASE x # w
  <2>1. worker'[x] = worker[x]  BY <1>2 DEF TypeOK
  <2> QED  BY <2>1, SlotKept DEF SlotInv
<1>3. QED  BY <1>1, <1>2

LEMMA VideosStay ==
  ASSUME TypeOK, LifeInv, [Next]_vars, UNCHANGED <<work, age, stage>>
  PROVE  \A v \in Videos : VideoInv(v)'
<1> SUFFICES ASSUME NEW v \in Videos PROVE VideoInv(v)'
  OBVIOUS
<1>1. life[v] \in Int /\ life'[v] \in Int /\ life'[v] >= life[v] /\ life[v] >= Never  BY LifeGrows
<1>2. age[v] \in Nat /\ VideoInv(v)  BY Intervals, LifeParts DEF TypeOK
<1>3. QED  BY <1>1, <1>2 DEF VideoInv, Never

LEMMA SlotsStay ==
  ASSUME TypeOK, LifeInv, [Next]_vars, UNCHANGED worker
  PROVE  \A x \in Workers : SlotInv(x)'
BY SlotKept DEF SlotInv

LEMMA LifeStep == TypeOK /\ LifeInv /\ [Next]_vars => LifeInv'
<1> SUFFICES ASSUME TypeOK, LifeInv, [Next]_vars PROVE LifeInv'
  OBVIOUS
<1>a. SUFFICES (\A x \in Workers : SlotInv(x)') /\ (\A v \in Videos : VideoInv(v)')
  BY LifeParts DEF LifeInv, SlotInv, VideoInv
<1>b. \A v \in Videos : life[v] \in Int /\ life'[v] \in Int /\ life'[v] >= life[v] /\ life[v] >= Never
  BY LifeGrows
<1>c. \A v \in Videos : age[v] \in Nat /\ VideoInv(v)  BY Intervals, LifeParts DEF TypeOK
<1>d. \A w \in Workers : SlotInv(w)  BY LifeParts
<1>1. CASE Tick
  <2>1. ASSUME NEW v \in Videos PROVE VideoInv(v)'
    <3>1. /\ life'[v] = Older(life[v], Retention + 1)
          /\ age'[v] = (IF work[v] = {} THEN 0 ELSE Later(age[v], Retention + 1))
          /\ work' = work /\ stage' = stage
      BY <1>1 DEF Tick
    <3>2. CASE work[v] = {}  BY <1>b, <1>c, <3>1, <3>2 DEF VideoInv, Never
    <3>3. CASE work[v] # {}
      <4>1. age[v] \in Nat /\ life[v] \in Nat /\ age[v] <= life[v]  BY <1>b, <1>c, <3>3 DEF VideoInv
      <4>2. life'[v] = Later(life[v], Retention + 1)  BY <3>1, <4>1 DEF Older, Never
      <4> QED  BY <3>1, <3>3, <4>1, <4>2, Intervals DEF VideoInv, Later, Never
    <3> QED  BY <3>2, <3>3
  <2> QED  BY <1>1, <2>1, SlotsStay DEF Tick
<1>2. CASE RestartBeat \/ \E t \in Tasks : Publish(t)
  <2>1. UNCHANGED <<worker, work, age, stage>>  BY <1>2 DEF RestartBeat, Publish, videoVars
  <2> QED  BY <2>1, SlotsStay, VideosStay
<1>3. ASSUME NEW w \in Workers, TakeHousekeeping(w) \/ LoseWorker(w) \/ Report(w) \/ PurgeEnds(w)
      PROVE  (\A x \in Workers : SlotInv(x)') /\ (\A v \in Videos : VideoInv(v)')
  <2>1. UNCHANGED <<work, age, stage>>
    BY <1>3 DEF TakeHousekeeping, LoseWorker, Report, PurgeEnds, videoVars
  <2>2. ASSUME NEW slot, worker' = [worker EXCEPT ![w] = slot], slot.step \notin Begins \cup {"remove"}
        PROVE  \A x \in Workers : SlotInv(x)'
    BY <2>1, <2>2, SlotsMove
  <2>3. CASE worker' = [worker EXCEPT ![w] = Idle]
    <3>1. Idle.step \notin Begins \cup {"remove"}  BY DEF Idle, Begins
    <3> QED  BY <2>1, <2>2, <2>3, <3>1, VideosStay
  <2>4. CASE TakeHousekeeping(w)
    <3>1. PICK left : \/ worker' = [worker EXCEPT ![w] = [step |-> "report", left |-> {}]]
                      \/ worker' = [worker EXCEPT ![w] = [step |-> "visit", left |-> left]]
      BY <2>4 DEF TakeHousekeeping, Start
    <3>2. /\ [step |-> "report", left |-> {}].step \notin Begins \cup {"remove"}
          /\ [step |-> "visit", left |-> left].step \notin Begins \cup {"remove"}
      BY DEF Begins
    <3>3. \A x \in Workers : SlotInv(x)'
      <4>1. CASE worker' = [worker EXCEPT ![w] = [step |-> "report", left |-> {}]]
        BY <2>2, <3>2, <4>1
      <4>2. CASE worker' = [worker EXCEPT ![w] = [step |-> "visit", left |-> left]]
        BY <2>2, <3>2, <4>2
      <4> QED  BY <3>1, <4>1, <4>2
    <3> QED  BY <2>1, <3>3, VideosStay
  <2>5. worker' = [worker EXCEPT ![w] = Idle] \/ TakeHousekeeping(w)
    BY <1>3 DEF LoseWorker, Report, PurgeEnds
  <2> QED  BY <2>3, <2>4, <2>5
<1>4. ASSUME NEW w \in Workers, NEW v \in Videos, Visit(w, v)
      PROVE  (\A x \in Workers : SlotInv(x)') /\ (\A u \in Videos : VideoInv(u)')
  <2>1. UNCHANGED <<work, age, stage, life>>  BY <1>4 DEF Visit, videoVars
  <2>2. CASE work[v] # {} /\ Stale(v)
    <3> DEFINE slot == [step |-> "remove", left |-> worker[w].left \ {v}, video |-> v]
    <3>1. worker' = [worker EXCEPT ![w] = slot]  BY <1>4, <2>2 DEF Visit
    <3>2. life'[v] > Retention  BY <1>b, <1>c, <2>1, <2>2, Intervals DEF Stale, VideoInv
    <3>3. slot.step = "remove" /\ slot.video = v /\ slot.step \notin Begins  BY DEF Begins
    <3> HIDE DEF slot
    <3> QED  BY <2>1, <3>1, <3>2, <3>3, SlotsMove, VideosStay
  <2>3. CASE ~(work[v] # {} /\ Stale(v))
    <3> DEFINE slot == [step |-> "visit", left |-> worker[w].left \ {v}]
    <3>1. worker' = [worker EXCEPT ![w] = slot]  BY <1>4, <2>3 DEF Visit
    <3>2. slot.step \notin Begins \cup {"remove"}  BY DEF Begins
    <3> HIDE DEF slot
    <3> QED  BY <2>1, <3>1, <3>2, SlotsMove, VideosStay
  <2> QED  BY <2>2, <2>3
<1>5. ASSUME NEW w \in Workers, NEW v \in Videos, Remove(w, v) \/ RemoveFails(w, v)
      PROVE  (\A x \in Workers : SlotInv(x)') /\ (\A u \in Videos : VideoInv(u)')
  <2> DEFINE slot == [step |-> "visit", left |-> worker[w].left]
  <2>1. worker' = [worker EXCEPT ![w] = slot]  BY <1>5 DEF Remove, RemoveFails, LoopOn
  <2>2. slot.step \notin Begins \cup {"remove"}  BY DEF Begins
  <2> HIDE DEF slot
  <2>3. ASSUME NEW u \in Videos PROVE VideoInv(u)'
    <3>1. UNCHANGED <<stage, life>>  BY <1>5 DEF Remove, RemoveFails
    <3>2. work'[u] # {} => work[u] # {} /\ age'[u] \in {age[u], 0}
      BY <1>5 DEF Remove, RemoveFails, TypeOK
    <3> QED  BY <1>b, <1>c, <3>1, <3>2 DEF VideoInv, Never
  <2> QED  BY <2>1, <2>2, <2>3, SlotsMove
<1>6. ASSUME NEW w \in Workers, NEW v \in Videos, StartPrepare(w, v)
      PROVE  (\A x \in Workers : SlotInv(x)') /\ (\A u \in Videos : VideoInv(u)')
  <2>1. life'[v] # Never /\ Create(v, "dir") /\ UNCHANGED stage
    BY <1>6 DEF StartPrepare, TypeOK, Never
  <2>2. worker' = [worker EXCEPT ![w] = Working("ingest", v)]  BY <1>6 DEF StartPrepare, Start
  <2>3. Working("ingest", v).video = v /\ Working("ingest", v).step # "remove"  BY DEF Working
  <2> QED  BY <2>1, <2>2, <2>3, SlotsMove, Written
<1>7. ASSUME NEW w \in Workers, NEW v \in Videos, Ingest(w, v) \/ Transcribe(w, v)
      PROVE  (\A x \in Workers : SlotInv(x)') /\ (\A u \in Videos : VideoInv(u)')
  <2>1. PICK s \in {"transcribe", "analyze"} : worker' = [worker EXCEPT ![w] = Working(s, v)]
    BY <1>7 DEF Ingest, Transcribe, Step
  <2>2. PICK name \in {"source", "audio"} : Create(v, name)  BY <1>7 DEF Ingest, Transcribe
  <2>3. UNCHANGED <<stage, life>>  BY <1>7 DEF Ingest, Transcribe
  <2>4. life'[v] # Never  BY <1>7, <1>d, <2>3 DEF Ingest, Transcribe, InPipeline, SlotInv, Begins
  <2>5. Working(s, v).video = v /\ Working(s, v).step # "remove"  BY DEF Working
  <2> QED  BY <2>1, <2>2, <2>3, <2>4, <2>5, SlotsMove, Written
<1>8. ASSUME NEW w \in Workers, NEW v \in Videos, Analyze(w, v) \/ PrepareFails(w, v) \/ RenderEnds(w, v)
      PROVE  (\A x \in Workers : SlotInv(x)') /\ (\A u \in Videos : VideoInv(u)')
  <2>1. worker' = [worker EXCEPT ![w] = Idle] /\ UNCHANGED <<work, age, life>>
    BY <1>8 DEF Analyze, PrepareFails, RenderEnds, Finish
  <2>2. Idle.step \notin Begins \cup {"remove"}  BY DEF Idle, Begins
  <2>3. ASSUME NEW u \in Videos, stage'[u] # "prepare" PROVE life'[u] # Never
    <3>1. CASE u = v
      <4>1. worker[w].step \in Begins /\ worker[w].video = v
        BY <1>8, <3>1 DEF Analyze, PrepareFails, RenderEnds, InPipeline, Begins
      <4> QED  BY <1>d, <2>1, <3>1, <4>1 DEF SlotInv
    <3>2. CASE u # v
      <4>1. stage'[u] = stage[u]
        BY <1>8, <3>2 DEF Analyze, PrepareFails, RenderEnds, TypeOK
      <4> QED  BY <1>c, <2>1, <2>3, <4>1 DEF VideoInv
    <3> QED  BY <3>1, <3>2
  <2>4. \A u \in Videos : VideoInv(u)'  BY <1>c, <2>1, <2>3 DEF VideoInv
  <2> QED  BY <2>1, <2>2, <2>4, SlotsMove
<1>9. ASSUME NEW w \in Workers, NEW v \in Videos, StartRender(w, v)
      PROVE  (\A x \in Workers : SlotInv(x)') /\ (\A u \in Videos : VideoInv(u)')
  <2>1. Create(v, "clips") /\ UNCHANGED <<stage, life>> /\ life'[v] # Never
    BY <1>9, <1>c DEF StartRender, VideoInv
  <2>2. worker' = [worker EXCEPT ![w] = Working("render", v)]  BY <1>9 DEF StartRender, Start
  <2>3. Working("render", v).video = v /\ Working("render", v).step # "remove"  BY DEF Working
  <2> QED  BY <2>1, <2>2, <2>3, SlotsMove, Written
<1>10. ASSUME NEW w \in Workers, NEW v \in Videos, FinalizeVideo(w, v)
       PROVE  (\A x \in Workers : SlotInv(x)') /\ (\A u \in Videos : VideoInv(u)')
  <2>1. UNCHANGED <<worker, life>> /\ life[v] # Never  BY <1>10, <1>c DEF FinalizeVideo, VideoInv
  <2>2. ASSUME NEW u \in Videos PROVE VideoInv(u)'
    <3>1. CASE u = v
      <4>1. work'[u] # {} => age'[u] \in {age[u], 0} /\ work[u] # {}
        BY <1>10, <3>1 DEF FinalizeVideo, TypeOK
      <4> QED  BY <1>b, <1>c, <2>1, <3>1, <4>1 DEF VideoInv, Never
    <3>2. CASE u # v
      <4>1. work'[u] = work[u] /\ age'[u] = age[u] /\ stage'[u] = stage[u]
        BY <1>10, <3>2 DEF FinalizeVideo, TypeOK
      <4> QED  BY <1>c, <2>1, <4>1 DEF VideoInv
    <3> QED  BY <3>1, <3>2
  <2> QED  BY <2>1, <2>2, SlotsStay
<1>11. CASE UNCHANGED vars  BY <1>11, SlotsStay, VideosStay DEF vars, videoVars
<1>12. QED
  BY <1>1, <1>2, <1>3, <1>4, <1>5, <1>6, <1>7, <1>8, <1>9, <1>10, <1>11
  DEF Next, Purge, Prepare, Render

-----------------------------------------------------------------------------
(* The properties.                                                         *)

MaintenanceInv == TypeOK /\ LifeInv /\ ReportedUnlessLate

LEMMA Invariant == Spec => []MaintenanceInv
<1>1. Init => MaintenanceInv
  <2>1. Init => ReportedUnlessLate  BY DEF Init, ReportedUnlessLate, Never
  <2> QED  BY <2>1, TypeInit, LifeInit DEF MaintenanceInv
<1>2. MaintenanceInv /\ [Next]_vars => MaintenanceInv'
  BY TypeStep, LifeStep, ReportStep DEF MaintenanceInv
<1>3. QED  BY <1>1, <1>2, PTL DEF Spec

(* Beat's schedule, the queue, the slots and the ages keep their types.    *)
THEOREM MaintenanceTypes == Spec => []TypeOK
<1>1. MaintenanceInv => TypeOK  BY DEF MaintenanceInv
<1>2. QED  BY <1>1, Invariant, PTL

(* No video loses its workspace to the purge within the retention window,  *)
(* for any windows, retries and workers: the purge removes what was stale  *)
(* when it looked, a stale directory belongs to a video whose first task   *)
(* is at least as old, and the video has not become younger since.         *)
THEOREM PurgeSparesTheYoung == Spec => UnfinishedKept
<1> DEFINE Spared == \A v \in Videos :
             work[v] # {} /\ work'[v] = {} /\ stage'[v] # "over" => life[v] > Retention
<1>1. MaintenanceInv /\ [Next]_vars => [Spared]_vars
  <2> SUFFICES ASSUME MaintenanceInv, Next, NEW v \in Videos,
                      work[v] # {}, work'[v] = {}, stage'[v] # "over"
               PROVE  life[v] > Retention
    BY DEF Spared
  <2> USE DEF MaintenanceInv
  <2>1. ASSUME NEW w \in Workers, NEW u \in Videos, Remove(w, u) PROVE life[v] > Retention
    <3>1. u = v  BY <2>1 DEF Remove, TypeOK
    <3> QED  BY <2>1, <3>1 DEF Remove, LifeInv
  <2>2. ASSUME NEW w \in Workers, NEW u \in Videos, RemoveFails(w, u) PROVE FALSE
    BY <2>2 DEF RemoveFails, TypeOK
  <2>3. ASSUME NEW w \in Workers, NEW u \in Videos, FinalizeVideo(w, u) PROVE FALSE
    <3>1. u = v  BY <2>3 DEF FinalizeVideo, TypeOK
    <3> QED  BY <2>3, <3>1 DEF FinalizeVideo, TypeOK
  <2>4. ASSUME NEW u \in Videos, NEW name, Create(u, name) PROVE FALSE
    BY <2>4 DEF Create, TypeOK
  <2>5. CASE UNCHANGED work  BY <2>5
  <2>6. QED
    BY <2>1, <2>2, <2>3, <2>4, <2>5
    DEF Next, videoVars, Tick, RestartBeat, Publish, TakeHousekeeping, LoseWorker, Report, Purge, Visit,
        PurgeEnds, Prepare, StartPrepare, Ingest, Transcribe, Analyze, PrepareFails, Render, StartRender,
        RenderEnds
<1>2. QED  BY <1>1, Invariant, PTL DEF Spec, UnfinishedKept

(* A failure is missed by the reports only if two of them were made        *)
(* further apart than the window, for any interval, window and delays.     *)
THEOREM ReportsMissOnlyWhenLate == Spec => []ReportedUnlessLate
<1>1. MaintenanceInv => ReportedUnlessLate  BY DEF MaintenanceInv
<1>2. QED  BY <1>1, Invariant, PTL
=============================================================================
