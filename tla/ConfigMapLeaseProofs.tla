------------------------- MODULE ConfigMapLeaseProofs -------------------------
(***************************************************************************)
(* Proofs about ConfigMapLease, for any pods, lease life, attempts and     *)
(* number of troubles: at most one pod serves as leader. Then about small  *)
(* programs of ch3 and ch4 in which several goroutines share state.        *)
(***************************************************************************)
EXTENDS ConfigMapLease, Sequences, FiniteSetTheorems, TLAPS

\* A refresh is no older than the flag it will replace, and neither is too old.
Timely == \A p \in Pod : run[p] <= age[p] /\ age[p] <= MaxGap

\* What the places in a refresh, and the stages of a pod, imply.
Resting == \A p \in Pod :
    /\ pc[p] = "idle" => eligible[p] /\ tries[p] = 0 /\ run[p] = 0
    /\ pc[p] = "read" => tries[p] < MaxTries
    /\ stage[p] = "up" => eligible[p]
    /\ ~Live(p) => pc[p] = "idle" /\ ~leader[p]

\* The lease as it is lets p write this, from a refresh that began `ago` ticks ago.
Opens(p, what, ago) ==
    /\ what = "free" => holder = p
    /\ what = "take" => holder \in {None, p} \/ left + ago < 0

\* A copy that is still good for a write shows the lease as it is, and so does
\* one whose write is on its way.
Copies ==
    /\ \A p \in fresh : pc[p] = "write" => /\ Opens(p, wants[p], run[p])
                                           /\ wants[p] = "free" => ~eligible[p]
    /\ \A w \in late : Opens(w[1], w[2], w[3])

\* The lease is p's, for its whole life from `ago` ticks ago.
Holds(p, ago) == holder = p /\ left >= TTL - ago

\* The lease that the running refresh of p wrote.
Renewed == \A p \in wrote : /\ pc[p] \in {"check", "won", "lost"} /\ Holds(p, run[p])
                            /\ \A w \in late : w[1] # p

\* The lease of a leader, or of a pod that will be one: a write of its own that
\* is still on its way would do it no harm.
Elected == ~missed => \A p \in Pod :
    /\ pc[p] = "won" => p \in wrote
    /\ leader[p] /\ eligible[p] =>
         Holds(p, age[p]) /\ \A w \in late : w[1] = p => w[2] = "take" /\ w[3] <= age[p]

\* The inductive invariant.
Rules == Timely /\ Resting /\ Copies /\ Renewed /\ Elected
IInv == TypeOK /\ Rules

-----------------------------------------------------------------------------
\* Nobody can open a lease that another pod holds and renewed in time.
LEMMA HeldShut ==
    ASSUME LeaseAssumption, TypeOK, NEW p \in Pod, NEW q \in Pod, NEW a \in Int, a <= MaxGap,
           Holds(q, a), NEW ago \in Nat, NEW what \in {"take", "free"}, Opens(p, what, ago)
    PROVE  p = q
<1>1. left \in Int /\ TTL \in Int /\ MaxGap \in Int /\ MaxGap < TTL /\ q # None
    BY DEF TypeOK, LeaseAssumption
<1>2. holder = q /\ left >= TTL - a
    BY DEF Holds
<1>3. left > 0 /\ left + ago >= 0
    BY <1>1, <1>2
<1> QED BY <1>1, <1>2, <1>3 DEF Opens

\* The types of the loops, the lease and the writes on their way.
PodTypes == /\ stage \in [Pod -> {"up", "draining", "down"}]
            /\ pc \in [Pod -> {"idle", "read", "write", "check", "won", "lost"}]
            /\ eligible \in [Pod -> BOOLEAN] /\ wants \in [Pod -> {"same", "take", "free"}]
            /\ tries \in [Pod -> 0..MaxTries] /\ run \in [Pod -> 0..TTL]
            /\ age \in [Pod -> 0..TTL] /\ leader \in [Pod -> BOOLEAN]
LeaseTypes == /\ holder \in Pod \cup {None} /\ left \in -(TTL + 1)..TTL /\ fresh \subseteq Pod
              /\ late \subseteq Pod \X {"take", "free"} \X (0..TTL) /\ wrote \subseteq Pod

\* Together they are TypeOK.
LEMMA Types == TypeOK <=> PodTypes /\ LeaseTypes /\ missed \in BOOLEAN /\ trouble \in 0..MaxTrouble
BY DEF TypeOK, PodTypes, LeaseTypes

\* A write on its way, part by part.
LEMMA LateParts ==
    ASSUME LeaseTypes, NEW w \in late
    PROVE  w[1] \in Pod /\ w[2] \in {"take", "free"} /\ w[3] \in 0..TTL
BY DEF LeaseTypes

\* A write of the lease keeps its types.
LEMMA PutTypes ==
    ASSUME LeaseAssumption, LeaseTypes, NEW p \in Pod, NEW what \in {"same", "take", "free"},
           NEW ago \in 0..TTL, Put(p, what, ago)
    PROVE  /\ holder' \in Pod \cup {None} /\ left' \in -(TTL + 1)..TTL /\ fresh' \subseteq Pod
           /\ late' \subseteq Pod \X {"take", "free"} \X (0..TTL)
<1>1. TTL \in Nat
    BY DEF LeaseAssumption
<1>2. TTL - ago \in -(TTL + 1)..TTL /\ -1 - ago \in -(TTL + 1)..TTL
    BY <1>1
<1>3. CASE what = "same"
    BY <1>3 DEF Put, LeaseTypes
<1>4. CASE what # "same"
    BY <1>2, <1>4 DEF Put
<1> QED BY <1>3, <1>4

-----------------------------------------------------------------------------
\* The start.
LEMMA InitIInv == ASSUME LeaseAssumption, Init PROVE IInv
<1>1. TTL \in Nat /\ MaxGap \in Nat /\ MaxTries \in Nat \ {0} /\ MaxTrouble \in Nat
    BY DEF LeaseAssumption
<1>2. TypeOK
    <2>1. 0 \in 0..TTL /\ 0 \in 0..MaxTries /\ 0 \in 0..MaxTrouble /\ 0 \in -(TTL + 1)..TTL
        BY <1>1
    <2>2. PodTypes
        BY <2>1 DEF Init, PodTypes
    <2>3. LeaseTypes
        BY <2>1 DEF Init, LeaseTypes
    <2> QED BY <2>1, <2>2, <2>3, Types DEF Init
<1>3. Timely /\ Resting /\ Copies /\ Renewed /\ Elected
    BY <1>1 DEF Init, Timely, Resting, Copies, Renewed, Elected, Live
<1> QED BY <1>2, <1>3 DEF IInv, Rules

\* A refresh begins.
LEMMA BeginInv == ASSUME LeaseAssumption, IInv, NEW p \in Pod, BeginRefresh(p) PROVE IInv'
<1>0. PodTypes /\ LeaseTypes
    BY Types DEF IInv
<1>1. UNCHANGED <<holder, left, fresh, stage, wants, tries, run, age, leader, late, wrote, missed, trouble>>
    BY DEF BeginRefresh, lease
<1>2. /\ pc[p] = "idle" /\ Live(p) /\ pc' = [pc EXCEPT ![p] = "read"]
      /\ eligible' = [eligible EXCEPT ![p] = (stage[p] = "up")]
    BY DEF BeginRefresh, Goto
<1>3. TypeOK'
    BY <1>0, <1>1, <1>2 DEF IInv, TypeOK, PodTypes
<1>4. Timely'
    BY <1>1 DEF IInv, Rules, Timely
<1>5. Resting'
    <2>1. MaxTries \in Nat \ {0}
        BY DEF LeaseAssumption
    <2> QED BY <1>0, <1>1, <1>2, <2>1 DEF IInv, Rules, Resting, PodTypes, Live
<1>6. Copies'
    BY <1>0, <1>1, <1>2 DEF IInv, Rules, Copies, Opens, PodTypes, LeaseTypes
<1>7. Renewed'
    BY <1>0, <1>1, <1>2 DEF IInv, Rules, Renewed, Holds, PodTypes, LeaseTypes
<1>8. Elected'
    BY <1>0, <1>1, <1>2 DEF IInv, Rules, Elected, Resting, Holds, PodTypes
<1> QED BY <1>3, <1>4, <1>5, <1>6, <1>7, <1>8 DEF IInv, Rules

\* The object is read, and what it will become decided.
LEMMA ReadInv == ASSUME LeaseAssumption, IInv, NEW p \in Pod, Read(p) PROVE IInv'
<1>0. PodTypes /\ LeaseTypes
    BY Types DEF IInv
<1>1. UNCHANGED <<holder, left, stage, eligible, run, age, leader, late, wrote, missed, trouble>>
    BY DEF Read
<1>2. /\ pc[p] = "read" /\ Live(p) /\ pc' = [pc EXCEPT ![p] = "write"]
      /\ wants' = [wants EXCEPT ![p] = Wants(p)] /\ fresh' = fresh \cup {p}
      /\ tries' = [tries EXCEPT ![p] = tries[p] + 1]
    BY DEF Read, Goto
<1>3. /\ Wants(p) \in {"same", "take", "free"} /\ Opens(p, Wants(p), run[p])
      /\ Wants(p) = "free" => ~eligible[p]
    BY DEF Wants, Opens
<1>4. tries[p] + 1 \in 0..MaxTries
    BY <1>0, <1>2 DEF IInv, Rules, Resting, PodTypes, LeaseAssumption
<1> HIDE DEF Wants
<1>5. TypeOK'
    BY <1>0, <1>1, <1>2, <1>3, <1>4 DEF IInv, TypeOK, PodTypes
<1>6. Timely'
    BY <1>1 DEF IInv, Rules, Timely
<1>7. Resting'
    BY <1>0, <1>1, <1>2 DEF IInv, Rules, Resting, PodTypes, Live
<1>8. Copies'
    BY <1>0, <1>1, <1>2, <1>3 DEF IInv, Rules, Copies, Opens, PodTypes, LeaseTypes
<1>9. Renewed'
    BY <1>0, <1>1, <1>2 DEF IInv, Rules, Renewed, Holds, PodTypes, LeaseTypes
<1>10. Elected'
    BY <1>0, <1>1, <1>2 DEF IInv, Rules, Elected, Holds, PodTypes
<1> QED BY <1>5, <1>6, <1>7, <1>8, <1>9, <1>10 DEF IInv, Rules

\* The write: it changes a lease that nobody else holds, or is refused.
LEMMA WriteInv == ASSUME LeaseAssumption, IInv, NEW p \in Pod, Write(p) PROVE IInv'
<1>0. PodTypes /\ LeaseTypes
    BY Types DEF IInv
<1>1. UNCHANGED <<stage, eligible, wants, tries, run, age, leader, missed, trouble>>
    BY DEF Write
<1>2. PICK step \in {"read", "check"} :
         pc' = [pc EXCEPT ![p] = step] /\ (step = "read" => tries[p] < MaxTries)
    BY DEF Write, Goto
<1>3. pc[p] = "write" /\ Live(p)
    BY DEF Write
<1>4. Timely'
    BY <1>1 DEF IInv, Rules, Timely
<1>5. Resting'
    BY <1>0, <1>1, <1>2, <1>3 DEF IInv, Rules, Resting, PodTypes, Live
<1>6. run[p] \in 0..TTL /\ wants[p] \in {"same", "take", "free"} /\ run[p] \in Nat
    BY <1>0 DEF PodTypes, LeaseAssumption
<1>7. CASE p \notin fresh \/ wants[p] = "same"
    <2>1. UNCHANGED <<holder, left, late, wrote>> /\ fresh' \subseteq fresh
        BY <1>7 DEF Write, Put, Wrote, lease
    <2>2. TypeOK'
        BY <1>0, <1>1, <1>2, <2>1 DEF IInv, TypeOK, PodTypes
    <2>3. Copies'
        BY <1>0, <1>1, <1>2, <2>1 DEF IInv, Rules, Copies, Opens, PodTypes, LeaseTypes
    <2>4. Renewed'
        BY <1>0, <1>1, <1>2, <1>3, <2>1 DEF IInv, Rules, Renewed, Holds, PodTypes, LeaseTypes
    <2>5. Elected'
        BY <1>0, <1>1, <1>2, <1>3, <2>1 DEF IInv, Rules, Elected, Holds, PodTypes
    <2> QED BY <1>4, <1>5, <2>2, <2>3, <2>4, <2>5 DEF IInv, Rules
<1>8. CASE p \in fresh /\ wants[p] \in {"take", "free"}
    <2>1. Put(p, wants[p], run[p]) /\ Wrote(p, wants[p]) /\ step = "check"
        BY <1>0, <1>2, <1>8 DEF Write, Goto, PodTypes
    <2>2. /\ Opens(p, wants[p], run[p]) /\ (wants[p] = "free" => ~eligible[p])
        BY <1>3, <1>8 DEF IInv, Rules, Copies
    <2>3. /\ holder' = p /\ fresh' = {} /\ late' = {}
          /\ wants[p] = "take" => left' = TTL - run[p] /\ wrote' = {p}
          /\ wants[p] = "free" => wrote' = {}
        BY <1>8, <2>1 DEF Put, Wrote
    <2>4. TypeOK'
        <3>1. holder' \in Pod \cup {None} /\ left' \in -(TTL + 1)..TTL
            BY <1>0, <1>6, <2>1, PutTypes
        <3> QED BY <1>0, <1>1, <1>2, <1>8, <2>3, <3>1 DEF IInv, TypeOK, PodTypes
    <2>5. Copies'
        BY <2>3 DEF Copies
    <2>6. Renewed'
        <3>1. wants[p] = "take" => Holds(p, run[p])'
            BY <1>0, <1>1, <1>6, <2>3 DEF Holds, LeaseAssumption
        <3>2. pc'[p] = "check"
            BY <1>0, <1>2, <2>1 DEF PodTypes
        <3> QED BY <1>8, <2>3, <3>1, <3>2 DEF Renewed
    <2>7. Elected'
        <3> SUFFICES ASSUME ~missed, NEW q \in Pod
                     PROVE  /\ pc'[q] = "won" => q \in wrote'
                            /\ leader[q] /\ eligible[q] => Holds(q, age[q])'
            BY <1>1, <2>3 DEF Elected
        <3>1. run[q] \in Int /\ age[q] \in Int /\ run[q] <= MaxGap /\ age[q] <= MaxGap
            BY <1>0 DEF IInv, Rules, Timely, PodTypes, LeaseAssumption
        <3>2. pc'[q] # "won"
            <4> SUFFICES ASSUME pc'[q] = "won" PROVE FALSE
                OBVIOUS
            <4>1. q # p /\ pc[q] = "won"
                BY <1>0, <1>2 DEF PodTypes
            <4>2. Holds(q, run[q])
                BY <4>1 DEF IInv, Rules, Elected, Renewed
            <4> QED BY <1>6, <1>8, <2>2, <3>1, <4>1, <4>2, HeldShut DEF IInv
        <3>3. ASSUME leader[q], eligible[q] PROVE Holds(q, age[q])'
            <4>1. Holds(q, age[q])
                BY <3>3 DEF IInv, Rules, Elected
            <4>2. p = q
                BY <1>6, <1>8, <2>2, <3>1, <4>1, HeldShut DEF IInv
            <4>3. wants[p] = "take"
                BY <1>8, <2>2, <3>3, <4>2
            <4>4. run[p] <= age[p]
                BY DEF IInv, Rules, Timely
            <4> QED BY <1>1, <1>6, <2>3, <3>1, <4>2, <4>3, <4>4 DEF Holds, LeaseAssumption
        <3> QED BY <3>2, <3>3
    <2> QED BY <1>4, <1>5, <2>4, <2>5, <2>6, <2>7 DEF IInv, Rules
<1> QED BY <1>6, <1>7, <1>8

\* A write that was given up is carried out.
LEMMA LateInv == ASSUME LeaseAssumption, IInv, NEW w \in late, LateWrite(w) PROVE IInv'
<1>0. PodTypes /\ LeaseTypes
    BY Types DEF IInv
<1>1. UNCHANGED <<stage, pc, eligible, wants, tries, run, age, leader, missed, trouble>>
    BY DEF LateWrite, loop
<1> DEFINE p == w[1]
           what == w[2]
           ago == w[3]
<1>2. p \in Pod /\ what \in {"take", "free"} /\ ago \in 0..TTL /\ ago \in Nat /\ Opens(p, what, ago)
    BY <1>0, LateParts DEF IInv, Rules, Copies, LeaseAssumption
<1>3. /\ Put(p, what, ago)
      /\ wrote' = IF what = "take" /\ pc[p] = "check" /\ ago = run[p] THEN {p} ELSE {}
    BY DEF LateWrite
<1> HIDE DEF p, what, ago
<1>4. holder' = p /\ fresh' = {} /\ late' = {} /\ (what = "take" => left' = TTL - ago)
    BY <1>2, <1>3 DEF Put
<1>5. TypeOK'
    <2>1. holder' \in Pod \cup {None} /\ left' \in -(TTL + 1)..TTL
        BY <1>0, <1>2, <1>3, PutTypes
    <2> QED BY <1>1, <1>2, <1>3, <1>4, <2>1 DEF IInv, TypeOK
<1>6. Timely' /\ Resting'
    BY <1>1 DEF IInv, Rules, Timely, Resting, Live
<1>7. Copies'
    BY <1>4 DEF Copies
<1>8. Renewed'
    BY <1>1, <1>2, <1>3, <1>4 DEF Renewed, Holds, LeaseAssumption
<1>9. Elected'
    <2> SUFFICES ASSUME ~missed, NEW q \in Pod
                 PROVE  pc[q] # "won" /\ (leader[q] /\ eligible[q] => Holds(q, age[q])')
        BY <1>1, <1>4 DEF Elected
    <2>1. run[q] \in Int /\ age[q] \in Int /\ run[q] <= MaxGap /\ age[q] <= MaxGap
        BY <1>0 DEF IInv, Rules, Timely, PodTypes, LeaseAssumption
    <2>2. pc[q] # "won"
        <3> SUFFICES ASSUME pc[q] = "won" PROVE FALSE
            OBVIOUS
        <3>1. Holds(q, run[q]) /\ p # q
            BY DEF IInv, Rules, Elected, Renewed, p
        <3> QED BY <1>2, <2>1, <3>1, HeldShut DEF IInv
    <2>3. ASSUME leader[q], eligible[q] PROVE Holds(q, age[q])'
        <3>1. Holds(q, age[q])
            BY <2>3 DEF IInv, Rules, Elected
        <3>2. p = q
            BY <1>2, <2>1, <3>1, HeldShut DEF IInv
        <3>3. what = "take" /\ ago <= age[q]
            BY <2>3, <3>2 DEF IInv, Rules, Elected, p, what, ago
        <3> QED BY <1>1, <1>2, <1>4, <2>1, <3>2, <3>3 DEF Holds, LeaseAssumption
    <2> QED BY <2>2, <2>3
<1> QED BY <1>5, <1>6, <1>7, <1>8, <1>9 DEF IInv, Rules

\* What is on its way when a call fails or a pod crashes.
LEMMA GivenUp ==
    ASSUME IInv, NEW p \in Pod,
           late' = IF pc[p] = "write" /\ p \in fresh /\ wants[p] # "same"
                   THEN late \cup {<<p, wants[p], run[p]>>} ELSE late
    PROVE  /\ late \subseteq late'
           /\ late' \subseteq Pod \X {"take", "free"} \X (0..TTL)
           /\ \A w \in late' \ late :
                /\ w[1] = p /\ w[3] = run[p] /\ pc[p] = "write"
                /\ Opens(w[1], w[2], w[3]) /\ (eligible[p] => w[2] = "take")
<1>1. PodTypes /\ LeaseTypes
    BY Types DEF IInv
<1>2. CASE pc[p] = "write" /\ p \in fresh /\ wants[p] # "same"
    <2> DEFINE v == <<p, wants[p], run[p]>>
    <2>1. late' = late \cup {v} /\ v \in Pod \X {"take", "free"} \X (0..TTL)
        BY <1>1, <1>2 DEF PodTypes
    <2>2. v[1] = p /\ v[2] = wants[p] /\ v[3] = run[p]
        OBVIOUS
    <2>3. Opens(v[1], v[2], v[3]) /\ (eligible[p] => v[2] = "take")
        BY <1>1, <1>2, <2>2 DEF IInv, Rules, Copies, PodTypes
    <2> HIDE DEF v
    <2> QED BY <1>1, <1>2, <2>1, <2>2, <2>3 DEF LeaseTypes
<1>3. CASE ~(pc[p] = "write" /\ p \in fresh /\ wants[p] # "same")
    BY <1>1, <1>3 DEF LeaseTypes
<1> QED BY <1>2, <1>3

\* The bound on troubles.
LEMMA TroubleType == ASSUME LeaseAssumption, IInv, Trouble PROVE trouble' \in 0..MaxTrouble
BY DEF Trouble, IInv, TypeOK, LeaseAssumption

\* The update fails.
LEMMA FailInv == ASSUME LeaseAssumption, IInv, NEW p \in Pod, UpdateFails(p) PROVE IInv'
<1>0. PodTypes /\ LeaseTypes
    BY Types DEF IInv
<1>1. UNCHANGED <<holder, left, fresh, stage, eligible, wants, tries, run, age, leader, wrote, missed>>
    BY DEF UpdateFails, lease
<1>2. pc[p] \in {"read", "write"} /\ Live(p) /\ pc' = [pc EXCEPT ![p] = "check"]
    BY DEF UpdateFails, Goto
<1>3. /\ late \subseteq late'
      /\ late' \subseteq Pod \X {"take", "free"} \X (0..TTL)
      /\ \A w \in late' \ late : /\ w[1] = p /\ w[3] = run[p]
                                 /\ Opens(w[1], w[2], w[3]) /\ (eligible[p] => w[2] = "take")
    BY GivenUp DEF UpdateFails
<1>4. TypeOK'
    <2>1. trouble' \in 0..MaxTrouble
        BY TroubleType DEF UpdateFails
    <2> QED BY <1>0, <1>1, <1>2, <1>3, <2>1 DEF IInv, TypeOK, PodTypes
<1>5. Timely'
    BY <1>1 DEF IInv, Rules, Timely
<1>6. Resting'
    BY <1>0, <1>1, <1>2 DEF IInv, Rules, Resting, PodTypes, Live
<1>7. Copies'
    BY <1>0, <1>1, <1>2, <1>3 DEF IInv, Rules, Copies, Opens, PodTypes, LeaseTypes
<1>8. Renewed'
    <2>1. p \notin wrote
        BY <1>2 DEF IInv, Rules, Renewed
    <2> QED BY <1>0, <1>1, <1>2, <1>3, <2>1 DEF IInv, Rules, Renewed, Holds, PodTypes, LeaseTypes
<1>9. Elected'
    BY <1>0, <1>1, <1>2, <1>3 DEF IInv, Rules, Elected, Timely, Holds, PodTypes
<1> QED BY <1>4, <1>5, <1>6, <1>7, <1>8, <1>9 DEF IInv, Rules

\* The check, which counts a pod that won with a lease it did not write.
LEMMA CheckInv ==
    ASSUME LeaseAssumption, IInv, NEW p \in Pod, Check(p) \/ CheckFails(p)
    PROVE  IInv'
<1>0. PodTypes /\ LeaseTypes
    BY Types DEF IInv
<1>1. UNCHANGED <<holder, left, fresh, stage, eligible, wants, tries, run, age, leader, late, wrote>>
    BY DEF Check, CheckFails, lease
<1>2. PICK step \in {"won", "lost"} :
         /\ pc' = [pc EXCEPT ![p] = step] /\ missed' \in BOOLEAN
         /\ ~missed' => ~missed /\ (step = "won" => p \in wrote)
    <2>1. CASE Check(p)
        <3>1. PICK step \in {"won", "lost"} : pc' = [pc EXCEPT ![p] = step]
            BY <2>1 DEF Check, Goto
        <3>2. pc'[p] = step /\ missed \in BOOLEAN
            BY <1>0, <3>1 DEF PodTypes, IInv, TypeOK
        <3> QED BY <2>1, <3>1, <3>2 DEF Check
    <2>2. CASE CheckFails(p)
        BY <2>2 DEF CheckFails, Goto, IInv, TypeOK
    <2> QED BY <2>1, <2>2
<1>3. pc[p] = "check" /\ Live(p) /\ trouble' \in 0..MaxTrouble
    BY TroubleType DEF Check, CheckFails, IInv, TypeOK
<1>4. TypeOK'
    BY <1>0, <1>1, <1>2, <1>3 DEF IInv, TypeOK, PodTypes
<1>5. Timely'
    BY <1>1 DEF IInv, Rules, Timely
<1>6. Resting'
    BY <1>0, <1>1, <1>2, <1>3 DEF IInv, Rules, Resting, PodTypes, Live
<1>7. Copies'
    BY <1>0, <1>1, <1>2 DEF IInv, Rules, Copies, Opens, PodTypes, LeaseTypes
<1>8. Renewed'
    BY <1>0, <1>1, <1>2 DEF IInv, Rules, Renewed, Holds, PodTypes, LeaseTypes
<1>9. Elected'
    BY <1>0, <1>1, <1>2 DEF IInv, Rules, Elected, Holds, PodTypes
<1> QED BY <1>4, <1>5, <1>6, <1>7, <1>8, <1>9 DEF IInv, Rules

\* The flag is stored: the lease of the refresh becomes the lease of the leader.
LEMMA StoreInv == ASSUME LeaseAssumption, IInv, NEW p \in Pod, Store(p) PROVE IInv'
<1>0. PodTypes /\ LeaseTypes
    BY Types DEF IInv
<1>1. UNCHANGED <<holder, left, fresh, stage, late, missed, trouble>>
    BY DEF Store, lease
<1>2. /\ pc[p] \in {"won", "lost"} /\ Live(p)
      /\ leader' = [leader EXCEPT ![p] = (pc[p] = "won")]
      /\ age' = [age EXCEPT ![p] = run[p]]
      /\ pc' = [pc EXCEPT ![p] = "idle"] /\ run' = [run EXCEPT ![p] = 0]
      /\ eligible' = [eligible EXCEPT ![p] = TRUE] /\ wants' = [wants EXCEPT ![p] = "same"]
      /\ tries' = [tries EXCEPT ![p] = 0] /\ wrote' = wrote \ {p}
    BY DEF Store, Rest, Goto
<1>3. TTL \in Nat /\ MaxTries \in Nat /\ MaxGap \in Nat
    BY DEF LeaseAssumption
<1>4. TypeOK'
    BY <1>0, <1>1, <1>2, <1>3 DEF IInv, TypeOK, PodTypes
<1>5. Timely'
    BY <1>0, <1>2, <1>3 DEF IInv, Rules, Timely, PodTypes
<1>6. Resting'
    BY <1>0, <1>1, <1>2 DEF IInv, Rules, Resting, PodTypes, Live
<1>7. Copies'
    BY <1>0, <1>1, <1>2 DEF IInv, Rules, Copies, Opens, PodTypes, LeaseTypes
<1>8. Renewed'
    BY <1>0, <1>1, <1>2 DEF IInv, Rules, Renewed, Holds, PodTypes, LeaseTypes
<1>9. Elected'
    <2> SUFFICES ASSUME ~missed, NEW q \in Pod
                 PROVE  /\ pc'[q] = "won" => q \in wrote'
                        /\ leader'[q] /\ eligible'[q] =>
                             /\ Holds(q, age[q])'
                             /\ \A w \in late : w[1] = q => w[2] = "take" /\ w[3] <= age'[q]
        BY <1>1 DEF Elected
    <2>1. CASE q = p
        <3>1. pc'[q] = "idle" /\ age'[q] = run[q] /\ (leader'[q] <=> pc[q] = "won")
            BY <1>0, <1>2, <2>1 DEF PodTypes
        <3>2. pc[q] = "won" => Holds(q, run[q]) /\ \A w \in late : w[1] # q
            BY DEF IInv, Rules, Elected, Renewed
        <3> QED BY <1>1, <3>1, <3>2 DEF Holds
    <2>2. CASE q # p
        <3>1. pc'[q] = pc[q] /\ age'[q] = age[q] /\ leader'[q] = leader[q] /\ eligible'[q] = eligible[q]
            BY <1>0, <1>2, <2>2 DEF PodTypes
        <3> QED BY <1>1, <1>2, <2>2, <3>1 DEF IInv, Rules, Elected, Holds
    <2> QED BY <2>1, <2>2
<1> QED BY <1>4, <1>5, <1>6, <1>7, <1>8, <1>9 DEF IInv, Rules

\* Time passes: leases and refreshes grow older together.
LEMMA TickInv == ASSUME LeaseAssumption, IInv, Tick PROVE IInv'
<1>0. PodTypes /\ LeaseTypes
    BY Types DEF IInv
<1>1. UNCHANGED <<holder, fresh, stage, pc, eligible, wants, tries, leader, wrote, missed, trouble>>
    BY DEF Tick
<1>2. TTL \in Nat /\ MaxGap \in Nat /\ MaxGap < TTL
    BY DEF LeaseAssumption
<1>3. left \in Int /\ left >= -(TTL + 1) /\ left <= TTL
    BY <1>0, <1>2 DEF LeaseTypes
<1>4. left' = IF holder = None \/ left = -(TTL + 1) THEN left ELSE left - 1
    BY DEF Tick
<1>5. late' = {<<w[1], w[2], w[3] + 1>> : w \in {v \in late : v[3] < TTL}}
    BY DEF Tick
<1>6. \A p \in Pod :
        /\ age[p] \in Int /\ run[p] \in Int /\ age[p] >= 0 /\ run[p] >= 0
        /\ age'[p] = IF Live(p) THEN age[p] + 1 ELSE age[p]
        /\ run'[p] = IF pc[p] # "idle" THEN run[p] + 1 ELSE run[p]
        /\ Live(p) => age[p] < MaxGap
        /\ pc[p] # "idle" => Live(p)
    BY <1>0, <1>2 DEF Tick, PodTypes, IInv, Rules, Resting
<1>7. Timely'
    BY <1>1, <1>2, <1>6 DEF IInv, Rules, Timely
<1>8. Resting'
    BY <1>1, <1>6 DEF IInv, Rules, Resting, Live
<1>9. ASSUME NEW w \in late'
      PROVE  /\ w \in Pod \X {"take", "free"} \X (0..TTL)
             /\ \E v \in late : /\ w[1] = v[1] /\ w[2] = v[2] /\ w[3] = v[3] + 1
                                /\ v[3] \in Int /\ v[3] >= 0 /\ v[3] < TTL
    <2>1. PICK v \in late : v[3] < TTL /\ w = <<v[1], v[2], v[3] + 1>>
        BY <1>5
    <2>2. v[1] \in Pod /\ v[2] \in {"take", "free"} /\ v[3] \in 0..TTL
        BY <1>0, LateParts
    <2>3. v[3] + 1 \in 0..TTL /\ v[3] \in Int /\ v[3] >= 0
        BY <1>2, <2>1, <2>2
    <2> QED BY <2>1, <2>2, <2>3
<1>10. TypeOK'
    <2>1. /\ age' = [p \in Pod |-> IF Live(p) THEN age[p] + 1 ELSE age[p]]
          /\ run' = [p \in Pod |-> IF pc[p] # "idle" THEN run[p] + 1 ELSE run[p]]
        BY DEF Tick
    <2>2. \A p \in Pod : age'[p] \in 0..TTL /\ run'[p] \in 0..TTL
        BY <1>2, <1>6, <1>7 DEF Timely
    <2>3. age' \in [Pod -> 0..TTL] /\ run' \in [Pod -> 0..TTL]
        BY <2>1, <2>2
    <2>4. left' \in -(TTL + 1)..TTL
        BY <1>2, <1>3, <1>4
    <2>5. late' \subseteq Pod \X {"take", "free"} \X (0..TTL)
        BY <1>9
    <2> QED BY <1>1, <2>3, <2>4, <2>5 DEF IInv, TypeOK
<1>11. ASSUME NEW p, NEW what, NEW ago \in Int, ago < TTL, Opens(p, what, ago)
       PROVE  (what = "free" => holder' = p) /\ (what = "take" => holder' \in {None, p} \/ left' + (ago + 1) < 0)
    <2>1. holder # None => left' + (ago + 1) = left + ago \/ left' + (ago + 1) < 0
        BY <1>2, <1>3, <1>4, <1>11
    <2> QED BY <1>1, <1>11, <2>1 DEF Opens
<1>12. Copies'
    <2>1. ASSUME NEW p \in fresh', pc'[p] = "write"
          PROVE  Opens(p, wants[p], run[p])' /\ (wants'[p] = "free" => ~eligible'[p])
        <3>1. /\ p \in Pod /\ p \in fresh /\ pc[p] = "write"
              /\ Opens(p, wants[p], run[p]) /\ (wants[p] = "free" => ~eligible[p])
            BY <1>0, <1>1, <2>1 DEF IInv, Rules, Copies, LeaseTypes
        <3>2. run'[p] = run[p] + 1 /\ run[p] \in Int /\ run[p] < TTL
            BY <1>2, <1>6, <1>7, <3>1 DEF Timely, IInv, Rules
        <3> QED BY <1>1, <1>11, <3>1, <3>2 DEF Opens
    <2>2. ASSUME NEW w \in late' PROVE Opens(w[1], w[2], w[3])'
        <3>1. PICK v \in late : /\ w[1] = v[1] /\ w[2] = v[2] /\ w[3] = v[3] + 1
                                /\ v[3] \in Int /\ v[3] < TTL
            BY <1>9
        <3>2. Opens(v[1], v[2], v[3])
            BY DEF IInv, Rules, Copies
        <3> QED BY <1>11, <3>1, <3>2 DEF Opens
    <2> QED BY <2>1, <2>2 DEF Copies
<1>13. ASSUME NEW p \in Pod, NEW ago \in Int, ago < TTL, Holds(p, ago)
       PROVE  holder' = p /\ left' >= TTL - (ago + 1)
    BY <1>1, <1>2, <1>3, <1>4, <1>13 DEF Holds
<1>14. Renewed'
    <2> SUFFICES ASSUME NEW p \in wrote
                 PROVE  /\ pc[p] \in {"check", "won", "lost"} /\ Holds(p, run[p])'
                        /\ \A w \in late' : w[1] # p
        BY <1>1 DEF Renewed
    <2>1. /\ p \in Pod /\ pc[p] \in {"check", "won", "lost"} /\ Holds(p, run[p])
          /\ \A w \in late : w[1] # p
        BY <1>0 DEF IInv, Rules, Renewed, LeaseTypes
    <2>2. run'[p] = run[p] + 1 /\ run[p] \in Int /\ run[p] < TTL
        BY <1>2, <1>6, <2>1 DEF IInv, Rules, Timely
    <2>3. Holds(p, run[p])'
        BY <1>13, <2>1, <2>2 DEF Holds
    <2> QED BY <1>9, <2>1, <2>3
<1>15. Elected'
    <2> SUFFICES ASSUME ~missed, NEW p \in Pod
                 PROVE  /\ pc[p] = "won" => p \in wrote
                        /\ leader[p] /\ eligible[p] =>
                             /\ Holds(p, age[p])'
                             /\ \A w \in late' : w[1] = p => w[2] = "take" /\ w[3] <= age'[p]
        BY <1>1 DEF Elected
    <2>1. pc[p] = "won" => p \in wrote
        BY DEF IInv, Rules, Elected
    <2>2. ASSUME leader[p], eligible[p]
          PROVE  /\ Holds(p, age[p])'
                 /\ \A w \in late' : w[1] = p => w[2] = "take" /\ w[3] <= age'[p]
        <3>1. Live(p) /\ Holds(p, age[p]) /\ \A w \in late : w[1] = p => w[2] = "take" /\ w[3] <= age[p]
            BY <2>2 DEF IInv, Rules, Elected, Resting
        <3>2. age'[p] = age[p] + 1 /\ age[p] \in Int /\ age[p] < TTL
            BY <1>2, <1>6, <3>1
        <3>3. Holds(p, age[p])'
            BY <1>13, <3>1, <3>2 DEF Holds
        <3>4. ASSUME NEW w \in late', w[1] = p PROVE w[2] = "take" /\ w[3] <= age'[p]
            <4>1. PICK v \in late : /\ w[1] = v[1] /\ w[2] = v[2] /\ w[3] = v[3] + 1 /\ v[3] \in Int
                BY <1>9
            <4>2. v[2] = "take" /\ v[3] <= age[p]
                BY <3>1, <3>4, <4>1
            <4> QED BY <3>2, <4>1, <4>2
        <3> QED BY <3>3, <3>4
    <2> QED BY <2>1, <2>2
<1> QED BY <1>7, <1>8, <1>10, <1>12, <1>14, <1>15 DEF IInv, Rules

\* A pod drains, or starts again.
LEMMA StageInv ==
    ASSUME LeaseAssumption, IInv, NEW p \in Pod, BeginDrain(p) \/ Restart(p)
    PROVE  IInv'
<1>0. PodTypes /\ LeaseTypes
    BY Types DEF IInv
<1>1. UNCHANGED <<holder, left, fresh, pc, eligible, wants, tries, run, age, leader, late, wrote, missed, trouble>>
    BY DEF BeginDrain, Restart, lease, loop
<1>2. \/ stage[p] = "up" /\ stage' = [stage EXCEPT ![p] = "draining"]
      \/ stage[p] = "down" /\ stage' = [stage EXCEPT ![p] = "up"]
    BY DEF BeginDrain, Restart
<1>3. TypeOK'
    BY <1>0, <1>1, <1>2 DEF IInv, TypeOK, PodTypes
<1>4. Resting'
    BY <1>0, <1>1, <1>2 DEF IInv, Rules, Resting, PodTypes, Live
<1>5. Timely' /\ Copies' /\ Renewed' /\ Elected'
    BY <1>1 DEF IInv, Rules, Timely, Copies, Opens, Renewed, Elected, Holds
<1> QED BY <1>3, <1>4, <1>5 DEF IInv, Rules

\* A pod crashes, perhaps with a write on its way.
LEMMA CrashInv == ASSUME LeaseAssumption, IInv, NEW p \in Pod, Crash(p) PROVE IInv'
<1>0. PodTypes /\ LeaseTypes
    BY Types DEF IInv
<1>1. UNCHANGED <<holder, left, fresh, missed>>
    BY DEF Crash, lease
<1>2. /\ stage' = [stage EXCEPT ![p] = "down"] /\ leader' = [leader EXCEPT ![p] = FALSE]
      /\ age' = [age EXCEPT ![p] = 0]
      /\ pc' = [pc EXCEPT ![p] = "idle"] /\ run' = [run EXCEPT ![p] = 0]
      /\ eligible' = [eligible EXCEPT ![p] = TRUE] /\ wants' = [wants EXCEPT ![p] = "same"]
      /\ tries' = [tries EXCEPT ![p] = 0] /\ wrote' = wrote \ {p}
    BY DEF Crash, Rest, Goto
<1>3. /\ late \subseteq late'
      /\ late' \subseteq Pod \X {"take", "free"} \X (0..TTL)
      /\ \A w \in late' \ late : w[1] = p /\ Opens(w[1], w[2], w[3])
    BY GivenUp DEF Crash
<1>4. TTL \in Nat /\ MaxTries \in Nat /\ MaxGap \in Nat /\ trouble' \in 0..MaxTrouble
    BY TroubleType DEF LeaseAssumption, Crash
<1>5. TypeOK'
    BY <1>0, <1>1, <1>2, <1>3, <1>4 DEF IInv, TypeOK, PodTypes
<1>6. Timely'
    BY <1>0, <1>2, <1>4 DEF IInv, Rules, Timely, PodTypes
<1>7. Resting'
    BY <1>0, <1>2 DEF IInv, Rules, Resting, PodTypes, Live
<1>8. Copies'
    BY <1>0, <1>1, <1>2, <1>3 DEF IInv, Rules, Copies, Opens, PodTypes, LeaseTypes
<1>9. Renewed'
    BY <1>0, <1>1, <1>2, <1>3 DEF IInv, Rules, Renewed, Holds, PodTypes, LeaseTypes
<1>10. Elected'
    BY <1>0, <1>1, <1>2, <1>3 DEF IInv, Rules, Elected, Holds, PodTypes
<1> QED BY <1>5, <1>6, <1>7, <1>8, <1>9, <1>10 DEF IInv, Rules

-----------------------------------------------------------------------------
\* IInv is an inductive invariant of the leases.
LEMMA Invariance == ASSUME LeaseAssumption PROVE Spec => []IInv
<1>1. IInv /\ [Next]_vars => IInv'
    <2> SUFFICES ASSUME IInv, [Next]_vars PROVE IInv'
        OBVIOUS
    <2>1. CASE UNCHANGED vars
        BY <2>1 DEF vars, lease, loop, IInv, Rules, TypeOK, Timely, Resting, Live, Copies, Opens,
                    Renewed, Elected, Holds
    <2>2. ASSUME NEW p \in Pod, Refresh(p) PROVE IInv'
        BY <2>2, BeginInv, ReadInv, WriteInv, CheckInv, StoreInv DEF Refresh
    <2>3. ASSUME NEW p \in Pod, UpdateFails(p) \/ CheckFails(p) PROVE IInv'
        BY <2>3, FailInv, CheckInv
    <2>4. ASSUME NEW p \in Pod, BeginDrain(p) \/ Crash(p) \/ Restart(p) PROVE IInv'
        BY <2>4, StageInv, CrashInv
    <2>5. ASSUME NEW w \in late, LateWrite(w) PROVE IInv'
        BY <2>5, LateInv
    <2>6. CASE Tick
        BY <2>6, TickInv
    <2> QED BY <2>1, <2>2, <2>3, <2>4, <2>5, <2>6 DEF Next
<1> QED BY InitIInv, <1>1, PTL DEF Spec

\* Type correctness of the leases in a ConfigMap.
THEOREM TypeCorrect == ASSUME LeaseAssumption PROVE Spec => []TypeOK
<1>1. IInv => TypeOK
    BY DEF IInv
<1> QED BY Invariance, <1>1, PTL

\* At most one pod serves as leader and the ConfigMap names it, whatever writes
\* conflict, fail, come late or die with their pods, while the pods are timely
\* and none was elected by a lease that its refresh did not write.
THEOREM OneLeaderAtATime == ASSUME LeaseAssumption PROVE Spec => []OneKubeLeader
<1>1. IInv => OneKubeLeader
    <2> SUFFICES ASSUME IInv, ~missed, NEW p \in Serving PROVE holder = p /\ Serving = {p}
        BY DEF OneKubeLeader
    <2>1. \A q \in Serving : holder = q
        <3> SUFFICES ASSUME NEW q \in Serving PROVE holder = q
            OBVIOUS
        <3>1. q \in Pod /\ leader[q] /\ Live(q) /\ (stage[q] = "draining" => pc[q] = "idle")
            BY DEF Serving
        <3>2. stage[q] \in {"up", "draining"}
            BY <3>1 DEF IInv, TypeOK, Live
        <3>3. eligible[q]
            BY <3>1, <3>2 DEF IInv, Rules, Resting
        <3> QED BY <3>1, <3>3 DEF IInv, Rules, Elected, Holds
    <2> QED BY <2>1
<1> QED BY Invariance, <1>1, PTL

-----------------------------------------------------------------------------
(*                                                                         *)
(* The two stores of ch4 (GoldCache): Redis above PostgreSQL.              *)
(*                                                                         *)
CONSTANTS Caller, MaxCalls, MaxFails
VARIABLES gold, cfg, row, goldC, cfgC, callPc, val, calls, fails, unsaid
Cache == INSTANCE GoldCache WITH pc <- callPc, missed <- unsaid

\* No more was deducted, and no more versions were written, than operations begun.
Counted == /\ -calls <= gold /\ -calls <= goldC /\ cfg <= calls
           /\ cfgC # None => cfgC <= calls
           /\ \A c \in Caller : /\ -calls <= val[c] /\ val[c] <= calls
                                /\ callPc[c] = "set" => val[c] <= 0
                                /\ callPc[c] = "fill" => val[c] >= 0

\* Whoever is about to commit holds the row and has subtracted from what is in it.
HoldsRow == \A c \in Caller : callPc[c] = "commit" => row = c /\ val[c] = gold - 1

\* Redis, and what a caller will write to it, is never ahead of the row.
Behind == goldC >= gold /\ \A c \in Caller : callPc[c] = "set" => val[c] >= gold

\* A caller alone: what of Redis is out of date is what it is about to write.
Alone == \A c, d \in Caller : c = d
UpToDate == (Alone /\ ~unsaid) => \A c \in Caller :
              /\ IF callPc[c] = "set" THEN val[c] = gold ELSE goldC = gold
              /\ callPc[c] # "del" => cfgC \in {cfg, None}
              /\ callPc[c] = "fill" => val[c] = cfg

CacheInv == Cache!TypeOK /\ Counted /\ HoldsRow /\ Behind /\ UpToDate

LEMMA CacheTypes ==
    ASSUME Cache!CacheAssumption, Cache!TypeOK
    PROVE  /\ MaxCalls \in Nat /\ MaxFails \in Nat /\ None \notin Caller
           /\ gold \in Int /\ goldC \in Int /\ cfg \in Nat /\ calls \in 0..MaxCalls
           /\ row \in Caller \cup {None} /\ cfgC \in Nat \cup {None}
           /\ callPc \in [Caller -> {"idle", "commit", "set", "read", "fill", "del"}]
           /\ val \in [Caller -> Int] /\ fails \in 0..MaxFails /\ unsaid \in BOOLEAN
           /\ gold <= 0 /\ goldC <= 0
<1>1. MaxCalls \in Nat /\ MaxFails \in Nat /\ None \notin Caller
    BY DEF Cache!CacheAssumption
<1>2. val \in [Caller -> Int]
    BY <1>1 DEF Cache!TypeOK
<1> QED BY <1>1, <1>2 DEF Cache!TypeOK

\* What Counted says makes the types those of TypeOK.
LEMMA CountedTypes ==
    ASSUME Cache!CacheAssumption, Counted',
           gold' \in Int, goldC' \in Int, cfg' \in Nat, calls' \in 0..MaxCalls,
           row' \in Caller \cup {None}, cfgC' \in Nat \cup {None},
           callPc' \in [Caller -> {"idle", "commit", "set", "read", "fill", "del"}],
           val' \in [Caller -> Int], fails' \in 0..MaxFails, unsaid' \in BOOLEAN,
           gold' <= 0, goldC' <= 0
    PROVE  Cache!TypeOK'
<1>1. MaxCalls \in Nat
    BY DEF Cache!CacheAssumption
<1>0. -calls' <= gold' /\ -calls' <= goldC' /\ cfg' <= calls'
    BY DEF Counted
<1>2. gold' \in -MaxCalls..0 /\ goldC' \in -MaxCalls..0 /\ cfg' \in 0..MaxCalls
  <2>1. ASSUME NEW m \in Nat, NEW n \in 0..m, NEW g \in Int, -n <= g, g <= 0
        PROVE  g \in -m..0
      BY <2>1
  <2>2. gold' \in -MaxCalls..0
      BY <1>0, <1>1, <2>1
  <2>3. goldC' \in -MaxCalls..0
      BY <1>0, <1>1, <2>1
  <2>4. cfg' \in 0..MaxCalls
      BY <1>0, <1>1
  <2> QED BY <2>2, <2>3, <2>4
<1>5. cfgC' \in (0..MaxCalls) \cup {None}
  <2>1. CASE cfgC' = None
      BY <2>1
  <2>2. CASE cfgC' # None
      BY <1>1, <2>2 DEF Counted
  <2> QED BY <2>1, <2>2
<1>3. \A c \in Caller : val'[c] \in -MaxCalls..MaxCalls
    BY <1>1 DEF Counted
<1>4. val' \in [Caller -> -MaxCalls..MaxCalls]
    BY <1>3
<1> QED BY <1>2, <1>4, <1>5 DEF Cache!TypeOK

LEMMA CacheInit ==
    ASSUME Cache!CacheAssumption, Cache!Init
    PROVE  CacheInv
<1>1. MaxCalls \in Nat /\ MaxFails \in Nat
    BY DEF Cache!CacheAssumption
<1>2. Cache!TypeOK
  <2>1. 0 \in -MaxCalls..0 /\ 0 \in 0..MaxCalls /\ 0 \in 0..MaxFails /\ 0 \in -MaxCalls..MaxCalls
      BY <1>1
  <2> QED BY <2>1 DEF Cache!Init, Cache!TypeOK
<1> QED BY <1>1, <1>2 DEF Cache!Init, CacheInv, Counted, HoldsRow, Behind, UpToDate

\* A step of caller c that moves it to a place with a value.
Moves(c, l, v) == /\ callPc'[c] = l /\ val'[c] = v
                  /\ \A d \in Caller \ {c} : callPc'[d] = callPc[d] /\ val'[d] = val[d]

LEMMA GotoMoves ==
    ASSUME Cache!CacheAssumption, Cache!TypeOK, NEW c \in Caller,
           NEW l \in {"idle", "commit", "set", "read", "fill", "del"}, NEW v \in Int,
           Cache!Goto(c, l, v)
    PROVE  /\ Moves(c, l, v) /\ val' \in [Caller -> Int]
           /\ callPc' \in [Caller -> {"idle", "commit", "set", "read", "fill", "del"}]
BY CacheTypes DEF Cache!Goto, Moves

LEMMA DeductKeeps ==
    ASSUME Cache!CacheAssumption, CacheInv, NEW c \in Caller, Cache!Deduct(c)
    PROVE  CacheInv'
<1>1. /\ callPc[c] = "idle" /\ calls < MaxCalls /\ calls' = calls + 1
      /\ UNCHANGED <<gold, cfg, goldC, cfgC, unsaid>>
      /\ \/ row = None /\ row' = c /\ Cache!Goto(c, "commit", gold - 1) /\ UNCHANGED fails
         \/ fails < MaxFails /\ fails' = fails + 1 /\ UNCHANGED <<row, callPc, val>>
    BY DEF Cache!Deduct, Cache!Called, Cache!Fail, Cache!Redis
<1>2. Cache!TypeOK /\ Counted /\ HoldsRow /\ Behind /\ UpToDate
    BY DEF CacheInv
<1>3. \/ /\ row = None /\ row' = c /\ Moves(c, "commit", gold - 1)
      \/ row' = row /\ UNCHANGED <<callPc, val>>
    BY <1>1, <1>2, CacheTypes, GotoMoves
<1>4. /\ callPc' \in [Caller -> {"idle", "commit", "set", "read", "fill", "del"}]
      /\ val' \in [Caller -> Int] /\ fails' \in 0..MaxFails /\ calls' \in 0..MaxCalls
    BY <1>1, <1>2, CacheTypes, GotoMoves
<1>5. Counted'
    BY <1>1, <1>2, <1>3, CacheTypes DEF Counted, HoldsRow, Moves
<1>6. Cache!TypeOK'
    BY <1>1, <1>2, <1>3, <1>4, <1>5, CacheTypes, CountedTypes DEF Counted, HoldsRow
<1>7. HoldsRow'
    BY <1>1, <1>2, <1>3, CacheTypes DEF HoldsRow, Moves
<1>8. Behind'
    BY <1>1, <1>2, <1>3, CacheTypes DEF Behind, Moves
<1>9. UpToDate'
    BY <1>1, <1>2, <1>3, CacheTypes DEF UpToDate, Alone, Moves
<1> QED BY <1>5, <1>6, <1>7, <1>8, <1>9 DEF CacheInv

LEMMA CommitKeeps ==
    ASSUME Cache!CacheAssumption, CacheInv, NEW c \in Caller, Cache!Commit(c)
    PROVE  CacheInv'
<1>1. /\ callPc[c] = "commit" /\ row' = None
      /\ UNCHANGED <<cfg, goldC, cfgC, calls, unsaid>>
      /\ \/ gold' = val[c] /\ Cache!Goto(c, "set", val[c]) /\ UNCHANGED fails
         \/ fails < MaxFails /\ fails' = fails + 1 /\ Cache!Goto(c, "idle", 0) /\ UNCHANGED gold
    BY DEF Cache!Commit, Cache!Return, Cache!Fail, Cache!Redis
<1>2. Cache!TypeOK /\ Counted /\ HoldsRow /\ Behind /\ UpToDate
    BY DEF CacheInv
<1>3. \/ gold' = val[c] /\ Moves(c, "set", val[c])
      \/ gold' = gold /\ Moves(c, "idle", 0)
    BY <1>1, <1>2, CacheTypes, GotoMoves
<1>4. /\ callPc' \in [Caller -> {"idle", "commit", "set", "read", "fill", "del"}]
      /\ val' \in [Caller -> Int] /\ fails' \in 0..MaxFails
    BY <1>1, <1>2, CacheTypes, GotoMoves
<1>10. unsaid' \in BOOLEAN
    BY <1>1, <1>2, CacheTypes
<1>5. Counted'
    BY <1>1, <1>2, <1>3, CacheTypes DEF Counted, HoldsRow, Moves
<1>6. Cache!TypeOK'
    BY <1>1, <1>2, <1>3, <1>4, <1>5, <1>10, CacheTypes, CountedTypes DEF Counted, HoldsRow
<1>7. HoldsRow'
    BY <1>1, <1>2, <1>3, CacheTypes DEF HoldsRow, Moves
<1>8. Behind'
    BY <1>1, <1>2, <1>3, CacheTypes DEF Behind, HoldsRow, Moves
<1>9. UpToDate'
    BY <1>1, <1>2, <1>3, CacheTypes DEF UpToDate, Alone, HoldsRow, Moves
<1> QED BY <1>5, <1>6, <1>7, <1>8, <1>9 DEF CacheInv

LEMMA SetGoldKeeps ==
    ASSUME Cache!CacheAssumption, CacheInv, NEW c \in Caller, Cache!SetGold(c)
    PROVE  CacheInv'
<1>1. /\ callPc[c] = "set" /\ Cache!Goto(c, "idle", 0)
      /\ UNCHANGED <<gold, cfg, row, cfgC, calls>>
      /\ \/ goldC' = val[c] /\ UNCHANGED <<fails, unsaid>>
         \/ fails < MaxFails /\ fails' = fails + 1 /\ unsaid' = TRUE /\ UNCHANGED goldC
    BY DEF Cache!SetGold, Cache!Return, Cache!Fail, Cache!Rows
<1>2. Cache!TypeOK /\ Counted /\ HoldsRow /\ Behind /\ UpToDate
    BY DEF CacheInv
<1>3. Moves(c, "idle", 0)
    BY <1>1, <1>2, CacheTypes, GotoMoves
<1>4. /\ callPc' \in [Caller -> {"idle", "commit", "set", "read", "fill", "del"}]
      /\ val' \in [Caller -> Int] /\ fails' \in 0..MaxFails
    BY <1>1, <1>2, CacheTypes, GotoMoves
<1>10. unsaid' \in BOOLEAN
    BY <1>1, <1>2, CacheTypes
<1>5. Counted'
    BY <1>1, <1>2, <1>3, CacheTypes DEF Counted, HoldsRow, Moves
<1>6. Cache!TypeOK'
    BY <1>1, <1>2, <1>3, <1>4, <1>5, <1>10, CacheTypes, CountedTypes DEF Counted, HoldsRow
<1>7. HoldsRow'
    BY <1>1, <1>2, <1>3, CacheTypes DEF HoldsRow, Moves
<1>8. Behind'
    BY <1>1, <1>2, <1>3, CacheTypes DEF Behind, HoldsRow, Moves
<1>9. UpToDate'
    BY <1>1, <1>2, <1>3, CacheTypes DEF UpToDate, Alone, HoldsRow, Moves
<1> QED BY <1>5, <1>6, <1>7, <1>8, <1>9 DEF CacheInv

LEMMA GetConfigKeeps ==
    ASSUME Cache!CacheAssumption, CacheInv, NEW c \in Caller, Cache!GetConfig(c)
    PROVE  CacheInv'
<1>1. /\ callPc[c] = "idle" /\ calls < MaxCalls /\ calls' = calls + 1
      /\ UNCHANGED <<gold, cfg, row, goldC, cfgC, unsaid>>
      /\ \/ UNCHANGED <<callPc, val, fails>>
         \/ Cache!Goto(c, "read", 0) /\ UNCHANGED fails
         \/ fails < MaxFails /\ fails' = fails + 1 /\ Cache!Goto(c, "read", 0)
    BY DEF Cache!GetConfig, Cache!Called, Cache!Fail, Cache!Redis, Cache!Rows
<1>2. Cache!TypeOK /\ Counted /\ HoldsRow /\ Behind /\ UpToDate
    BY DEF CacheInv
<1>3. Moves(c, "read", 0) \/ UNCHANGED <<callPc, val>>
    BY <1>1, <1>2, CacheTypes, GotoMoves
<1>4. /\ callPc' \in [Caller -> {"idle", "commit", "set", "read", "fill", "del"}]
      /\ val' \in [Caller -> Int] /\ fails' \in 0..MaxFails
    BY <1>1, <1>2, CacheTypes, GotoMoves
<1>10. unsaid' \in BOOLEAN
    BY <1>1, <1>2, CacheTypes
<1>5. Counted'
    BY <1>1, <1>2, <1>3, CacheTypes DEF Counted, HoldsRow, Moves
<1>6. Cache!TypeOK'
    BY <1>1, <1>2, <1>3, <1>4, <1>5, <1>10, CacheTypes, CountedTypes DEF Counted, HoldsRow
<1>7. HoldsRow'
    BY <1>1, <1>2, <1>3, CacheTypes DEF HoldsRow, Moves
<1>8. Behind'
    BY <1>1, <1>2, <1>3, CacheTypes DEF Behind, HoldsRow, Moves
<1>9. UpToDate'
    BY <1>1, <1>2, <1>3, CacheTypes DEF UpToDate, Alone, HoldsRow, Moves
<1> QED BY <1>5, <1>6, <1>7, <1>8, <1>9 DEF CacheInv

LEMMA ReadConfigKeeps ==
    ASSUME Cache!CacheAssumption, CacheInv, NEW c \in Caller, Cache!ReadConfig(c)
    PROVE  CacheInv'
<1>1. /\ callPc[c] = "read"
      /\ UNCHANGED <<gold, cfg, row, goldC, cfgC, calls, unsaid>>
      /\ \/ Cache!Goto(c, "fill", cfg) /\ UNCHANGED fails
         \/ fails < MaxFails /\ fails' = fails + 1 /\ Cache!Goto(c, "idle", 0)
    BY DEF Cache!ReadConfig, Cache!Return, Cache!Fail, Cache!Redis, Cache!Rows
<1>2. Cache!TypeOK /\ Counted /\ HoldsRow /\ Behind /\ UpToDate
    BY DEF CacheInv
<1>3. Moves(c, "fill", cfg) \/ Moves(c, "idle", 0)
    BY <1>1, <1>2, CacheTypes, GotoMoves
<1>4. /\ callPc' \in [Caller -> {"idle", "commit", "set", "read", "fill", "del"}]
      /\ val' \in [Caller -> Int] /\ fails' \in 0..MaxFails
    BY <1>1, <1>2, CacheTypes, GotoMoves
<1>10. unsaid' \in BOOLEAN
    BY <1>1, <1>2, CacheTypes
<1>5. Counted'
    BY <1>1, <1>2, <1>3, CacheTypes DEF Counted, HoldsRow, Moves
<1>6. Cache!TypeOK'
    BY <1>1, <1>2, <1>3, <1>4, <1>5, <1>10, CacheTypes, CountedTypes DEF Counted, HoldsRow
<1>7. HoldsRow'
    BY <1>1, <1>2, <1>3, CacheTypes DEF HoldsRow, Moves
<1>8. Behind'
    BY <1>1, <1>2, <1>3, CacheTypes DEF Behind, HoldsRow, Moves
<1>9. UpToDate'
    BY <1>1, <1>2, <1>3, CacheTypes DEF UpToDate, Alone, HoldsRow, Moves
<1> QED BY <1>5, <1>6, <1>7, <1>8, <1>9 DEF CacheInv

LEMMA FillConfigKeeps ==
    ASSUME Cache!CacheAssumption, CacheInv, NEW c \in Caller, Cache!FillConfig(c)
    PROVE  CacheInv'
<1>1. /\ callPc[c] = "fill" /\ Cache!Goto(c, "idle", 0)
      /\ UNCHANGED <<gold, cfg, row, goldC, calls, unsaid>>
      /\ \/ cfgC' = val[c] /\ UNCHANGED fails
         \/ fails < MaxFails /\ fails' = fails + 1 /\ UNCHANGED cfgC
    BY DEF Cache!FillConfig, Cache!Return, Cache!Fail, Cache!Rows
<1>2. Cache!TypeOK /\ Counted /\ HoldsRow /\ Behind /\ UpToDate
    BY DEF CacheInv
<1>3. Moves(c, "idle", 0)
    BY <1>1, <1>2, CacheTypes, GotoMoves
<1>4. /\ callPc' \in [Caller -> {"idle", "commit", "set", "read", "fill", "del"}]
      /\ val' \in [Caller -> Int] /\ fails' \in 0..MaxFails
    BY <1>1, <1>2, CacheTypes, GotoMoves
<1>10. unsaid' \in BOOLEAN
    BY <1>1, <1>2, CacheTypes
<1>5. Counted'
    BY <1>1, <1>2, <1>3, CacheTypes DEF Counted, HoldsRow, Moves
<1>6. Cache!TypeOK'
    BY <1>1, <1>2, <1>3, <1>4, <1>5, <1>10, CacheTypes, CountedTypes DEF Counted, HoldsRow
<1>7. HoldsRow'
    BY <1>1, <1>2, <1>3, CacheTypes DEF HoldsRow, Moves
<1>8. Behind'
    BY <1>1, <1>2, <1>3, CacheTypes DEF Behind, HoldsRow, Moves
<1>9. UpToDate'
    BY <1>1, <1>2, <1>3, CacheTypes DEF UpToDate, Alone, HoldsRow, Moves
<1> QED BY <1>5, <1>6, <1>7, <1>8, <1>9 DEF CacheInv

LEMMA UpdateKeeps ==
    ASSUME Cache!CacheAssumption, CacheInv, NEW c \in Caller, Cache!Update(c)
    PROVE  CacheInv'
<1>1. /\ callPc[c] = "idle" /\ calls < MaxCalls /\ calls' = calls + 1
      /\ UNCHANGED <<gold, row, goldC, cfgC, unsaid>>
      /\ \/ cfg' = cfg + 1 /\ Cache!Goto(c, "del", 0) /\ UNCHANGED fails
         \/ fails < MaxFails /\ fails' = fails + 1 /\ UNCHANGED <<cfg, callPc, val>>
    BY DEF Cache!Update, Cache!Called, Cache!Fail, Cache!Redis
<1>2. Cache!TypeOK /\ Counted /\ HoldsRow /\ Behind /\ UpToDate
    BY DEF CacheInv
<1>3. \/ cfg' = cfg + 1 /\ Moves(c, "del", 0)
      \/ UNCHANGED <<cfg, callPc, val>>
    BY <1>1, <1>2, CacheTypes, GotoMoves
<1>4. /\ callPc' \in [Caller -> {"idle", "commit", "set", "read", "fill", "del"}]
      /\ val' \in [Caller -> Int] /\ fails' \in 0..MaxFails
    BY <1>1, <1>2, CacheTypes, GotoMoves
<1>10. unsaid' \in BOOLEAN
    BY <1>1, <1>2, CacheTypes
<1>5. Counted'
    BY <1>1, <1>2, <1>3, CacheTypes DEF Counted, HoldsRow, Moves
<1>6. Cache!TypeOK'
    BY <1>1, <1>2, <1>3, <1>4, <1>5, <1>10, CacheTypes, CountedTypes DEF Counted, HoldsRow
<1>7. HoldsRow'
    BY <1>1, <1>2, <1>3, CacheTypes DEF HoldsRow, Moves
<1>8. Behind'
    BY <1>1, <1>2, <1>3, CacheTypes DEF Behind, HoldsRow, Moves
<1>9. UpToDate'
    BY <1>1, <1>2, <1>3, CacheTypes DEF UpToDate, Alone, HoldsRow, Moves
<1> QED BY <1>5, <1>6, <1>7, <1>8, <1>9 DEF CacheInv

LEMMA DelConfigKeeps ==
    ASSUME Cache!CacheAssumption, CacheInv, NEW c \in Caller, Cache!DelConfig(c)
    PROVE  CacheInv'
<1>1. /\ callPc[c] = "del" /\ Cache!Goto(c, "idle", 0)
      /\ UNCHANGED <<gold, cfg, row, goldC, calls>>
      /\ \/ cfgC' = None /\ UNCHANGED <<fails, unsaid>>
         \/ fails < MaxFails /\ fails' = fails + 1 /\ unsaid' = TRUE /\ UNCHANGED cfgC
    BY DEF Cache!DelConfig, Cache!Return, Cache!Fail, Cache!Rows
<1>2. Cache!TypeOK /\ Counted /\ HoldsRow /\ Behind /\ UpToDate
    BY DEF CacheInv
<1>3. Moves(c, "idle", 0)
    BY <1>1, <1>2, CacheTypes, GotoMoves
<1>4. /\ callPc' \in [Caller -> {"idle", "commit", "set", "read", "fill", "del"}]
      /\ val' \in [Caller -> Int] /\ fails' \in 0..MaxFails
    BY <1>1, <1>2, CacheTypes, GotoMoves
<1>10. unsaid' \in BOOLEAN
    BY <1>1, <1>2, CacheTypes
<1>5. Counted'
    BY <1>1, <1>2, <1>3, CacheTypes DEF Counted, HoldsRow, Moves
<1>6. Cache!TypeOK'
    BY <1>1, <1>2, <1>3, <1>4, <1>5, <1>10, CacheTypes, CountedTypes DEF Counted, HoldsRow
<1>7. HoldsRow'
    BY <1>1, <1>2, <1>3, CacheTypes DEF HoldsRow, Moves
<1>8. Behind'
    BY <1>1, <1>2, <1>3, CacheTypes DEF Behind, HoldsRow, Moves
<1>9. UpToDate'
    BY <1>1, <1>2, <1>3, CacheTypes DEF UpToDate, Alone, HoldsRow, Moves
<1> QED BY <1>5, <1>6, <1>7, <1>8, <1>9 DEF CacheInv

LEMMA CacheStep ==
    ASSUME Cache!CacheAssumption, CacheInv, [Cache!Next]_(Cache!vars)
    PROVE  CacheInv'
<1>1. CASE UNCHANGED Cache!vars
    BY <1>1 DEF Cache!vars, CacheInv, Cache!TypeOK, Counted, HoldsRow, Behind, UpToDate
<1>2. CASE Cache!Next
    BY <1>2, DeductKeeps, CommitKeeps, SetGoldKeeps, GetConfigKeeps, ReadConfigKeeps,
       FillConfigKeeps, UpdateKeeps, DelConfigKeeps DEF Cache!Next, Cache!Step
<1> QED BY <1>1, <1>2

\* Redis never shows a deduction that the database did not commit, however many
\* call and whatever fails; and to a program that calls one operation after the
\* other, between two calls, it shows what the database holds unless one of its
\* own writes failed (GoldCache's Committed and Fresh; DeductGold, GetGameConfig,
\* UpdateGameConfig).
THEOREM CacheTrails ==
    ASSUME Cache!CacheAssumption
    PROVE  Cache!Spec => [](Cache!TypeOK /\ Cache!Committed /\ Cache!Fresh)
<1>1. ASSUME CacheInv PROVE Cache!Committed
    BY <1>1 DEF CacheInv, Behind, Cache!Committed
<1>2. ASSUME CacheInv PROVE Cache!Fresh
  <2>1. ASSUME Cardinality(Caller) = 1, ~unsaid, \A c \in Caller : callPc[c] = "idle"
        PROVE  goldC = gold /\ cfgC \in {cfg, None}
    <3>1. PICK c : Caller = {c}
        BY <2>1, FS_Singleton DEF Cache!CacheAssumption, Cache!IsFiniteSet, IsFiniteSet
    <3> QED BY <1>2, <2>1, <3>1 DEF CacheInv, UpToDate, Alone
  <2> QED BY <2>1 DEF Cache!Fresh, Cache!Cardinality, Cardinality
<1>3. CacheInv => Cache!TypeOK /\ Cache!Committed /\ Cache!Fresh
    BY <1>1, <1>2 DEF CacheInv
<1> QED BY CacheInit, CacheStep, <1>3, PTL DEF Cache!Spec

-----------------------------------------------------------------------------
(*                                                                         *)
(* Players and an NPC with treasures (TreasureNPC).                        *)
(*                                                                         *)
CONSTANTS Player, Demo, MaxStock
VARIABLES heroPc, items, mu, stocked, signals
Treasure == INSTANCE TreasureNPC WITH pc <- heroPc

\* The number of players at these places.
Num(f, P) == Cardinality({p \in Player : f[p] \in P})

\* The mutex is held between its Lock and what gives it back, and nobody takes
\* a treasure that is not there.
UnderLock == \A p \in Player : /\ heroPc[p] \in {"check", "take"} <=> mu = p
                               /\ heroPc[p] = "take" => items > 0

\* Every treasure is with the NPC or with a player.
Shared == items >= 0 /\ items + Num(heroPc, {"won"}) = stocked + (IF Demo = "right" THEN 1 ELSE 0)

Awake == {"arrive", "check", "take", "woken"}
Heard == (\E p \in Player : heroPc[p] = "asleep") => items <= signals + Num(heroPc, Awake)

\* Only the program with a condition variable sleeps on it.
SleepsOnCond == Demo # "cond" => \A p \in Player : heroPc[p] # "asleep"

HeroInv == Treasure!TypeOK /\ UnderLock /\ Shared /\ Heard /\ SleepsOnCond

LEMMA HeroTypes ==
    ASSUME Treasure!TreasureAssumption, Treasure!TypeOK
    PROVE  /\ MaxStock \in Nat /\ None \notin Player /\ IsFiniteSet(Player)
           /\ Demo \in {"right", "busy", "cond"}
           /\ heroPc \in [Player -> {"arrive", "check", "take", "asleep", "woken", "won", "lost"}]
           /\ items \in Int /\ mu \in Player \cup {None}
           /\ stocked \in 0..MaxStock /\ signals \in 0..MaxStock
<1>1. MaxStock \in Nat /\ None \notin Player /\ IsFiniteSet(Player)
      /\ Demo \in {"right", "busy", "cond"}
    BY DEF Treasure!TreasureAssumption, Treasure!IsFiniteSet, IsFiniteSet
<1> QED BY <1>1 DEF Treasure!TypeOK, Treasure!Places

LEMMA NumType ==
    ASSUME IsFiniteSet(Player), NEW f, NEW P
    PROVE  Num(f, P) \in Nat
<1>1. {p \in Player : f[p] \in P} \in SUBSET Player
    OBVIOUS
<1> QED BY <1>1, FS_Subset, FS_CardinalityType DEF Num

\* A player that goes from one place to another is counted where it is.
LEMMA HeroMoves ==
    ASSUME Treasure!TreasureAssumption, Treasure!TypeOK, NEW p \in Player, NEW l,
           heroPc' = [heroPc EXCEPT ![p] = l]
    PROVE  /\ Num(heroPc', {"won"}) = IF l = "won"
                 THEN IF heroPc[p] = "won" THEN Num(heroPc, {"won"}) ELSE Num(heroPc, {"won"}) + 1
                 ELSE IF heroPc[p] = "won" THEN Num(heroPc, {"won"}) - 1 ELSE Num(heroPc, {"won"})
           /\ Num(heroPc', Awake) = IF l \in Awake
                 THEN IF heroPc[p] \in Awake THEN Num(heroPc, Awake) ELSE Num(heroPc, Awake) + 1
                 ELSE IF heroPc[p] \in Awake THEN Num(heroPc, Awake) - 1 ELSE Num(heroPc, Awake)
<1>1. IsFiniteSet(Player) /\ heroPc'[p] = l
      /\ \A q \in Player \ {p} : heroPc'[q] = heroPc[q]
    BY HeroTypes
<1>2. ASSUME NEW P
      PROVE  Num(heroPc', P) = IF l \in P
                 THEN IF heroPc[p] \in P THEN Num(heroPc, P) ELSE Num(heroPc, P) + 1
                 ELSE IF heroPc[p] \in P THEN Num(heroPc, P) - 1 ELSE Num(heroPc, P)
  <2> DEFINE S == {q \in Player : heroPc[q] \in P}
             T == {q \in Player : heroPc'[q] \in P}
  <2>1. IsFiniteSet(S) /\ (p \in S <=> heroPc[p] \in P)
    <3>1. S \in SUBSET Player
        OBVIOUS
    <3> QED BY <1>1, <3>1, FS_Subset
  <2>2. T = IF l \in P THEN S \cup {p} ELSE S \ {p}
      BY <1>1
  <2>3. Num(heroPc, P) = Cardinality(S) /\ Num(heroPc', P) = Cardinality(T)
      BY DEF Num
  <2> HIDE DEF S, T
  <2>4. l \in P => Num(heroPc', P) = IF heroPc[p] \in P THEN Num(heroPc, P)
                                                      ELSE Num(heroPc, P) + 1
      BY <2>1, <2>2, <2>3, FS_AddElement
  <2>5. l \notin P => Num(heroPc', P) = IF heroPc[p] \in P THEN Num(heroPc, P) - 1
                                                         ELSE Num(heroPc, P)
      BY <2>1, <2>2, <2>3, FS_RemoveElement
  <2> QED BY <2>4, <2>5
<1>3. l \in {"won"} <=> l = "won"
    OBVIOUS
<1>4. heroPc[p] \in {"won"} <=> heroPc[p] = "won"
    OBVIOUS
<1> QED BY <1>2, <1>3, <1>4

LEMMA HeroInit ==
    ASSUME Treasure!TreasureAssumption, Treasure!Init
    PROVE  HeroInv
<1>1. MaxStock \in Nat /\ None \notin Player
    BY DEF Treasure!TreasureAssumption
<1>2. Num(heroPc, {"won"}) = 0
  <2>1. {p \in Player : heroPc[p] \in {"won"}} = {}
      BY DEF Treasure!Init
  <2> QED BY <2>1, FS_EmptySet DEF Num
<1>3. Treasure!TypeOK
  <2>1. items \in -MaxStock..(MaxStock + 1) /\ stocked \in 0..MaxStock /\ signals \in 0..MaxStock
      BY <1>1 DEF Treasure!Init
  <2> QED BY <2>1 DEF Treasure!Init, Treasure!TypeOK, Treasure!Places
<1>4. UnderLock
    BY <1>1 DEF Treasure!Init, UnderLock
<1>5. Shared
    BY <1>2 DEF Treasure!Init, Shared
<1>6. Heard /\ SleepsOnCond
    BY DEF Treasure!Init, Heard, SleepsOnCond
<1> QED BY <1>3, <1>4, <1>5, <1>6 DEF HeroInv

LEMMA LockKeeps ==
    ASSUME Treasure!TreasureAssumption, HeroInv, NEW p \in Player, Treasure!Lock(p)
    PROVE  HeroInv'
<1>1. /\ heroPc[p] \in {"arrive", "woken"} /\ mu = None /\ mu' = p
      /\ heroPc' = [heroPc EXCEPT ![p] = "check"]
      /\ items' = items /\ stocked' = stocked /\ signals' = signals
    BY DEF Treasure!Lock, Treasure!Goto
<1>2. Treasure!TypeOK /\ UnderLock /\ Shared /\ Heard /\ SleepsOnCond
    BY DEF HeroInv
<1>3. Num(heroPc', {"won"}) = Num(heroPc, {"won"}) /\ Num(heroPc', Awake) = Num(heroPc, Awake)
    BY <1>1, <1>2, HeroTypes, HeroMoves DEF Awake
<1>4. Treasure!TypeOK'
    BY <1>1, <1>2 DEF Treasure!TypeOK, Treasure!Places
<1>5. UnderLock'
    BY <1>1, <1>2, HeroTypes DEF UnderLock
<1>6. Shared' /\ Heard' /\ SleepsOnCond'
    BY <1>1, <1>2, <1>3, HeroTypes DEF Shared, Heard, SleepsOnCond
<1> QED BY <1>4, <1>5, <1>6 DEF HeroInv

LEMMA CheckKeeps ==
    ASSUME Treasure!TreasureAssumption, HeroInv, NEW p \in Player, Treasure!Check(p)
    PROVE  HeroInv'
<1> DEFINE none == CASE Demo = "right" -> "lost" [] Demo = "busy" -> "arrive"
                     [] Demo = "cond" -> "asleep"
<1>1. /\ heroPc[p] = "check" /\ items' = items /\ stocked' = stocked /\ signals' = signals
      /\ \/ items > 0 /\ mu' = mu /\ heroPc' = [heroPc EXCEPT ![p] = "take"]
         \/ ~(items > 0) /\ mu' = None /\ heroPc' = [heroPc EXCEPT ![p] = none]
    BY DEF Treasure!Check, Treasure!Goto
<1>2. Treasure!TypeOK /\ UnderLock /\ Shared /\ Heard /\ SleepsOnCond
    BY DEF HeroInv
<1>3. none \in {"lost", "arrive", "asleep"} /\ (Demo # "cond" => none # "asleep")
    BY <1>2, HeroTypes
<1> HIDE DEF none
<1>4. PICK l \in {"take", "lost", "arrive", "asleep"} :
        /\ heroPc' = [heroPc EXCEPT ![p] = l]
        /\ l = "take" => items > 0 /\ mu' = mu
        /\ l # "take" => ~(items > 0) /\ mu' = None
        /\ Demo # "cond" => l # "asleep"
    BY <1>1, <1>3
<1>5. Num(heroPc', {"won"}) = Num(heroPc, {"won"})
    BY <1>1, <1>2, <1>4, HeroTypes, HeroMoves
<1>6. l = "take" => Num(heroPc', Awake) = Num(heroPc, Awake)
    BY <1>1, <1>2, <1>4, HeroTypes, HeroMoves DEF Awake
<1>7. Num(heroPc, Awake) \in Nat /\ Num(heroPc', Awake) \in Nat
  <2>1. IsFiniteSet(Player)
      BY <1>2, HeroTypes
  <2>2. Num(heroPc, Awake) \in Nat
      BY <2>1, NumType
  <2>3. Num(heroPc', Awake) \in Nat
      BY <2>1, NumType
  <2> QED BY <2>2, <2>3
<1>8. Treasure!TypeOK'
    BY <1>1, <1>2, <1>4 DEF Treasure!TypeOK, Treasure!Places
<1>9. UnderLock'
    BY <1>1, <1>2, <1>4, HeroTypes DEF UnderLock
<1>10. Shared'
    BY <1>1, <1>2, <1>5, HeroTypes DEF Shared
<1>11. Heard'
  <2>1. CASE l = "take"
      BY <1>1, <1>2, <1>4, <1>6, <2>1, HeroTypes DEF Heard
  <2>2. CASE l # "take"
    <3>1. items' = 0 /\ signals' >= 0
        BY <1>1, <1>2, <1>4, <2>2, HeroTypes DEF Shared
    <3>2. signals' \in Nat
        BY <1>1, <1>2, HeroTypes
    <3>3. items' <= signals' + Num(heroPc', Awake)
        BY <1>7, <3>1, <3>2
    <3> QED BY <3>3 DEF Heard, Awake
  <2> QED BY <2>1, <2>2
<1>12. SleepsOnCond'
    BY <1>1, <1>2, <1>4, HeroTypes DEF SleepsOnCond
<1> QED BY <1>8, <1>9, <1>10, <1>11, <1>12 DEF HeroInv

LEMMA TakeKeeps ==
    ASSUME Treasure!TreasureAssumption, HeroInv, NEW p \in Player, Treasure!Take(p)
    PROVE  HeroInv'
<1>1. /\ heroPc[p] = "take" /\ items' = items - 1 /\ mu' = None
      /\ heroPc' = [heroPc EXCEPT ![p] = "won"] /\ stocked' = stocked /\ signals' = signals
    BY DEF Treasure!Take, Treasure!Goto
<1>2. Treasure!TypeOK /\ UnderLock /\ Shared /\ Heard /\ SleepsOnCond
    BY DEF HeroInv
<1>3. Num(heroPc', {"won"}) = Num(heroPc, {"won"}) + 1 /\ Num(heroPc', Awake) = Num(heroPc, Awake) - 1
    BY <1>1, <1>2, HeroTypes, HeroMoves DEF Awake
<1>4. Num(heroPc, {"won"}) \in Nat /\ Num(heroPc, Awake) \in Nat
    BY <1>2, HeroTypes, NumType
<1>5. items > 0 /\ mu = p
    BY <1>1, <1>2 DEF UnderLock
<1>6. Treasure!TypeOK'
  <2>1. items' \in -MaxStock..(MaxStock + 1)
    <3>1. items \in -MaxStock..(MaxStock + 1) /\ MaxStock \in Nat
        BY <1>2, HeroTypes DEF Treasure!TypeOK
    <3> QED BY <1>1, <1>5, <3>1
  <2> QED BY <1>1, <1>2, <2>1 DEF Treasure!TypeOK, Treasure!Places
<1>7. UnderLock'
    BY <1>1, <1>2, <1>5, HeroTypes DEF UnderLock
<1>8. Shared'
    BY <1>1, <1>2, <1>3, <1>4, <1>5, HeroTypes DEF Shared
<1>9. Heard'
    BY <1>1, <1>2, <1>3, <1>4, HeroTypes DEF Heard
<1>10. SleepsOnCond'
    BY <1>1, <1>2, HeroTypes DEF SleepsOnCond
<1> QED BY <1>6, <1>7, <1>8, <1>9, <1>10 DEF HeroInv

LEMMA RestockKeeps ==
    ASSUME Treasure!TreasureAssumption, HeroInv, NEW n \in 1..MaxStock, Treasure!Restock(n)
    PROVE  HeroInv'
<1>1. /\ Demo # "right" /\ mu = None /\ signals = 0 /\ stocked + n <= MaxStock
      /\ items' = items + n /\ stocked' = stocked + n /\ heroPc' = heroPc /\ mu' = mu
      /\ signals' = IF Demo = "cond" THEN n ELSE 0
    BY DEF Treasure!Restock
<1>2. Treasure!TypeOK /\ UnderLock /\ Shared /\ Heard /\ SleepsOnCond
    BY DEF HeroInv
<1>3. Num(heroPc', {"won"}) = Num(heroPc, {"won"}) /\ Num(heroPc', Awake) = Num(heroPc, Awake)
    BY <1>1 DEF Num, Awake
<1>4. Num(heroPc, {"won"}) \in Nat /\ Num(heroPc, Awake) \in Nat
    BY <1>2, HeroTypes, NumType
<1>5. MaxStock \in Nat /\ n \in Nat /\ items \in Int /\ stocked \in Nat
    BY <1>2, HeroTypes
<1>6. Shared'
    BY <1>1, <1>2, <1>3, <1>4, <1>5 DEF Shared
<1>7. Treasure!TypeOK'
  <2>1. stocked' \in 0..MaxStock /\ signals' \in 0..MaxStock
      BY <1>1, <1>5
  <2>2. items' \in -MaxStock..(MaxStock + 1)
    <3>1. items' >= 0 /\ items' + Num(heroPc, {"won"}) = stocked'
        BY <1>1, <1>3, <1>6 DEF Shared
    <3> QED BY <1>1, <1>4, <1>5, <2>1, <3>1
  <2> QED BY <1>1, <1>2, <2>1, <2>2 DEF Treasure!TypeOK, Treasure!Places
<1>8. UnderLock'
    BY <1>1, <1>2, HeroTypes DEF UnderLock
<1>9. Heard' /\ SleepsOnCond'
    BY <1>1, <1>2, <1>3, <1>4, <1>5 DEF Heard, SleepsOnCond
<1> QED BY <1>6, <1>7, <1>8, <1>9 DEF HeroInv

LEMMA SignalKeeps ==
    ASSUME Treasure!TreasureAssumption, HeroInv, Treasure!Signal
    PROVE  HeroInv'
<1>1. /\ signals > 0 /\ signals' = signals - 1
      /\ items' = items /\ mu' = mu /\ stocked' = stocked
      /\ \/ heroPc' = heroPc /\ \A p \in Player : heroPc[p] # "asleep"
         \/ \E p \in Player : heroPc[p] = "asleep" /\ heroPc' = [heroPc EXCEPT ![p] = "woken"]
    BY DEF Treasure!Signal, Treasure!Goto, Treasure!At
<1>2. Treasure!TypeOK /\ UnderLock /\ Shared /\ Heard /\ SleepsOnCond
    BY DEF HeroInv
<1>3. Num(heroPc, {"won"}) \in Nat /\ Num(heroPc, Awake) \in Nat /\ signals \in Nat /\ items \in Int
    BY <1>2, HeroTypes, NumType
<1>4. signals' \in 0..MaxStock
  <2>1. signals \in 0..MaxStock /\ MaxStock \in Nat
      BY <1>2, HeroTypes
  <2> QED BY <1>1, <2>1
<1>5. CASE heroPc' = heroPc /\ \A p \in Player : heroPc[p] # "asleep"
  <2>1. Num(heroPc', {"won"}) = Num(heroPc, {"won"})
      BY <1>5 DEF Num
  <2>2. Treasure!TypeOK'
      BY <1>1, <1>2, <1>4, <1>5 DEF Treasure!TypeOK, Treasure!Places
  <2> QED BY <1>1, <1>2, <1>5, <2>1, <2>2
          DEF HeroInv, UnderLock, Shared, Heard, SleepsOnCond
<1>6. ASSUME NEW p \in Player, heroPc[p] = "asleep", heroPc' = [heroPc EXCEPT ![p] = "woken"]
      PROVE  HeroInv'
  <2>1. Num(heroPc', {"won"}) = Num(heroPc, {"won"}) /\ Num(heroPc', Awake) = Num(heroPc, Awake) + 1
      BY <1>2, <1>6, HeroTypes, HeroMoves DEF Awake
  <2>2. Treasure!TypeOK'
      BY <1>1, <1>2, <1>4, <1>6 DEF Treasure!TypeOK, Treasure!Places
  <2>3. UnderLock'
      BY <1>1, <1>2, <1>6, HeroTypes DEF UnderLock
  <2>4. Shared' /\ SleepsOnCond'
      BY <1>1, <1>2, <1>6, <2>1, HeroTypes DEF Shared, SleepsOnCond
  <2>5. Heard'
      BY <1>1, <1>2, <1>3, <1>6, <2>1 DEF Heard
  <2> QED BY <2>2, <2>3, <2>4, <2>5 DEF HeroInv
<1> QED BY <1>1, <1>5, <1>6

LEMMA HeroStep ==
    ASSUME Treasure!TreasureAssumption, HeroInv, [Treasure!Next]_(Treasure!vars)
    PROVE  HeroInv'
<1>1. CASE UNCHANGED Treasure!vars
  <2>1. heroPc' = heroPc /\ items' = items /\ mu' = mu /\ stocked' = stocked /\ signals' = signals
      BY <1>1 DEF Treasure!vars
  <2>2. Num(heroPc', {"won"}) = Num(heroPc, {"won"}) /\ Num(heroPc', Awake) = Num(heroPc, Awake)
      BY <2>1 DEF Num, Awake
  <2>3. Treasure!TypeOK'
      BY <2>1 DEF HeroInv, Treasure!TypeOK
  <2> QED BY <2>1, <2>2, <2>3 DEF HeroInv, UnderLock, Shared, Heard, SleepsOnCond
<1>2. CASE Treasure!Next
    BY <1>2, LockKeeps, CheckKeeps, TakeKeeps, RestockKeeps, SignalKeeps
       DEF Treasure!Next, Treasure!Try
<1> QED BY <1>1, <1>2

\* Between any number of players that look and take under the mutex, and an
\* operator that restocks, no treasure is given twice and none is lost; and
\* whenever somebody sleeps, there are no more treasures than players awake to
\* take them and signals to come (TreasureNPC's Given and NoneForgotten; the
\* NPC's take and restock in ch4/cmd/exp2 and exp3).
THEOREM TreasuresGiven ==
    ASSUME Treasure!TreasureAssumption
    PROVE  Treasure!Spec => [](Treasure!TypeOK /\ Treasure!Given /\ Treasure!NoneForgotten)
<1>1. ASSUME HeroInv PROVE Treasure!Given
  <2>1. Num(heroPc, {"won"}) = Treasure!Cardinality(Treasure!At({"won"}))
      BY DEF Num, Treasure!At, Treasure!Cardinality, Cardinality
  <2> QED BY <1>1, <2>1 DEF HeroInv, Shared, Treasure!Given
<1>2. ASSUME HeroInv PROVE Treasure!NoneForgotten
  <2>1. Num(heroPc, Awake) = Treasure!Cardinality(Treasure!At({"arrive", "check", "take", "woken"}))
      BY DEF Num, Awake, Treasure!At, Treasure!Cardinality, Cardinality
  <2>2. Treasure!At({"asleep"}) # {} => \E p \in Player : heroPc[p] = "asleep"
      BY DEF Treasure!At
  <2> QED BY <1>2, <2>1, <2>2 DEF HeroInv, Heard, Treasure!NoneForgotten
<1>3. HeroInv => Treasure!TypeOK /\ Treasure!Given /\ Treasure!NoneForgotten
    BY <1>1, <1>2 DEF HeroInv
<1> QED BY HeroInit, HeroStep, <1>3, PTL DEF Treasure!Spec

-----------------------------------------------------------------------------
(*                                                                         *)
(* The three servers of two heroes (Warzone).                              *)
(*                                                                         *)
CONSTANTS Client, Hero(_), Server, Ticks, MaxGone
VARIABLES phase, sessions, client, gone, results, applied, dirty, synced, tick
War == INSTANCE Warzone

\* What was applied is announced or marked, and marks are there between a tick
\* and what it announces only.
Marked == /\ Server = "ticks" => applied = synced \cup dirty
          /\ phase \notin {"drain", "failed"} => dirty = {}
          /\ Server # "ticks" => phase # "drain"

\* The clock runs to its last tick.
Clock == /\ tick <= Ticks /\ phase \in {"accept", "start", "serve"} => tick < Ticks

WarInv == War!TypeOK /\ Marked /\ Clock

LEMMA WarInit ==
    ASSUME War!WarzoneAssumption, War!Init
    PROVE  WarInv
<1>1. Ticks \in Nat \ {0}
    BY DEF War!WarzoneAssumption
<1>2. War!TypeOK
    BY <1>1 DEF War!Init, War!TypeOK, War!Heroes
<1> QED BY <1>1, <1>2 DEF War!Init, WarInv, Marked, Clock

\* A step of the clients, or of the goroutine of a connection, or one that the
\* other two servers take.
Other == /\ UNCHANGED <<dirty, synced, tick>> /\ (Server = "ticks" => applied' = applied)
         /\ \/ phase' = phase
            \/ phase \notin {"drain", "failed"} /\ phase' \in {"done", "failed"}
            \/ phase = "accept" /\ phase' = "start"
            \/ phase = "start" /\ phase' = "serve"

LEMMA OthersKeep ==
    ASSUME War!WarzoneAssumption, WarInv, War!TypeOK', Other
    PROVE  WarInv'
BY DEF WarInv, Marked, Clock, Other

LEMMA ClientsKeep ==
    ASSUME War!WarzoneAssumption, WarInv, NEW c \in Client,
           War!Hello(c) \/ War!Send(c) \/ War!Leave(c) \/ War!Accept(c)
    PROVE  WarInv'
<1>1. War!TypeOK
    BY DEF WarInv
<1>2. Hero(c) \in {"fast", "slow"}
    BY DEF War!WarzoneAssumption
<1>3. /\ UNCHANGED <<results, applied, dirty, synced, tick>>
      /\ client' = client \/ \E l \in {"hello", "joined", "sent"} :
                               client' = [client EXCEPT ![c] = l]
      /\ gone' = gone \/ gone' = gone \cup {c}
      /\ sessions' = sessions \/ sessions' = [sessions EXCEPT ![Hero(c)] = c]
      /\ \/ phase' = phase
         \/ phase = "accept" /\ phase' \in {"accept", "start", "failed"}
    BY DEF War!Hello, War!Send, War!Leave, War!Accept, War!Move, War!world
<1>4. client' \in [Client -> {"off", "hello", "joined", "started", "sent", "read"}]
    BY <1>1, <1>3 DEF War!TypeOK
<1>5. sessions' \in [War!Heroes -> Client \cup {None}] /\ gone' \in SUBSET Client
    BY <1>1, <1>2, <1>3 DEF War!TypeOK, War!Heroes
<1>6. War!TypeOK'
    BY <1>1, <1>3, <1>4, <1>5 DEF War!TypeOK
<1>7. Other
    BY <1>3 DEF Other
<1> QED BY <1>6, <1>7, OthersKeep

LEMMA ReadersKeep ==
    ASSUME War!WarzoneAssumption, WarInv, NEW h \in War!Heroes, War!ReadNext(h) \/ War!Receive(h)
    PROVE  WarInv'
<1>1. War!TypeOK
    BY DEF WarInv
<1>2. CASE War!ReadNext(h)
  <2>1. /\ Server = "serial" /\ phase = "serve" /\ phase' \in {"serve", "done", "failed"}
        /\ applied' = applied \cup {h} \/ applied' = applied
        /\ UNCHANGED <<sessions, client, gone, results, dirty, synced, tick>>
      BY <1>2 DEF War!ReadNext
  <2>2. War!TypeOK'
      BY <1>1, <2>1 DEF War!TypeOK
  <2>3. Other
      BY <2>1 DEF Other
  <2> QED BY <2>2, <2>3, OthersKeep
<1>3. CASE War!Receive(h)
  <2>1. /\ \E ok \in BOOLEAN : results' = results \cup {<<h, ok>>}
        /\ client' = [client EXCEPT ![sessions[h]] = "read"]
        /\ UNCHANGED <<phase, sessions, gone, applied, dirty, synced, tick>>
      BY <1>3 DEF War!Receive, War!Move, War!world
  <2>4. results' \in SUBSET (War!Heroes \X BOOLEAN)
      BY <1>1, <2>1 DEF War!TypeOK
  <2>5. client' \in [Client -> {"off", "hello", "joined", "started", "sent", "read"}]
      BY <1>1, <2>1 DEF War!TypeOK
  <2>2. War!TypeOK'
      BY <1>1, <2>1, <2>4, <2>5 DEF War!TypeOK
  <2>3. Other
      BY <2>1 DEF Other
  <2> QED BY <2>2, <2>3, OthersKeep
<1> QED BY <1>2, <1>3

LEMMA MainKeeps ==
    ASSUME War!WarzoneAssumption, WarInv, War!Main
    PROVE  WarInv'
<1>1. War!TypeOK /\ Ticks \in Nat /\ Marked /\ Clock
    BY DEF WarInv, War!WarzoneAssumption
<1>2. CASE War!Start
  <2>1. /\ phase = "start" /\ phase' \in {"serve", "failed"}
        /\ UNCHANGED <<sessions, gone, results, applied, dirty, synced, tick>>
      BY <1>2 DEF War!Start, War!world
  <2>2. client' \in [Client -> {"off", "hello", "joined", "started", "sent", "read"}]
      BY <1>1, <1>2 DEF War!Start, War!TypeOK
  <2>3. War!TypeOK'
      BY <1>1, <2>1, <2>2 DEF War!TypeOK
  <2>4. Other
      BY <2>1 DEF Other
  <2> QED BY <2>3, <2>4, OthersKeep
<1>3. CASE War!Tick
  <2>1. /\ Server = "ticks" /\ phase = "serve" /\ phase' = "drain" /\ tick' = tick + 1
        /\ UNCHANGED <<sessions, client, gone, results, applied, dirty, synced>>
      BY <1>3 DEF War!Tick
  <2>2. tick' \in 0..Ticks
      BY <1>1, <2>1 DEF War!TypeOK, Clock
  <2>3. War!TypeOK'
      BY <1>1, <2>1, <2>2 DEF War!TypeOK
  <2> QED BY <1>1, <2>1, <2>2, <2>3 DEF WarInv, Marked, Clock
<1>4. CASE War!Sync
  <2>1. /\ phase = "drain" /\ synced' = synced \cup dirty /\ dirty' = {}
        /\ phase' = IF tick = Ticks THEN "done" ELSE "serve"
        /\ UNCHANGED <<sessions, client, gone, results, applied, tick>>
      BY <1>4 DEF War!Sync
  <2>2. War!TypeOK'
      BY <1>1, <2>1 DEF War!TypeOK
  <2> QED BY <1>1, <2>1, <2>2 DEF WarInv, Marked, Clock, War!TypeOK
<1>5. ASSUME NEW h \in War!Heroes, NEW ok \in BOOLEAN, War!TakeResult(<<h, ok>>)
      PROVE  WarInv'
  <2>1. /\ Server = "spawn" /\ phase = "serve" /\ phase' \in {"failed", "done", "serve"}
        /\ results' \in SUBSET results
        /\ applied' = applied \cup {h} \/ applied' = applied
        /\ UNCHANGED <<sessions, client, gone, dirty, synced, tick>>
      BY <1>5 DEF War!TakeResult, War!Apply
  <2>2. War!TypeOK'
      BY <1>1, <1>5, <2>1 DEF War!TypeOK
  <2>3. Other
      BY <2>1 DEF Other
  <2> QED BY <2>2, <2>3, OthersKeep
<1>6. ASSUME NEW h \in War!Heroes, NEW ok \in BOOLEAN, War!Drain(<<h, ok>>)
      PROVE  WarInv'
  <2>1. /\ phase = "drain" /\ results' \in SUBSET results
        /\ applied' = (IF ok THEN applied \cup {h} ELSE applied)
        /\ dirty' = (IF ok THEN dirty \cup {h} ELSE dirty)
        /\ phase' = IF ok THEN "drain" ELSE "failed"
        /\ UNCHANGED <<sessions, client, gone, synced, tick>>
      BY <1>6 DEF War!Drain, War!Apply
  <2>2. War!TypeOK'
      BY <1>1, <1>6, <2>1 DEF War!TypeOK
  <2> QED BY <1>1, <2>1, <2>2 DEF WarInv, Marked, Clock
<1> QED BY <1>2, <1>3, <1>4, <1>5, <1>6 DEF War!Main, War!Result

LEMMA WarStep ==
    ASSUME War!WarzoneAssumption, WarInv, [War!Next]_(War!vars)
    PROVE  WarInv'
<1>1. CASE UNCHANGED War!vars
    BY <1>1 DEF War!vars, WarInv, War!TypeOK, Marked, Clock
<1>2. CASE War!Next
    BY <1>2, MainKeeps, ClientsKeep, ReadersKeep DEF War!Next
<1> QED BY <1>1, <1>2

\* Whatever the two heroes send, when, and whoever leaves: between two ticks
\* the world that the third server announced is the world it holds (Warzone's
\* Told; applyActions and broadcastDirty of ch4/cmd/exp1's 06_server).
THEOREM WorldIsTold ==
    ASSUME War!WarzoneAssumption
    PROVE  War!Spec => [](War!TypeOK /\ War!Told)
<1>1. WarInv => War!TypeOK /\ War!Told
    BY DEF WarInv, Marked, War!Told
<1> QED BY WarInit, WarStep, <1>1, PTL DEF War!Spec

-----------------------------------------------------------------------------
(*                                                                         *)
(* The switch between a keyboard and a receiver (BlackholeSwitch).         *)
(*                                                                         *)
CONSTANT MaxKeys
VARIABLES ch, mode, key, dead, recv, keys
Switch == INSTANCE BlackholeSwitch

\* The channel of one place; it is empty between taking the old word out and
\* putting the new one in.
Channel == /\ ch \in {<<>>, <<TRUE>>, <<FALSE>>}
           /\ key = "putAgain" => ch = <<>>

\* The last word is the mode: that on the channel, else what was read from it.
Last == key = "key" => CASE ch = <<TRUE>> -> mode = TRUE
                         [] ch = <<FALSE>> -> mode = FALSE
                         [] ch = <<>> -> mode = dead

Hands == /\ mode \in BOOLEAN /\ dead \in BOOLEAN
         /\ key \in {"key", "put", "drain", "putAgain"} /\ recv \in {"top", "read", "wait"}
         /\ keys \in 0..MaxKeys

SwitchInv == Channel /\ Last /\ Hands

LEMMA Words ==
    /\ <<TRUE>> # <<>> /\ <<FALSE>> # <<>> /\ <<TRUE>> # <<FALSE>>
    /\ Head(<<TRUE>>) = TRUE /\ Head(<<FALSE>>) = FALSE
    /\ <<TRUE>>[1] = TRUE /\ <<FALSE>>[1] = FALSE
<1>1. Len(<<TRUE>>) = 1 /\ Len(<<FALSE>>) = 1 /\ Len(<<>>) = 0
    OBVIOUS
<1>2. <<TRUE>>[1] = TRUE /\ <<FALSE>>[1] = FALSE
    OBVIOUS
<1>3. Head(<<TRUE>>) = TRUE /\ Head(<<FALSE>>) = FALSE
  <2>1. \A x : Head(<<x>>) = x
      OBVIOUS
  <2> QED BY <2>1, Zenon
<1>4. <<TRUE>> # <<FALSE>>
    BY <1>2
<1> QED BY <1>1, <1>2, <1>3, <1>4

LEMMA SwitchInit ==
    ASSUME MaxKeys \in Nat, Switch!Init
    PROVE  SwitchInv
<1>1. Channel
    BY DEF Switch!Init, Channel
<1>2. ch = <<FALSE>> /\ mode = FALSE
    BY DEF Switch!Init
<1>3. Last
    BY <1>2, Words DEF Last
<1>4. Hands
  <2>1. keys \in 0..MaxKeys /\ key = "key" /\ recv = "top" /\ dead = FALSE
      BY DEF Switch!Init
  <2>2. mode \in BOOLEAN /\ dead \in BOOLEAN
      BY <1>2, <2>1, Zenon
  <2> QED BY <2>1, <2>2 DEF Hands
<1> QED BY <1>1, <1>3, <1>4 DEF SwitchInv

LEMMA SwitchStep ==
    ASSUME MaxKeys \in Nat, SwitchInv, [Switch!Next]_(Switch!vars)
    PROVE  SwitchInv'
<1> USE DEF SwitchInv
<1>1. CASE UNCHANGED Switch!vars
    BY <1>1 DEF Switch!vars, Channel, Last, Hands
<1>2. CASE Switch!PressT
  <2>1. key' = "put" /\ mode' = ~mode /\ keys' = keys + 1 /\ keys < MaxKeys
        /\ ch' = ch /\ dead' = dead /\ recv' = recv
      BY <1>2 DEF Switch!PressT
  <2>2. mode' \in BOOLEAN
      BY <2>1, Zenon
  <2>3. keys' \in 0..MaxKeys
      BY <2>1 DEF Hands
  <2> QED BY <2>1, <2>2, <2>3 DEF Channel, Last, Hands
<1>3. CASE Switch!Put \/ Switch!PutAgain
  <2>1. /\ mode' = mode /\ dead' = dead /\ recv' = recv /\ keys' = keys
        /\ \/ ch' = <<mode>> /\ key' = "key"
           \/ ch' = ch /\ key' = "drain"
      BY <1>3 DEF Switch!Put, Switch!PutAgain
  <2>2. mode \in {TRUE, FALSE} /\ <<mode>> \in {<<TRUE>>, <<FALSE>>}
      BY DEF Hands
  <2>3. CASE ch' = <<mode>> /\ key' = "key"
    <3>1. CASE mode = TRUE
        BY <2>1, <2>3, <3>1, Words DEF Channel, Last, Hands
    <3>2. CASE mode = FALSE
        BY <2>1, <2>3, <3>2, Words DEF Channel, Last, Hands
    <3> QED BY <2>2, <3>1, <3>2
  <2>4. CASE ch' = ch /\ key' = "drain"
      BY <2>1, <2>4 DEF Channel, Last, Hands
  <2> QED BY <2>1, <2>3, <2>4
<1>4. CASE Switch!Drain
    BY <1>4 DEF Switch!Drain, Channel, Last, Hands
<1>5. CASE (Switch!Top \/ Switch!Wait) /\ ch # <<>> /\ ch' = <<>>
  <2>1. /\ dead' = Head(ch) /\ recv' \in {"read", "top"}
        /\ mode' = mode /\ key' = key /\ keys' = keys
      BY <1>5 DEF Switch!Top, Switch!Wait
  <2>2. CASE ch = <<TRUE>>
      BY <1>5, <2>1, <2>2, Words DEF Channel, Last, Hands
  <2>3. CASE ch = <<FALSE>>
      BY <1>5, <2>1, <2>3, Words DEF Channel, Last, Hands
  <2> QED BY <1>5, <2>2, <2>3 DEF Channel
<1>6. CASE Switch!Top /\ ch' = ch /\ dead' = dead
    BY <1>6 DEF Switch!Top, Channel, Last, Hands
<1>7. CASE Switch!Frame
    BY <1>7 DEF Switch!Frame, Channel, Last, Hands
<1> QED
  <2>1. Switch!Top => (ch # <<>> /\ ch' = <<>>) \/ (ch' = ch /\ dead' = dead)
      BY DEF Switch!Top
  <2>2. Switch!Wait => ch # <<>> /\ ch' = <<>>
      BY DEF Switch!Wait
  <2> QED BY <1>1, <1>2, <1>3, <1>4, <1>5, <1>6, <1>7, <2>1, <2>2 DEF Switch!Next

\* However often the key is pressed, and wherever the receiver is in between:
\* with the key loop at the keyboard again, the last word on the channel, or
\* the receiver's own mode, is the mode shown: no toggle is lost or late
\* (BlackholeSwitch's LastWord; the two loops of ch3's zombie_client).
THEOREM LastWordStands ==
    ASSUME MaxKeys \in Nat
    PROVE  Switch!Spec => [](Switch!TypeOK /\ Switch!LastWord)
<1>1. ASSUME SwitchInv PROVE Switch!TypeOK
  <2>1. ch \in Seq(BOOLEAN) /\ Len(ch) <= 1
    <3>1. CASE ch = <<>>
        BY <3>1
    <3>2. CASE ch = <<TRUE>>
        BY <3>2
    <3>3. CASE ch = <<FALSE>>
        BY <3>3
    <3> QED BY <1>1, <3>1, <3>2, <3>3 DEF SwitchInv, Channel
  <2> QED BY <1>1, <2>1 DEF SwitchInv, Hands, Switch!TypeOK
<1>2. ASSUME SwitchInv PROVE Switch!LastWord
  <2>1. CASE ch = <<TRUE>>
      BY <1>2, <2>1, Words DEF SwitchInv, Last, Switch!LastWord
  <2>2. CASE ch = <<FALSE>>
      BY <1>2, <2>2, Words DEF SwitchInv, Last, Switch!LastWord
  <2>3. CASE ch = <<>>
      BY <1>2, <2>3, Words DEF SwitchInv, Last, Switch!LastWord
  <2> QED BY <1>2, <2>1, <2>2, <2>3 DEF SwitchInv, Channel
<1>3. SwitchInv => Switch!TypeOK /\ Switch!LastWord
    BY <1>1, <1>2
<1> QED BY SwitchInit, SwitchStep, <1>3, PTL DEF Switch!Spec

-----------------------------------------------------------------------------
(*                                                                         *)
(* Messages on a stream of bytes (FramedStream).                           *)
(*                                                                         *)
CONSTANTS Writer, MaxSends, Room
VARIABLES stream, writeMu, writing, count, reading, sent, got, garbled, cuts
Wire == INSTANCE FramedStream WITH MaxCuts <- 0

\* The parts are numbered as they are written: message k is part 2k-1, its
\* length, and part 2k, its body.
Taken    == IF reading = None THEN 2 * Len(got) ELSE 2 * Len(got) + 1
Half     == IF \E w \in Writer : writing[w] = "body" THEN 1 ELSE 0
Nth(k)   == IF k <= Len(sent) THEN sent[k] ELSE [by |-> writeMu, nr |-> count[writeMu]]
Summed   == Taken + Len(stream) = 2 * Len(sent) + Half
InTurn   == \A i \in 1..Len(stream), k \in Nat :
              /\ Taken + i = 2 * k - 1 => stream[i] = [of |-> Nth(k), is |-> "length"]
              /\ Taken + i = 2 * k     => stream[i] = [of |-> Nth(k), is |-> "body"]
Expected == reading # None => reading = Nth(Len(got) + 1)
Mutex    == \A w \in Writer : /\ writing[w] # "none" <=> writeMu = w
                              /\ writing[w] # "none" => count[w] \in 1..MaxSends

\* The messages returned are the first of those sent, in their order.
InOrder == Len(got) <= Len(sent) /\ \A i \in 1..Len(got) : got[i] = sent[i]

StreamInv == /\ Wire!TypeOK /\ ~garbled /\ Mutex
             /\ Summed /\ InTurn /\ Expected /\ InOrder

LEMMA OneBody ==
    ASSUME Wire!StreamAssumption, StreamInv
    PROVE  /\ Half \in {0, 1}
           /\ \A w \in Writer : writing[w] = "body" => Half = 1 /\ writeMu = w
           /\ \A w \in Writer : writeMu = w /\ writing[w] # "body" => Half = 0
           /\ writeMu = None => Half = 0
<1>1. \A v, w \in Writer : writing[v] # "none" /\ writing[w] # "none" => v = w
    BY DEF StreamInv, Mutex
<1> QED BY <1>1 DEF Half, StreamInv, Mutex, Wire!StreamAssumption

LEMMA Lengths ==
    ASSUME StreamInv
    PROVE  /\ Len(stream) \in Nat /\ Len(sent) \in Nat /\ Len(got) \in Nat
           /\ Taken \in Nat /\ stream \in Seq(Wire!Part) /\ sent \in Seq(Wire!Message)
           /\ got \in Seq(Wire!Message)
<1>1. /\ stream \in Seq(Wire!Part) /\ sent \in Seq(Wire!Message) /\ got \in Seq(Wire!Message)
    BY DEF StreamInv, Wire!TypeOK
<1>2. Len(stream) \in Nat /\ Len(sent) \in Nat /\ Len(got) \in Nat
    BY <1>1
<1> QED BY <1>1, <1>2 DEF Taken

LEMMA StreamInit ==
    ASSUME Wire!StreamAssumption, Wire!Init
    PROVE  StreamInv
<1>1. Len(<<>>) = 0 /\ <<>> \in Seq(Wire!Part) /\ <<>> \in Seq(Wire!Message)
    OBVIOUS
<1>2. Wire!TypeOK
  <2>1. stream \in Seq(Wire!Part) /\ sent \in Seq(Wire!Message) /\ got \in Seq(Wire!Message)
        /\ Len(stream) = 0
      BY <1>1 DEF Wire!Init
  <2>2. Room \in Nat /\ 0 <= Room /\ MaxSends \in Nat /\ 0 \in 0..MaxSends /\ 0 \in 0..0
      BY DEF Wire!StreamAssumption
  <2>3. /\ count \in [Writer -> 0..MaxSends] /\ cuts \in 0..0 /\ garbled \in BOOLEAN
        /\ writeMu = None /\ reading = None /\ writing \in [Writer -> {"none", "length", "body"}]
      BY <2>2 DEF Wire!Init
  <2> QED BY <2>1, <2>2, <2>3 DEF Wire!TypeOK
<1>3. Half = 0 /\ Taken = 0
    BY <1>1 DEF Half, Taken, Wire!Init
<1>4. Mutex
    BY DEF Mutex, Wire!Init, Wire!StreamAssumption
<1>5. Summed /\ InTurn /\ Expected /\ InOrder
    BY <1>1, <1>3 DEF Summed, InTurn, Expected, InOrder, Wire!Init
<1> QED BY <1>2, <1>4, <1>5 DEF StreamInv, Wire!Init

\* The mutex is taken or given back between two messages: the parts stay what
\* they are.
LEMMA HandsKeep ==
    ASSUME Wire!StreamAssumption, StreamInv,
           UNCHANGED <<stream, reading, sent, got, garbled, cuts>>,
           Half = 0, Half' = 0, Mutex',
           writeMu' \in Writer \cup {None}, count' \in [Writer -> 0..MaxSends],
           writing' \in [Writer -> {"none", "length", "body"}]
    PROVE  StreamInv'
<1>1. Wire!TypeOK'
    BY DEF StreamInv, Wire!TypeOK, Wire!Part, Wire!Message
<1>2. Taken' = Taken /\ Summed'
    BY DEF StreamInv, Summed, Taken
<1>3. Taken + Len(stream) = 2 * Len(sent) /\ Len(stream) \in Nat /\ Len(sent) \in Nat
      /\ Len(got) \in Nat /\ Taken \in Nat
    BY Lengths DEF StreamInv, Summed
<1>4. \A k \in Nat : k <= Len(sent) => Nth(k)' = Nth(k)
    BY DEF Nth
<1>5. InTurn'
  <2> SUFFICES ASSUME NEW i \in 1..Len(stream), NEW k \in Nat,
                      Taken + i = 2 * k - 1 \/ Taken + i = 2 * k
               PROVE  /\ Nth(k)' = Nth(k)
      BY <1>2 DEF InTurn, StreamInv
  <2>1. k <= Len(sent)
      BY <1>3
  <2> QED BY <1>4, <2>1
<1>6. Expected'
  <2>1. reading # None => Len(got) + 1 <= Len(sent) /\ Len(got) + 1 \in Nat
      BY <1>3 DEF Taken
  <2> QED BY <1>4, <2>1 DEF Expected, StreamInv
<1> QED BY <1>1, <1>2, <1>5, <1>6 DEF StreamInv, InOrder

LEMMA SendLockKeeps ==
    ASSUME Wire!StreamAssumption, StreamInv, NEW w \in Writer, Wire!Lock(w)
    PROVE  StreamInv'
<1>1. writeMu = None /\ Half = 0 /\ \A v \in Writer : writing[v] = "none"
    BY OneBody DEF Wire!Lock, StreamInv, Mutex, Wire!StreamAssumption
<1>2. /\ writeMu' = w /\ count' = [count EXCEPT ![w] = count[w] + 1]
      /\ writing' = [writing EXCEPT ![w] = "length"] /\ count[w] < MaxSends
      /\ UNCHANGED <<stream, reading, sent, got, garbled, cuts>>
    BY DEF Wire!Lock
<1>3. count[w] + 1 \in 1..MaxSends /\ count[w] + 1 \in 0..MaxSends
  <2>1. count[w] \in 0..MaxSends /\ MaxSends \in Nat
      BY DEF StreamInv, Wire!TypeOK, Wire!StreamAssumption
  <2> QED BY <1>2, <2>1
<1>4. count' \in [Writer -> 0..MaxSends] /\ writing' \in [Writer -> {"none", "length", "body"}]
      /\ count'[w] = count[w] + 1 /\ writing'[w] = "length"
      /\ \A v \in Writer \ {w} : writing'[v] = "none"
    BY <1>1, <1>2, <1>3 DEF StreamInv, Wire!TypeOK
<1>5. Mutex' /\ Half' = 0
    BY <1>2, <1>3, <1>4 DEF Mutex, Half
<1> QED BY <1>1, <1>2, <1>4, <1>5, HandsKeep

\* A send that is given up has written nothing: only between two parts of a
\* message would it cost one.
LEMMA DeadlineKeeps ==
    ASSUME Wire!StreamAssumption, StreamInv, NEW w \in Writer, Wire!SendDeadline(w)
    PROVE  StreamInv'
<1>1. writing[w] = "length" /\ cuts' = cuts
    BY DEF Wire!SendDeadline, StreamInv, Wire!TypeOK
<1>2. writeMu = w /\ Half = 0 /\ \A v \in Writer \ {w} : writing[v] = "none"
    BY <1>1, OneBody DEF StreamInv, Mutex, Wire!TypeOK
<1>3. /\ writeMu' = None /\ writing' = [writing EXCEPT ![w] = "none"]
      /\ UNCHANGED <<stream, count, reading, sent, got, garbled, cuts>>
    BY <1>1 DEF Wire!SendDeadline
<1>4. /\ writing' \in [Writer -> {"none", "length", "body"}] /\ count' \in [Writer -> 0..MaxSends]
      /\ \A v \in Writer : writing'[v] = "none"
    BY <1>2, <1>3 DEF StreamInv, Wire!TypeOK
<1>5. Mutex' /\ Half' = 0
    BY <1>3, <1>4 DEF Mutex, Half, Wire!StreamAssumption
<1> QED BY <1>2, <1>3, <1>4, <1>5, HandsKeep

\* What a send appends.
LEMMA Longer ==
    ASSUME NEW S, NEW s \in Seq(S), NEW x \in S
    PROVE  /\ Append(s, x) \in Seq(S) /\ Len(Append(s, x)) = Len(s) + 1 /\ Len(s) \in Nat
           /\ Append(s, x)[Len(s) + 1] = x
           /\ \A i \in 1..Len(s) : Append(s, x)[i] = s[i]
OBVIOUS

LEMMA Shorter ==
    ASSUME NEW S, NEW s \in Seq(S), s # <<>>
    PROVE  /\ Tail(s) \in Seq(S) /\ Len(Tail(s)) = Len(s) - 1 /\ Len(s) \in Nat \ {0}
           /\ Head(s) = s[1] /\ s[1] \in S
           /\ \A i \in 1..Len(s) - 1 : Tail(s)[i] = s[i + 1]
OBVIOUS

LEMMA WriteLengthKeeps ==
    ASSUME Wire!StreamAssumption, StreamInv, NEW w \in Writer, Wire!Write(w),
           writing[w] = "length"
    PROVE  StreamInv'
<1> DEFINE m == [by |-> w, nr |-> count[w]]
           part == [of |-> m, is |-> "length"]
<1>1. /\ writeMu = w /\ Half = 0 /\ count[w] \in 1..MaxSends
      /\ \A v \in Writer \ {w} : writing[v] = "none"
    BY OneBody DEF StreamInv, Mutex
<1>2. m \in Wire!Message /\ part \in Wire!Part
    BY <1>1 DEF Wire!Message, Wire!Part
<1>3. /\ stream' = Append(stream, part) /\ writing' = [writing EXCEPT ![w] = "body"]
      /\ Len(stream) < Room
      /\ UNCHANGED <<writeMu, sent, count, reading, got, garbled, cuts>>
    BY DEF Wire!Write, Wire!Latest
<1>4. Nth(Len(sent) + 1) = m
    BY <1>1, Lengths DEF Nth
<1> HIDE DEF m, part
<1>5. /\ stream' \in Seq(Wire!Part) /\ Len(stream') = Len(stream) + 1
      /\ stream'[Len(stream) + 1] = part /\ \A i \in 1..Len(stream) : stream'[i] = stream[i]
    BY <1>2, <1>3, Longer, Lengths
<1>6. /\ writing' \in [Writer -> {"none", "length", "body"}] /\ writing'[w] = "body"
      /\ \A v \in Writer \ {w} : writing'[v] = writing[v]
    BY <1>3 DEF StreamInv, Wire!TypeOK
<1>7. Half' = 1 /\ Mutex'
    BY <1>1, <1>3, <1>6 DEF Half, Mutex, StreamInv
<1>8. /\ Taken' = Taken /\ Taken \in Nat /\ Len(stream) \in Nat /\ Len(sent) \in Nat
      /\ Taken + Len(stream) = 2 * Len(sent)
    BY <1>1, <1>3, Lengths DEF Taken, StreamInv, Summed
<1>9. Summed'
  <2>1. Taken + (Len(stream) + 1) = 2 * Len(sent) + 1
      BY <1>8
  <2> QED BY <1>3, <1>5, <1>7, <1>8, <2>1 DEF Summed
<1>10. \A k : Nth(k)' = Nth(k)
    BY <1>3 DEF Nth
<1>11. InTurn'
  <2> SUFFICES ASSUME NEW i \in 1..Len(stream'), NEW k \in Nat
               PROVE  /\ Taken + i = 2 * k - 1 => stream'[i] = [of |-> Nth(k), is |-> "length"]
                      /\ Taken + i = 2 * k     => stream'[i] = [of |-> Nth(k), is |-> "body"]
      BY <1>8, <1>10 DEF InTurn
  <2>1. CASE i \in 1..Len(stream)
      BY <1>5, <2>1 DEF InTurn, StreamInv
  <2>2. CASE i = Len(stream) + 1
    <3>1. Taken + i = 2 * Len(sent) + 1
        BY <1>8, <2>2
    <3>2. Taken + i = 2 * k - 1 => k = Len(sent) + 1
        BY <1>8, <3>1
    <3>3. Taken + i # 2 * k
        BY <1>8, <3>1
    <3> QED BY <1>4, <1>5, <2>2, <3>2, <3>3 DEF part
  <2> QED BY <1>5, <1>8, <2>1, <2>2
<1>12. Wire!TypeOK'
  <2>1. Len(stream') <= Room
      BY <1>3, <1>5, <1>8 DEF Wire!StreamAssumption
  <2> QED BY <1>3, <1>5, <1>6, <2>1 DEF StreamInv, Wire!TypeOK
<1>13. Expected' /\ InOrder'
    BY <1>3, <1>10 DEF StreamInv, Expected, InOrder
<1> QED BY <1>3, <1>7, <1>9, <1>11, <1>12, <1>13 DEF StreamInv

LEMMA WriteBodyKeeps ==
    ASSUME Wire!StreamAssumption, StreamInv, NEW w \in Writer, Wire!Write(w),
           writing[w] = "body"
    PROVE  StreamInv'
<1> DEFINE m == [by |-> w, nr |-> count[w]]
           part == [of |-> m, is |-> "body"]
<1>1. /\ writeMu = w /\ Half = 1 /\ count[w] \in 1..MaxSends
      /\ \A v \in Writer \ {w} : writing[v] = "none"
    BY OneBody DEF StreamInv, Mutex
<1>2. m \in Wire!Message /\ part \in Wire!Part
    BY <1>1 DEF Wire!Message, Wire!Part
<1>3. /\ stream' = Append(stream, part) /\ writing' = [writing EXCEPT ![w] = "none"]
      /\ Len(stream) < Room /\ writeMu' = None /\ sent' = Append(sent, m)
      /\ UNCHANGED <<count, reading, got, garbled, cuts>>
    BY DEF Wire!Write, Wire!Latest
<1>4. /\ Len(stream) \in Nat /\ Len(sent) \in Nat /\ Len(got) \in Nat /\ Taken \in Nat
      /\ Taken + Len(stream) = 2 * Len(sent) + 1
    BY <1>1, Lengths DEF StreamInv, Summed
<1>5. Nth(Len(sent) + 1) = m
    BY <1>1, <1>4 DEF Nth
<1> HIDE DEF m, part
<1>6. /\ stream' \in Seq(Wire!Part) /\ Len(stream') = Len(stream) + 1
      /\ stream'[Len(stream) + 1] = part /\ \A i \in 1..Len(stream) : stream'[i] = stream[i]
    BY <1>2, <1>3, Longer, Lengths
<1>7. /\ sent' \in Seq(Wire!Message) /\ Len(sent') = Len(sent) + 1
      /\ sent'[Len(sent) + 1] = m /\ \A i \in 1..Len(sent) : sent'[i] = sent[i]
    BY <1>2, <1>3, Longer, Lengths
<1>8. /\ writing' \in [Writer -> {"none", "length", "body"}]
      /\ \A v \in Writer : writing'[v] = "none"
    BY <1>1, <1>3 DEF StreamInv, Wire!TypeOK
<1>9. Half' = 0 /\ Mutex'
    BY <1>3, <1>8 DEF Half, Mutex, Wire!StreamAssumption
<1>10. Taken' = Taken /\ Summed'
  <2>1. Taken' = Taken
      BY <1>3 DEF Taken
  <2>2. Taken + (Len(stream) + 1) = 2 * (Len(sent) + 1) + 0
      BY <1>4
  <2> QED BY <1>6, <1>7, <1>9, <2>1, <2>2 DEF Summed
<1>11. ASSUME NEW k \in 1..Len(sent) + 1 PROVE Nth(k)' = Nth(k)
  <2>1. CASE k \in 1..Len(sent)
      BY <1>4, <1>7, <2>1 DEF Nth
  <2>2. CASE k = Len(sent) + 1
      BY <1>4, <1>5, <1>7, <2>2 DEF Nth
  <2> QED BY <1>4, <2>1, <2>2
<1>12. InTurn'
  <2> SUFFICES ASSUME NEW i \in 1..Len(stream'), NEW k \in Nat,
                      Taken + i = 2 * k - 1 \/ Taken + i = 2 * k
               PROVE  /\ Taken + i = 2 * k - 1 => stream'[i] = [of |-> Nth(k), is |-> "length"]
                      /\ Taken + i = 2 * k     => stream'[i] = [of |-> Nth(k), is |-> "body"]
                      /\ Nth(k)' = Nth(k)
      BY <1>10 DEF InTurn
  <2>1. k \in 1..Len(sent) + 1
      BY <1>4, <1>6
  <2>2. CASE i \in 1..Len(stream)
      BY <1>6, <1>11, <2>1, <2>2 DEF InTurn, StreamInv
  <2>3. CASE i = Len(stream) + 1
    <3>1. Taken + i = 2 * Len(sent) + 2
        BY <1>4, <2>3
    <3>2. Taken + i = 2 * k => k = Len(sent) + 1
        BY <1>4, <3>1
    <3>3. Taken + i # 2 * k - 1
        BY <1>4, <3>1
    <3> QED BY <1>5, <1>6, <1>11, <2>1, <2>3, <3>2, <3>3 DEF part
  <2> QED BY <1>4, <1>6, <2>2, <2>3
<1>13. Wire!TypeOK'
  <2>1. Len(stream') <= Room
      BY <1>3, <1>4, <1>6 DEF Wire!StreamAssumption
  <2> QED BY <1>3, <1>6, <1>7, <1>8, <2>1 DEF StreamInv, Wire!TypeOK
<1>14. Expected'
  <2>1. reading # None => Len(got) + 1 \in 1..Len(sent) + 1
      BY <1>4 DEF Taken
  <2> QED BY <1>3, <1>11, <2>1 DEF StreamInv, Expected
<1>15. InOrder'
    BY <1>3, <1>4, <1>7 DEF StreamInv, InOrder
<1> QED BY <1>3, <1>9, <1>10, <1>12, <1>13, <1>14, <1>15 DEF StreamInv

\* What the receiver takes next is the part it expects.
LEMMA NextPart ==
    ASSUME StreamInv, stream # <<>>
    PROVE  /\ Head(stream).of \in Wire!Message
           /\ reading = None => Head(stream) = [of |-> Nth(Len(got) + 1), is |-> "length"]
           /\ reading # None => /\ Head(stream) = [of |-> Nth(Len(got) + 1), is |-> "body"]
                                /\ Len(got) + 1 <= Len(sent)
<1>1. /\ Head(stream) = stream[1] /\ stream[1] \in Wire!Part /\ Len(stream) \in Nat \ {0}
      /\ Len(got) \in Nat /\ Len(sent) \in Nat
    BY Shorter, Lengths
<1>2. 1 \in 1..Len(stream) /\ Len(got) + 1 \in Nat
    BY <1>1
<1>3. CASE reading = None
  <2>1. Taken + 1 = 2 * (Len(got) + 1) - 1
      BY <1>1, <1>3 DEF Taken
  <2> QED BY <1>1, <1>2, <1>3, <2>1 DEF StreamInv, InTurn, Wire!Part
<1>4. CASE reading # None
  <2>1. Taken + 1 = 2 * (Len(got) + 1)
      BY <1>1, <1>4 DEF Taken
  <2>2. Head(stream) = [of |-> Nth(Len(got) + 1), is |-> "body"]
      BY <1>1, <1>2, <2>1 DEF StreamInv, InTurn
  <2>3. Len(got) + 1 <= Len(sent)
    <3>1. Taken + Len(stream) = 2 * Len(sent) + Half /\ Half \in {0, 1} /\ Taken \in Nat
        BY Lengths DEF StreamInv, Summed, Half
    <3>2. Taken + Len(stream) >= 2 * (Len(got) + 1) /\ Taken + Len(stream) <= 2 * Len(sent) + 1
        BY <1>1, <2>1, <3>1
    <3> QED BY <1>1, <3>1, <3>2
  <2> QED BY <1>1, <1>4, <2>2, <2>3 DEF Wire!Part
<1> QED BY <1>3, <1>4

\* A part is taken from the stream, the others keep their numbers.
LEMMA PartTaken ==
    ASSUME StreamInv, stream # <<>>, stream' = Tail(stream), Taken' = Taken + 1,
           UNCHANGED <<writeMu, writing, count, sent>>
    PROVE  /\ Summed' /\ InTurn' /\ Mutex' /\ (\A k : Nth(k)' = Nth(k))
           /\ stream' \in Seq(Wire!Part) /\ Len(stream') <= Len(stream)
<1>1. /\ Len(stream') = Len(stream) - 1 /\ Len(stream) \in Nat \ {0} /\ Taken \in Nat
      /\ stream' \in Seq(Wire!Part) /\ \A i \in 1..Len(stream) - 1 : stream'[i] = stream[i + 1]
      /\ Len(sent) \in Nat
    BY Shorter, Lengths
<1>2. Half' = Half /\ Mutex' /\ \A k : Nth(k)' = Nth(k)
    BY DEF Half, Mutex, StreamInv, Nth
<1>3. Summed'
  <2>1. Taken + Len(stream) = 2 * Len(sent) + Half /\ Half \in {0, 1}
      BY DEF StreamInv, Summed, Half
  <2>2. (Taken + 1) + (Len(stream) - 1) = 2 * Len(sent) + Half
      BY <1>1, <2>1
  <2> QED BY <1>1, <1>2, <2>2 DEF Summed
<1>4. InTurn'
  <2> SUFFICES ASSUME NEW i \in 1..Len(stream'), NEW k \in Nat
               PROVE  /\ (Taken + 1) + i = 2 * k - 1 =>
                           stream'[i] = [of |-> Nth(k), is |-> "length"]
                      /\ (Taken + 1) + i = 2 * k =>
                           stream'[i] = [of |-> Nth(k), is |-> "body"]
      BY <1>2 DEF InTurn
  <2>1. i + 1 \in 1..Len(stream) /\ stream'[i] = stream[i + 1] /\ (Taken + 1) + i = Taken + (i + 1)
      BY <1>1
  <2> QED BY <2>1 DEF StreamInv, InTurn
<1> QED BY <1>1, <1>2, <1>3, <1>4

LEMMA ReadLengthKeeps ==
    ASSUME Wire!StreamAssumption, StreamInv, Wire!ReadLength
    PROVE  StreamInv'
<1>1. /\ reading = None /\ stream # <<>> /\ stream' = Tail(stream)
      /\ UNCHANGED <<writeMu, writing, count, sent, got, cuts>>
    BY DEF Wire!ReadLength
<1>2. /\ Head(stream).is = "length" /\ Head(stream).of = Nth(Len(got) + 1)
      /\ Head(stream).of \in Wire!Message
    BY <1>1, NextPart
<1>3. reading' = Nth(Len(got) + 1) /\ garbled' = garbled /\ reading' \in Wire!Message
    BY <1>2 DEF Wire!ReadLength
<1>4. reading' # None
    BY <1>3 DEF Wire!StreamAssumption, Wire!Message
<1>5. Taken' = Taken + 1
    BY <1>1, <1>4 DEF Taken
<1>6. /\ Summed' /\ InTurn' /\ Mutex' /\ (\A k : Nth(k)' = Nth(k))
      /\ stream' \in Seq(Wire!Part) /\ Len(stream') <= Len(stream)
    BY <1>1, <1>5, PartTaken
<1>7. Wire!TypeOK'
  <2>1. Len(stream') <= Room
    <3>1. /\ Len(stream) <= Room /\ Len(stream') \in Nat /\ Len(stream) \in Nat /\ Room \in Nat
        BY <1>6, Lengths DEF StreamInv, Wire!TypeOK, Wire!StreamAssumption
    <3> QED BY <1>6, <3>1
  <2> QED BY <1>1, <1>3, <1>6, <2>1 DEF StreamInv, Wire!TypeOK
<1>8. Expected' /\ InOrder'
    BY <1>1, <1>3, <1>6 DEF StreamInv, Expected, InOrder
<1> QED BY <1>3, <1>6, <1>7, <1>8 DEF StreamInv

LEMMA ReadBodyKeeps ==
    ASSUME Wire!StreamAssumption, StreamInv, Wire!ReadBody
    PROVE  StreamInv'
<1>1. /\ reading # None /\ stream # <<>> /\ stream' = Tail(stream) /\ reading' = None
      /\ UNCHANGED <<writeMu, writing, count, sent, cuts>>
    BY DEF Wire!ReadBody
<1>2. /\ Head(stream) = [of |-> reading, is |-> "body"] /\ reading = Nth(Len(got) + 1)
      /\ Len(got) + 1 <= Len(sent)
    BY <1>1, NextPart DEF StreamInv, Expected
<1>3. got' = Append(got, reading) /\ garbled' = garbled
    BY <1>2 DEF Wire!ReadBody
<1>4. reading \in Wire!Message
    BY <1>1 DEF StreamInv, Wire!TypeOK
<1>5. /\ got' \in Seq(Wire!Message) /\ Len(got') = Len(got) + 1 /\ Len(got) \in Nat
      /\ got'[Len(got) + 1] = reading /\ \A i \in 1..Len(got) : got'[i] = got[i]
    BY <1>3, <1>4, Longer, Lengths
<1>6. Taken' = Taken + 1
    BY <1>1, <1>5 DEF Taken
<1>7. /\ Summed' /\ InTurn' /\ Mutex'
      /\ stream' \in Seq(Wire!Part) /\ Len(stream') <= Len(stream)
    BY <1>1, <1>6, PartTaken
<1>8. Wire!TypeOK'
  <2>1. Len(stream') <= Room
    <3>1. /\ Len(stream) <= Room /\ Len(stream') \in Nat /\ Len(stream) \in Nat /\ Room \in Nat
        BY <1>7, Lengths DEF StreamInv, Wire!TypeOK, Wire!StreamAssumption
    <3> QED BY <1>7, <3>1
  <2> QED BY <1>1, <1>3, <1>5, <1>7, <2>1 DEF StreamInv, Wire!TypeOK
<1>9. Expected' /\ InOrder'
  <2>1. reading = sent[Len(got) + 1] /\ Len(got') <= Len(sent)
      BY <1>2, <1>5 DEF Nth
  <2> QED BY <1>1, <1>5, <2>1 DEF StreamInv, Expected, InOrder
<1> QED BY <1>3, <1>7, <1>8, <1>9 DEF StreamInv

LEMMA StreamStep ==
    ASSUME Wire!StreamAssumption, StreamInv, [Wire!Next]_(Wire!vars)
    PROVE  StreamInv'
<1>1. ASSUME NEW w \in Writer, Wire!Write(w) PROVE StreamInv'
  <2>1. writing[w] \in {"length", "body"}
      BY <1>1 DEF Wire!Write, StreamInv, Wire!TypeOK
  <2> QED BY <1>1, <2>1, WriteLengthKeeps, WriteBodyKeeps
<1>2. ~Wire!RecvDeadline
    BY DEF Wire!RecvDeadline, StreamInv, Wire!TypeOK
<1>3. CASE UNCHANGED Wire!vars
  <2>1. UNCHANGED <<stream, writeMu, writing, count, reading, sent, got, garbled, cuts>>
      BY <1>3 DEF Wire!vars
  <2>2. Wire!TypeOK' /\ Mutex' /\ Half' = Half /\ Taken' = Taken /\ \A k : Nth(k)' = Nth(k)
      BY <2>1 DEF StreamInv, Wire!TypeOK, Wire!Part, Wire!Message, Mutex, Half, Taken, Nth
  <2>3. Summed' /\ InTurn' /\ Expected' /\ InOrder'
      BY <2>1, <2>2 DEF StreamInv, Summed, InTurn, Expected, InOrder
  <2> QED BY <2>1, <2>2, <2>3 DEF StreamInv
<1> QED BY <1>1, <1>2, <1>3, SendLockKeeps, DeadlineKeeps, ReadLengthKeeps, ReadBodyKeeps
        DEF Wire!Next

\* However many goroutines send at once, and wherever the buffer cuts their
\* messages, the receiver returns the messages that were sent, whole, each once
\* and in the order of their sending, and never takes one part for another;
\* sends that are given up leave no trace. No call is cut off in the middle of
\* a message (ReliableConn.SendTimeout, SendJSON, RecvJSON).
THEOREM MessagesComeWhole ==
    ASSUME Wire!StreamAssumption
    PROVE  Wire!Spec => [](Wire!TypeOK /\ ~garbled /\ InOrder)
<1>1. StreamInv => Wire!TypeOK /\ ~garbled /\ InOrder
    BY DEF StreamInv
<1> QED BY StreamInit, StreamStep, <1>1, PTL DEF Wire!Spec
=============================================================================
