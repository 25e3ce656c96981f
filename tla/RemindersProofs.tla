-------------------------- MODULE RemindersProofs --------------------------
(***************************************************************************)
(* Reminders for every number of appointments, runs and faults: no         *)
(* appointment is marked whose notification was not inserted, each thing   *)
(* that goes wrong costs at most one notification too many, and who is in  *)
(* time is served unless something went wrong at each chance.              *)
(***************************************************************************)
EXTENDS Reminders, FiniteSetTheorems, TLAPS

-----------------------------------------------------------------------------
(* The inductive invariant *)

\* A run at work serves a kind; one that is to mark has notified.
RunsKnow ==
    \A j \in Runs :
        /\ run[j].pc # "idle" => run[j].kind \in Kinds
        /\ run[j].pc = "mark" =>
             /\ run[j].at \in Appts
             /\ notes[run[j].kind][run[j].at] > 0

Inv == TypeOK /\ RunsKnow /\ MarkedWasSent

LEMMA NoRunTyped == NoRun \in RunState /\ NoRun.pc = "idle"
BY DEF NoRun, RunState

-----------------------------------------------------------------------------
(* Steps of a run *)

\* A run moves on to q, which need not mark anything, or has notified.
LEMMA RunMoves ==
    ASSUME Inv, NEW j \in Runs, NEW q \in RunState, Goes(j, q),
           UNCHANGED <<now, apptVars, sent, notes>>,
           fire' \subseteq Kinds, faults' \in 0..MaxFaults,
           q.pc # "idle" => q.kind \in Kinds,
           q.pc # "mark"
    PROVE  Inv'
<1>1. TypeOK'
  BY DEF Inv, TypeOK, Goes, apptVars
<1>2. run'[j] = q /\ \A i \in Runs \ {j} : run'[i] = run[i]
  BY DEF Inv, TypeOK, Goes
<1>3. RunsKnow'
  BY <1>2 DEF Inv, RunsKnow
<1>4. MarkedWasSent'
  BY DEF Inv, MarkedWasSent
<1> QED
  BY <1>1, <1>3, <1>4 DEF Inv

LEMMA NotifyInv ==
    ASSUME Inv, NEW j \in Runs, NEW a \in Appts, Notify(j, a)
    PROVE  Inv'
<1> DEFINE k == run[j].kind
           q == [run[j] EXCEPT !.pc = "mark", !.todo = run[j].todo \ {a}, !.at = a]
<1>1. run[j] \in RunState /\ k \in Kinds /\ run[j].todo \in SUBSET Appts
  BY DEF Inv, TypeOK, RunsKnow, Notify, RunState
<1>2. q \in RunState /\ q.pc = "mark" /\ q.kind = k /\ q.at = a
  <2>1. run[j].todo \ {a} \in SUBSET Appts
    BY <1>1
  <2> QED
    BY <1>1, <2>1 DEF RunState
<1>3. run' = [run EXCEPT ![j] = q]
  BY DEF Notify, Goes
<1>4. /\ notes' \in [Kinds -> [Appts -> Nat]]
      /\ \A i \in Kinds, b \in Appts : notes'[i][b] >= notes[i][b]
      /\ notes'[k][a] = notes[k][a] + 1 /\ notes[k][a] \in Nat
  <2>1. notes \in [Kinds -> [Appts -> Nat]]
    BY DEF Inv, TypeOK
  <2>2. notes' = [notes EXCEPT ![k][a] = notes[k][a] + 1]
    BY DEF Notify
  <2>3. \A i \in Kinds, b \in Appts : notes[i][b] \in Nat
    BY <2>1
  <2> QED
    BY <1>1, <2>1, <2>2, <2>3
<1>5. run'[j] = q /\ \A i \in Runs \ {j} : run'[i] = run[i]
  BY <1>3 DEF Inv, TypeOK
<1> HIDE DEF q
<1>6. TypeOK'
  BY <1>2, <1>3, <1>4 DEF Inv, TypeOK, Notify, apptVars
<1>7. RunsKnow'
  <2> SUFFICES ASSUME NEW i \in Runs
               PROVE  /\ run'[i].pc # "idle" => run'[i].kind \in Kinds
                      /\ run'[i].pc = "mark" =>
                           /\ run'[i].at \in Appts
                           /\ notes'[run'[i].kind][run'[i].at] > 0
    BY DEF RunsKnow
  <2>1. CASE i = j
    BY <1>1, <1>2, <1>4, <1>5, <2>1
  <2>2. CASE i # j
    BY <1>4, <1>5, <2>2 DEF Inv, RunsKnow, TypeOK
  <2> QED
    BY <2>1, <2>2
<1>8. MarkedWasSent'
  BY <1>4 DEF Inv, MarkedWasSent, TypeOK, Notify
<1> QED
  BY <1>6, <1>7, <1>8 DEF Inv

LEMMA MarkInv ==
    ASSUME Inv, NEW j \in Runs, Mark(j)
    PROVE  Inv'
<1> DEFINE k == run[j].kind
           q == [run[j] EXCEPT !.pc = "next", !.at = Null]
<1>1. /\ run[j] \in RunState /\ k \in Kinds
      /\ run[j].at \in Appts /\ notes[k][run[j].at] > 0
  BY DEF Inv, TypeOK, RunsKnow, Mark
<1>2. q \in RunState /\ q.pc = "next" /\ q.kind = k
  BY <1>1 DEF RunState
<1>3. run' = [run EXCEPT ![j] = q] /\ notes' = notes
  BY DEF Mark, Goes
<1>4. /\ sent' \in [Kinds -> SUBSET Appts]
      /\ \A i \in Kinds : sent'[i] \subseteq sent[i] \cup
                            (IF i = k THEN {run[j].at} ELSE {})
  BY <1>1 DEF Inv, TypeOK, Mark
<1>5. run'[j] = q /\ \A i \in Runs \ {j} : run'[i] = run[i]
  BY <1>3 DEF Inv, TypeOK
<1> HIDE DEF q
<1>6. TypeOK'
  BY <1>2, <1>3, <1>4 DEF Inv, TypeOK, Mark, apptVars
<1>7. RunsKnow'
  BY <1>1, <1>2, <1>3, <1>5 DEF Inv, RunsKnow
<1>8. MarkedWasSent'
  BY <1>1, <1>3, <1>4 DEF Inv, MarkedWasSent
<1> QED
  BY <1>6, <1>7, <1>8 DEF Inv

LEMMA RunInv ==
    ASSUME Inv, NEW j \in Runs, RunStep(j) \/ RunFails(j)
                                \/ \E k \in Kinds : Fire(j, k)
    PROVE  Inv'
<1>1. /\ run[j] \in RunState /\ fire \subseteq Kinds /\ faults \in 0..MaxFaults
      /\ run[j].todo \in SUBSET Appts
      /\ run[j].pc # "idle" => run[j].kind \in Kinds
      /\ Fault => faults' \in 0..MaxFaults
  BY RemindersAssumption DEF Inv, TypeOK, RunsKnow, RunState, Fault
<1>2. ASSUME NEW k \in Kinds, Fire(j, k)
      PROVE  Inv'
  <2>1. [NoRun EXCEPT !.pc = "find", !.kind = k] \in RunState
        /\ [NoRun EXCEPT !.pc = "find", !.kind = k].pc = "find"
        /\ [NoRun EXCEPT !.pc = "find", !.kind = k].kind = k
    BY DEF NoRun, RunState
  <2>2. Goes(j, [NoRun EXCEPT !.pc = "find", !.kind = k])
        /\ UNCHANGED <<now, apptVars, sent, notes, faults>> /\ fire' \subseteq Kinds
    BY <1>1, <1>2 DEF Fire
  <2> QED
    BY <1>1, <2>1, <2>2, RunMoves
<1>3. CASE FindDue(j)
  <2>1. PICK A \in SUBSET Appts : Goes(j, [run[j] EXCEPT !.pc = "next", !.todo = A])
    <3>1. PICK late \in BOOLEAN :
            Goes(j, [run[j] EXCEPT !.pc = "next",
                        !.todo = {a \in Appts : /\ Due(run[j].kind, a)
                                               /\ Includes(now, run[j].kind, a, late)}])
      BY <1>3 DEF FindDue
    <3> QED
      BY <3>1
  <2> DEFINE q == [run[j] EXCEPT !.pc = "next", !.todo = A]
  <2>2. q \in RunState /\ q.pc = "next" /\ q.kind = run[j].kind
    BY <1>1 DEF RunState
  <2>3. Goes(j, q) /\ UNCHANGED <<now, apptVars, sent, notes, fire, faults>>
        /\ run[j].pc = "find"
    BY <1>3, <2>1 DEF FindDue
  <2> HIDE DEF q
  <2> QED
    BY <1>1, <2>2, <2>3, RunMoves
<1>4. CASE RunEnds(j) \/ FindFails(j)
  <2>1. Goes(j, NoRun) /\ UNCHANGED <<now, apptVars, sent, notes, fire>>
        /\ (Fault \/ UNCHANGED faults)
    BY <1>4 DEF RunEnds, FindFails
  <2> QED
    BY <1>1, <2>1, NoRunTyped, RunMoves
<1>5. ASSUME NEW a \in Appts, NotifyFails(j, a)
      PROVE  Inv'
  <2> DEFINE q == [run[j] EXCEPT !.todo = run[j].todo \ {a}]
  <2>1. q \in RunState /\ q.pc = run[j].pc /\ q.kind = run[j].kind
    BY <1>1 DEF RunState
  <2>2. Goes(j, q) /\ UNCHANGED <<now, apptVars, sent, notes, fire>> /\ Fault
        /\ run[j].pc = "next"
    BY <1>5 DEF NotifyFails
  <2> HIDE DEF q
  <2> QED
    BY <1>1, <2>1, <2>2, RunMoves
<1>6. CASE MarkFails(j)
  <2> DEFINE q == [run[j] EXCEPT !.pc = "next", !.at = Null]
  <2>1. q \in RunState /\ q.pc = "next" /\ q.kind = run[j].kind
    BY <1>1 DEF RunState
  <2>2. Goes(j, q) /\ UNCHANGED <<now, apptVars, sent, notes, fire>> /\ Fault
        /\ run[j].pc = "mark"
    BY <1>6 DEF MarkFails
  <2> HIDE DEF q
  <2> QED
    BY <1>1, <2>1, <2>2, RunMoves
<1> QED
  BY <1>2, <1>3, <1>4, <1>5, <1>6, NotifyInv, MarkInv DEF RunStep, RunFails

\* Steps of the rest of the world: the notifications and the marks stay, and
\* runs stay or are lost.
LEMMA OthersInv ==
    ASSUME Inv, UNCHANGED <<sent, notes>>,
           run' = run \/ run' = [j \in Runs |-> NoRun],
           TypeOK'
    PROVE  Inv'
BY NoRunTyped DEF Inv, RunsKnow, MarkedWasSent

-----------------------------------------------------------------------------
(* The theorems *)

LEMMA InitInv == Init => Inv
<1> SUFFICES ASSUME Init PROVE Inv
  OBVIOUS
<1>1. TypeOK
  BY NoRunTyped, RemindersAssumption DEF Init, TypeOK, Statuses
<1> QED
  BY <1>1, NoRunTyped DEF Init, Inv, RunsKnow, MarkedWasSent

LEMMA NextInv == Inv /\ [Next]_vars => Inv'
<1> SUFFICES ASSUME Inv, [Next]_vars PROVE Inv'
  OBVIOUS
<1>1. CASE UNCHANGED vars
  BY <1>1 DEF vars, Inv, TypeOK, RunsKnow, MarkedWasSent
<1>2. ASSUME NEW k \in Kinds, Missed(k)
      PROVE  Inv'
  <2>1. TypeOK'
    BY <1>2, RemindersAssumption DEF Inv, TypeOK, Missed, Fault, apptVars
  <2> QED
    BY <1>2, <2>1, OthersInv DEF Missed
<1>3. CASE Crash
  <2>1. TypeOK'
    BY <1>3, NoRunTyped, RemindersAssumption
       DEF Inv, TypeOK, Crash, Fault, apptVars
  <2> QED
    BY <1>3, <2>1, OthersInv DEF Crash
<1>4. CASE HalfHour
  <2>1. Fires(now + 1) \subseteq Kinds
    BY DEF Fires
  <2>2. faults' \in 0..MaxFaults
    BY <1>4, RemindersAssumption DEF Inv, TypeOK, HalfHour, Fault
  <2>3. TypeOK'
    BY <1>4, <2>1, <2>2, RemindersAssumption DEF Inv, TypeOK, HalfHour, apptVars
  <2> QED
    BY <1>4, <2>3, OthersInv DEF HalfHour
<1>5. ASSUME NEW a \in Appts, Book(a) \/ Cancel(a) \/ Complete(a) \/ Review(a)
      PROVE  Inv'
  <2>1. TypeOK'
    BY <1>5 DEF Inv, TypeOK, Book, Cancel, Complete, Review, Statuses
  <2> QED
    BY <1>5, <2>1, OthersInv DEF Book, Cancel, Complete, Review
<1> QED
  BY <1>1, <1>2, <1>3, <1>4, <1>5, RunInv DEF Next

LEMMA AlwaysInv == Spec => []Inv
BY InitInv, NextInv, PTL DEF Spec

\* The state of the jobs is what the code's types allow.
THEOREM RemindersTyped == Spec => []TypeOK
<1>1. Inv => TypeOK
  BY DEF Inv
<1> QED
  BY <1>1, AlwaysInv, PTL

\* A crash or an error never leaves an appointment marked and its client
\* without the notification.
THEOREM NeverMarkedUnsent == Spec => []MarkedWasSent
<1>1. Inv => MarkedWasSent
  BY DEF Inv
<1> QED
  BY <1>1, AlwaysInv, PTL

-----------------------------------------------------------------------------
(* Duplicates: the notifications still to come are counted in advance.  A   *)
(* run that is to look for appointments counts for each that is not marked. *)

Open(k, a) ==
    {j \in Runs : /\ run[j].kind = k
                  /\ \/ run[j].pc = "find" /\ a \notin sent[k]
                     \/ a \in run[j].todo}

ToFire(k, a) == IF k \in fire /\ a \notin sent[k] THEN 1 ELSE 0

Coming(k, a) == Cardinality(Open(k, a)) + ToFire(k, a)

Marking(k, a) ==
    \E j \in Runs : run[j].pc = "mark" /\ run[j].kind = k /\ run[j].at = a

\* Nothing has gone wrong, for all one can see.
Calm(k, a) == a \in sent[k] \/ Coming(k, a) > 0 \/ Marking(k, a)

FewNotes ==
    \A k \in Kinds, a \in Appts :
        /\ notes[k][a] + Coming(k, a) =< 1 + faults
        /\ Calm(k, a) \/ notes[k][a] =< faults

IdleEmpty == \A j \in Runs : run[j].pc = "idle" => run[j].todo = {}

DupInv == Inv /\ IdleEmpty /\ FewNotes

LEMMA RunsCounted ==
    ASSUME NEW S \in SUBSET Runs
    PROVE  /\ Cardinality(S) \in Nat
           /\ Cardinality(S) = 0 <=> S = {}
           /\ \A T \in SUBSET S : Cardinality(T) =< Cardinality(S)
           /\ \A j \in S : Cardinality(S \ {j}) = Cardinality(S) - 1
<1>1. IsFiniteSet(S)
  BY FS_Subset, RemindersAssumption
<1>2. Cardinality(S) \in Nat /\ (Cardinality(S) = 0 <=> S = {})
  BY <1>1, FS_CardinalityType, FS_EmptySet
<1>3. \A T \in SUBSET S : Cardinality(T) =< Cardinality(S)
  BY <1>1, FS_Subset
<1>4. \A j \in S : Cardinality(S \ {j}) = Cardinality(S) - 1
  BY <1>1, FS_RemoveElement
<1> QED
  BY <1>2, <1>3, <1>4

LEMMA ComingNat ==
    ASSUME NEW k, NEW a
    PROVE  /\ Coming(k, a) \in Nat /\ Coming(k, a)' \in Nat
           /\ Coming(k, a) = 0 <=> Open(k, a) = {} /\ ToFire(k, a) = 0
<1>1. Open(k, a) \in SUBSET Runs /\ Open(k, a)' \in SUBSET Runs
  BY DEF Open
<1>2. ToFire(k, a) \in {0, 1} /\ ToFire(k, a)' \in {0, 1}
  BY DEF ToFire
<1>3. /\ Cardinality(Open(k, a)) \in Nat /\ Cardinality(Open(k, a)') \in Nat
      /\ Cardinality(Open(k, a)) = 0 <=> Open(k, a) = {}
  BY <1>1, RunsCounted
<1> QED
  BY <1>2, <1>3 DEF Coming

LEMMA FewerComing ==
    ASSUME NEW k, NEW a,
           Open(k, a)' \subseteq Open(k, a), ToFire(k, a)' =< ToFire(k, a)
    PROVE  /\ Coming(k, a)' =< Coming(k, a)
           /\ \A j \in Open(k, a) \ Open(k, a)' : Coming(k, a)' < Coming(k, a)
<1>1. Open(k, a) \in SUBSET Runs /\ Open(k, a)' \in SUBSET Runs
  BY DEF Open
<1>2. ToFire(k, a) \in {0, 1} /\ ToFire(k, a)' \in {0, 1}
  BY DEF ToFire
<1> DEFINE S == Open(k, a)
           T == Open(k, a)'
<1>3. /\ Cardinality(S) \in Nat /\ Cardinality(T) \in Nat
      /\ Cardinality(T) =< Cardinality(S)
  BY <1>1, RunsCounted
<1>4. ASSUME NEW j \in S \ T
      PROVE  Cardinality(T) =< Cardinality(S) - 1
  <2>1. S \ {j} \in SUBSET Runs /\ T \in SUBSET (S \ {j})
    BY <1>1
  <2>2. Cardinality(T) =< Cardinality(S \ {j})
    BY <2>1, RunsCounted
  <2>3. Cardinality(S \ {j}) = Cardinality(S) - 1
    BY <1>1, <1>4, RunsCounted
  <2> QED
    BY <2>2, <2>3
<1> HIDE DEF S, T
<1>5. Coming(k, a) = Cardinality(S) + ToFire(k, a)
      /\ Coming(k, a)' = Cardinality(T) + ToFire(k, a)'
  BY DEF Coming, S, T
<1> QED
  <2>1. Coming(k, a)' =< Coming(k, a)
    BY <1>2, <1>3, <1>5
  <2>2. \A j \in S \ T : Coming(k, a)' < Coming(k, a)
    BY <1>2, <1>3, <1>4, <1>5
  <2> QED
    BY <2>1, <2>2 DEF S, T

LEMMA DupNumbers ==
    ASSUME DupInv, NEW k \in Kinds, NEW a \in Appts
    PROVE  /\ notes[k][a] \in Nat /\ faults \in Nat /\ Coming(k, a) \in Nat
           /\ notes[k][a] + Coming(k, a) =< 1 + faults
           /\ Calm(k, a) \/ notes[k][a] =< faults
BY ComingNat, RemindersAssumption DEF DupInv, Inv, TypeOK, FewNotes

\* Something goes wrong: there is room for one notification more.
LEMMA FaultStep ==
    ASSUME DupInv, Fault, notes' = notes,
           \A k \in Kinds, a \in Appts : Coming(k, a)' =< Coming(k, a) + 1
    PROVE  FewNotes'
<1> SUFFICES ASSUME NEW k \in Kinds, NEW a \in Appts
             PROVE  /\ notes'[k][a] + Coming(k, a)' =< 1 + faults'
                    /\ notes'[k][a] =< faults'
  BY DEF FewNotes
<1> QED
  BY DupNumbers, ComingNat DEF Fault

\* Nothing goes wrong, and no notification is inserted.
LEMMA QuietStep ==
    ASSUME DupInv, UNCHANGED <<notes, faults>>,
           \A k \in Kinds, a \in Appts :
               /\ Coming(k, a)' =< Coming(k, a)
               /\ Calm(k, a) => Calm(k, a)' \/ Coming(k, a)' < Coming(k, a)
    PROVE  FewNotes'
<1> SUFFICES ASSUME NEW k \in Kinds, NEW a \in Appts
             PROVE  /\ notes'[k][a] + Coming(k, a)' =< 1 + faults'
                    /\ Calm(k, a)' \/ notes'[k][a] =< faults'
  BY DEF FewNotes
<1> QED
  BY DupNumbers, ComingNat

LEMMA FireDup ==
    ASSUME DupInv, NEW j \in Runs, NEW i \in Kinds, Fire(j, i)
    PROVE  FewNotes'
<1>1. /\ run'[j].pc = "find" /\ run'[j].kind = i /\ run'[j].todo = {}
      /\ \A m \in Runs \ {j} : run'[m] = run[m]
      /\ run[j].pc = "idle" /\ run[j].todo = {}
      /\ i \in fire /\ fire' = fire \ {i}
      /\ UNCHANGED <<sent, notes, faults>>
  BY DEF DupInv, IdleEmpty, Inv, TypeOK, Fire, Goes, NoRun
<1> SUFFICES ASSUME NEW k \in Kinds, NEW a \in Appts
             PROVE  /\ Coming(k, a)' =< Coming(k, a)
                    /\ Calm(k, a) => Calm(k, a)'
  BY <1>1, QuietStep
<1>2. Marking(k, a) => Marking(k, a)'
  BY <1>1 DEF Marking
<1>3. Coming(k, a)' = Coming(k, a)
  <2>1. CASE k = i /\ a \notin sent[i]
    <3>1. Open(k, a)' \in SUBSET Runs /\ j \in Open(k, a)'
          /\ Open(k, a) = Open(k, a)' \ {j}
      BY <1>1, <2>1 DEF Open
    <3>2. Cardinality(Open(k, a)) = Cardinality(Open(k, a)') - 1
          /\ Cardinality(Open(k, a)') \in Nat
      BY <3>1, RunsCounted
    <3>3. ToFire(k, a) = 1 /\ ToFire(k, a)' = 0
      BY <1>1, <2>1 DEF ToFire
    <3> QED
      BY <3>2, <3>3 DEF Coming
  <2>2. CASE ~(k = i /\ a \notin sent[i])
    <3>1. Open(k, a)' = Open(k, a)
      BY <1>1, <2>2 DEF Open
    <3>2. ToFire(k, a)' = ToFire(k, a)
      BY <1>1, <2>2 DEF ToFire
    <3> QED
      BY <3>1, <3>2 DEF Coming
  <2> QED
    BY <2>1, <2>2
<1> QED
  BY <1>1, <1>2, <1>3, ComingNat DEF Calm

\* A run finds appointments that are not marked, and it was counted for them.
LEMMA FindDup ==
    ASSUME DupInv, NEW j \in Runs, FindDue(j)
    PROVE  FewNotes'
<1>1. PICK late \in BOOLEAN :
        Goes(j, [run[j] EXCEPT !.pc = "next",
                    !.todo = {a \in Appts : /\ Due(run[j].kind, a)
                                           /\ Includes(now, run[j].kind, a, late)}])
  BY DEF FindDue
<1>2. /\ run'[j].pc = "next" /\ run'[j].kind = run[j].kind
      /\ \A a \in run'[j].todo : a \notin sent[run[j].kind]
      /\ \A m \in Runs \ {j} : run'[m] = run[m]
      /\ run[j].pc = "find"
      /\ UNCHANGED <<sent, notes, faults, fire>>
  BY <1>1 DEF DupInv, Inv, TypeOK, FindDue, Goes, Due, RunState
<1> SUFFICES ASSUME NEW k \in Kinds, NEW a \in Appts
             PROVE  /\ Coming(k, a)' =< Coming(k, a)
                    /\ Calm(k, a) => Calm(k, a)' \/ Coming(k, a)' < Coming(k, a)
  BY <1>2, QuietStep
<1>3. Marking(k, a) => Marking(k, a)'
  BY <1>2 DEF Marking
<1>4. Open(k, a)' \subseteq Open(k, a)
  BY <1>2 DEF Open
<1>5. ToFire(k, a)' = ToFire(k, a) /\ ToFire(k, a) \in {0, 1}
  BY <1>2 DEF ToFire
<1>6. Coming(k, a)' =< Coming(k, a)
  BY <1>4, <1>5, FewerComing
<1> QED
  BY <1>2, <1>3, <1>6, ComingNat DEF Calm

LEMMA NotifyDup ==
    ASSUME DupInv, NEW j \in Runs, NEW b \in Appts, Notify(j, b)
    PROVE  FewNotes'
<1> DEFINE i == run[j].kind
<1>1. /\ run'[j].pc = "mark" /\ run'[j].kind = i /\ run'[j].at = b
      /\ run'[j].todo = run[j].todo \ {b}
      /\ \A m \in Runs \ {j} : run'[m] = run[m]
      /\ run[j].pc = "next" /\ b \in run[j].todo
      /\ UNCHANGED <<sent, faults, fire>>
      /\ i \in Kinds
  BY DEF DupInv, Inv, TypeOK, RunsKnow, Notify, Goes, RunState
<1>2. \A k \in Kinds, a \in Appts :
        notes'[k][a] = IF k = i /\ a = b THEN notes[k][a] + 1 ELSE notes[k][a]
  <2>1. notes \in [Kinds -> [Appts -> Nat]]
        /\ notes' = [notes EXCEPT ![i][b] = notes[i][b] + 1]
    BY DEF DupInv, Inv, TypeOK, Notify
  <2> QED
    BY <1>1, <2>1
<1> SUFFICES ASSUME NEW k \in Kinds, NEW a \in Appts
             PROVE  /\ notes'[k][a] + Coming(k, a)' =< 1 + faults'
                    /\ Calm(k, a)' \/ notes'[k][a] =< faults'
  BY DEF FewNotes
<1>3. Open(k, a)' \subseteq Open(k, a)
  BY <1>1 DEF Open
<1>4. ToFire(k, a)' = ToFire(k, a) /\ ToFire(k, a) \in {0, 1}
  BY <1>1 DEF ToFire
<1>5. Coming(k, a)' =< Coming(k, a)
  BY <1>3, <1>4, FewerComing
<1>6. CASE k = i /\ a = b
  <2>1. Marking(k, a)'
    BY <1>1, <1>6 DEF Marking
  <2>2. j \in Open(k, a) \ Open(k, a)'
    BY <1>1, <1>6 DEF Open
  <2>3. Coming(k, a)' < Coming(k, a)
    BY <1>3, <1>4, <2>2, FewerComing
  <2> QED
    BY <1>1, <1>2, <1>6, <2>1, <2>3, DupNumbers, ComingNat DEF Calm
<1>7. CASE ~(k = i /\ a = b)
  <2>1. Open(k, a)' = Open(k, a) /\ (Marking(k, a) => Marking(k, a)')
    BY <1>1, <1>7 DEF Open, Marking
  <2>2. Coming(k, a)' = Coming(k, a)
    BY <1>4, <2>1 DEF Coming
  <2>3. Calm(k, a) => Calm(k, a)'
    BY <1>1, <2>1, <2>2 DEF Calm
  <2>4. notes'[k][a] = notes[k][a]
    BY <1>2, <1>7
  <2> QED
    BY <1>1, <2>2, <2>3, <2>4, DupNumbers
<1> QED
  BY <1>6, <1>7

LEMMA MarkDup ==
    ASSUME DupInv, NEW j \in Runs, Mark(j)
    PROVE  FewNotes'
<1> DEFINE i == run[j].kind
<1>1. /\ run'[j].pc = "next" /\ run'[j].kind = i /\ run'[j].todo = run[j].todo
      /\ \A m \in Runs \ {j} : run'[m] = run[m]
      /\ run[j].pc = "mark"
      /\ UNCHANGED <<notes, faults, fire>>
      /\ i \in Kinds
  BY DEF DupInv, Inv, TypeOK, RunsKnow, Mark, Goes, RunState
<1>2. /\ \A k \in Kinds : sent[k] \subseteq sent'[k]
      /\ run[j].at \in sent'[i]
  BY <1>1 DEF DupInv, Inv, TypeOK, Mark
<1> SUFFICES ASSUME NEW k \in Kinds, NEW a \in Appts
             PROVE  /\ Coming(k, a)' =< Coming(k, a)
                    /\ Calm(k, a) => Calm(k, a)' \/ Coming(k, a)' < Coming(k, a)
  BY <1>1, QuietStep
<1>3. Open(k, a)' \subseteq Open(k, a)
  BY <1>1, <1>2 DEF Open
<1>4. ToFire(k, a)' =< ToFire(k, a)
  BY <1>1, <1>2 DEF ToFire
<1>5. Marking(k, a) => Marking(k, a)' \/ a \in sent'[k]
  BY <1>1, <1>2 DEF Marking
<1>6. Coming(k, a)' =< Coming(k, a)
  BY <1>3, <1>4, FewerComing
<1> QED
  BY <1>2, <1>5, <1>6, ComingNat DEF Calm

\* Run j fails and does not begin anything.
LEMMA FailDup ==
    ASSUME DupInv, NEW j \in Runs, RunFails(j)
    PROVE  FewNotes'
<1>1. /\ Fault /\ UNCHANGED <<sent, notes, fire>>
      /\ \A m \in Runs \ {j} : run'[m] = run[m]
      /\ run'[j].pc # "find"
      /\ \/ run'[j].todo = {}
         \/ /\ run'[j].kind = run[j].kind
            /\ run'[j].todo \subseteq run[j].todo
  <2>1. CASE FindFails(j)
    BY <2>1 DEF DupInv, Inv, TypeOK, FindFails, Goes, NoRun
  <2>2. ASSUME NEW a \in Appts, NotifyFails(j, a)
        PROVE  /\ Fault /\ UNCHANGED <<sent, notes, fire>>
               /\ \A m \in Runs \ {j} : run'[m] = run[m]
               /\ run'[j].pc = "next" /\ run'[j].kind = run[j].kind
               /\ run'[j].todo = run[j].todo \ {a}
    BY <2>2 DEF DupInv, Inv, TypeOK, RunState, NotifyFails, Goes
  <2>3. CASE MarkFails(j)
    BY <2>3 DEF DupInv, Inv, TypeOK, RunState, MarkFails, Goes
  <2> QED
    BY <2>1, <2>2, <2>3 DEF RunFails
<1> SUFFICES ASSUME NEW k \in Kinds, NEW a \in Appts
             PROVE  Coming(k, a)' =< Coming(k, a) + 1
  BY <1>1, FaultStep
<1>2. Open(k, a)' \subseteq Open(k, a)
  BY <1>1 DEF Open
<1>3. ToFire(k, a)' = ToFire(k, a) /\ ToFire(k, a) \in {0, 1}
  BY <1>1 DEF ToFire
<1> QED
  BY <1>2, <1>3, FewerComing, ComingNat

\* The server stops, or is down when a job should fire.
LEMMA DownDup ==
    ASSUME DupInv, Crash \/ \E k \in Kinds : Missed(k)
    PROVE  FewNotes'
<1>1. /\ Fault /\ UNCHANGED <<sent, notes>> /\ fire' \subseteq fire
      /\ run' = run \/ run' = [j \in Runs |-> NoRun]
  BY DEF Crash, Missed
<1> SUFFICES ASSUME NEW k \in Kinds, NEW a \in Appts
             PROVE  Coming(k, a)' =< Coming(k, a) + 1
  BY <1>1, FaultStep
<1>2. Open(k, a)' \subseteq Open(k, a)
  BY <1>1 DEF Open, NoRun
<1>3. ToFire(k, a)' =< ToFire(k, a)
  BY <1>1 DEF ToFire
<1> QED
  BY <1>2, <1>3, FewerComing, ComingNat

LEMMA HalfHourDup ==
    ASSUME DupInv, HalfHour
    PROVE  FewNotes'
<1>1. fire = {} /\ UNCHANGED <<sent, notes, run>>
  BY DEF HalfHour
<1>2. ASSUME NEW k \in Kinds, NEW a \in Appts
      PROVE  Coming(k, a)' =< Coming(k, a) + 1 /\ Open(k, a)' = Open(k, a)
  <2>1. Open(k, a)' = Open(k, a) /\ Open(k, a) \in SUBSET Runs
    BY <1>1 DEF Open
  <2>2. ToFire(k, a) = 0 /\ ToFire(k, a)' \in {0, 1}
    BY <1>1 DEF ToFire
  <2>3. Cardinality(Open(k, a)) \in Nat
    BY <2>1, RunsCounted
  <2> QED
    BY <2>1, <2>2, <2>3 DEF Coming
<1>3. CASE Busy
  BY <1>1, <1>2, <1>3, FaultStep DEF HalfHour
<1>4. CASE ~Busy
  <2> SUFFICES ASSUME NEW k \in Kinds, NEW a \in Appts
               PROVE  /\ notes'[k][a] + Coming(k, a)' =< 1 + faults'
                      /\ Calm(k, a)' \/ notes'[k][a] =< faults'
    BY DEF FewNotes
  <2>1. Open(k, a) = {} /\ ~Marking(k, a) /\ UNCHANGED faults
    BY <1>4 DEF Busy, DupInv, IdleEmpty, Open, Marking, HalfHour
  <2>2. ToFire(k, a) = 0
    BY <1>1 DEF ToFire
  <2>3. Coming(k, a) = 0
    BY <2>1, <2>2, ComingNat
  <2>4. CASE a \in sent[k]
    <3>1. Open(k, a)' = {} /\ ToFire(k, a)' = 0
      BY <1>1, <1>2, <2>1, <2>4 DEF ToFire
    <3>2. Cardinality(Open(k, a)') = 0
      BY <3>1, FS_EmptySet
    <3>3. Coming(k, a)' = 0 /\ Calm(k, a)'
      BY <1>1, <2>4, <3>1, <3>2 DEF Coming, Calm
    <3> QED
      BY <1>1, <2>1, <2>3, <3>3, DupNumbers
  <2>5. CASE a \notin sent[k]
    <3>1. notes[k][a] =< faults
      BY <2>1, <2>3, <2>5, DupNumbers DEF Calm
    <3> QED
      BY <1>1, <1>2, <2>1, <2>3, <3>1, DupNumbers, ComingNat
  <2> QED
    BY <2>4, <2>5
<1> QED
  BY <1>3, <1>4

\* Runs, marks and jobs to fire stay as they are, or a run ends that has
\* nothing left to do.
LEMMA RestDup ==
    ASSUME DupInv, UNCHANGED <<sent, notes, faults, fire>>,
           run' = run \/ \E j \in Runs : RunEnds(j)
    PROVE  FewNotes'
<1>1. \A j \in Runs :
        \/ run'[j] = run[j]
        \/ /\ run[j].pc = "next" /\ run[j].todo = {}
           /\ run'[j].pc = "idle" /\ run'[j].todo = {}
  BY DEF DupInv, Inv, TypeOK, RunEnds, Goes, NoRun
<1> SUFFICES ASSUME NEW k \in Kinds, NEW a \in Appts
             PROVE  /\ Coming(k, a)' = Coming(k, a) /\ Coming(k, a) \in Nat
                    /\ Calm(k, a) => Calm(k, a)'
  BY QuietStep
<1>2. Open(k, a)' = Open(k, a) /\ (Marking(k, a) => Marking(k, a)')
  BY <1>1 DEF Open, Marking
<1>3. ToFire(k, a)' = ToFire(k, a)
  BY DEF ToFire
<1>4. Coming(k, a)' = Coming(k, a)
  BY <1>2, <1>3 DEF Coming
<1> QED
  BY <1>2, <1>4, ComingNat DEF Calm

LEMMA IdleStaysEmpty ==
    ASSUME Inv, IdleEmpty, Next
    PROVE  IdleEmpty'
<1> SUFFICES ASSUME NEW m \in Runs, run'[m].pc = "idle"
             PROVE  run'[m].todo = {}
  BY DEF IdleEmpty
<1>1. ASSUME NEW j \in Runs, RunStep(j) \/ RunFails(j)
                             \/ \E k \in Kinds : Fire(j, k)
      PROVE  run'[m] = run[m] \/ run'[m] = NoRun
  <2> DEFINE P == run'[m] = run[m] \/ run'[m] = NoRun
  <2>1. run \in [Runs -> RunState] /\ run[j] \in RunState
    BY DEF Inv, TypeOK
  <2>2. CASE FindDue(j)
    <3>1. PICK A \in SUBSET Appts : Goes(j, [run[j] EXCEPT !.pc = "next", !.todo = A])
      BY <2>2 DEF FindDue
    <3> QED
      BY <2>1, <3>1 DEF Goes, RunState
  <2>3. ASSUME NEW a \in Appts, Notify(j, a)
        PROVE  P
    BY <2>1, <2>3 DEF Notify, Goes, RunState
  <2>4. CASE Mark(j) \/ MarkFails(j)
    BY <2>1, <2>4 DEF Mark, MarkFails, Goes, RunState
  <2>5. CASE RunEnds(j) \/ FindFails(j)
    BY <2>1, <2>5 DEF RunEnds, FindFails, Goes
  <2>6. ASSUME NEW a \in Appts, NotifyFails(j, a)
        PROVE  P
    BY <2>1, <2>6 DEF NotifyFails, Goes, RunState
  <2>7. ASSUME NEW k \in Kinds, Fire(j, k)
        PROVE  P
    BY <2>1, <2>7 DEF Fire, Goes, NoRun
  <2> QED
    BY <1>1, <2>2, <2>3, <2>4, <2>5, <2>6, <2>7 DEF RunStep, RunFails
<1>2. run'[m] = run[m] \/ run'[m] = NoRun
  BY <1>1 DEF Next, Missed, Crash, HalfHour, Book, Cancel, Complete, Review
<1> QED
  BY <1>2 DEF IdleEmpty, NoRun

LEMMA DupInit == Init => DupInv
<1> SUFFICES ASSUME Init PROVE DupInv
  OBVIOUS
<1>1. IdleEmpty
  BY DEF Init, IdleEmpty, NoRun
<1>2. ASSUME NEW k \in Kinds, NEW a \in Appts
      PROVE  notes[k][a] = 0 /\ faults = 0 /\ Coming(k, a) = 1
  <2>1. Open(k, a) = {} /\ ToFire(k, a) = 1
    BY DEF Init, Open, ToFire, NoRun
  <2>2. Cardinality(Open(k, a)) = 0
    BY <2>1, FS_EmptySet
  <2> QED
    BY <2>1, <2>2 DEF Init, Coming
<1>3. FewNotes
  BY <1>2 DEF FewNotes, Calm
<1> QED
  BY <1>1, <1>3, InitInv DEF DupInv

LEMMA DupNext == DupInv /\ [Next]_vars => DupInv'
<1> SUFFICES ASSUME DupInv, [Next]_vars PROVE DupInv'
  OBVIOUS
<1>1. Inv'
  BY NextInv DEF DupInv
<1>2. CASE UNCHANGED vars
  <2>1. FewNotes'
    BY <1>2, RestDup DEF vars
  <2>2. IdleEmpty'
    BY <1>2 DEF vars, DupInv, IdleEmpty
  <2> QED
    BY <1>1, <2>1, <2>2 DEF DupInv
<1>3. CASE Next
  <2>1. ASSUME NEW j \in Runs, RunStep(j) \/ RunFails(j)
                               \/ \E k \in Kinds : Fire(j, k)
        PROVE  FewNotes'
    <3>1. RunEnds(j) => FewNotes'
      BY RestDup DEF RunEnds
    <3> QED
      BY <2>1, <3>1, FireDup, FindDup, NotifyDup, MarkDup, FailDup DEF RunStep
  <2>2. ASSUME NEW a \in Appts, Book(a) \/ Cancel(a) \/ Complete(a) \/ Review(a)
        PROVE  FewNotes'
    BY <2>2, RestDup DEF Book, Cancel, Complete, Review
  <2>3. FewNotes'
    BY <1>3, <2>1, <2>2, DownDup, HalfHourDup DEF Next
  <2> QED
    BY <1>1, <1>3, <2>3, IdleStaysEmpty DEF DupInv
<1> QED
  BY <1>2, <1>3

\* However runs overlap, fail and are lost, a client gets at most one
\* notification of a kind too many for each thing that went wrong.
THEOREM DuplicatesAreFaults == Spec => []NoIdleDuplicate
<1>1. DupInv => NoIdleDuplicate
  BY DupNumbers DEF NoIdleDuplicate
<1> QED
  BY <1>1, DupInit, DupNext, PTL DEF Spec

-----------------------------------------------------------------------------
(* In time: while an appointment waits and has no notification, each chance *)
(* that has passed was lost to something that went wrong, and the present   *)
(* one is lost too or somebody can still take it.                           *)

Passed(k, a) == {t \in Chances(k, a) : t < now}

Hope(k, a) ==
    \/ k \in fire
    \/ \E j \in Runs : /\ run[j].kind = k
                       /\ run[j].pc = "find" \/ a \in run[j].todo

LossesOf(k, a) ==
    Waits(k, a) /\ notes[k][a] = 0 =>
        /\ Cardinality(Passed(k, a)) =< faults
        /\ now \in Chances(k, a) => \/ Hope(k, a)
                                    \/ Cardinality(Passed(k, a)) < faults

LossesExplained == \A k \in Kinds, a \in Appts : LossesOf(k, a)

ServeInv == Inv /\ IdleEmpty /\ LossesExplained

LEMMA PassedCounted ==
    ASSUME NEW k, NEW a \in Appts, Inv
    PROVE  /\ IsFiniteSet(Passed(k, a)) /\ Cardinality(Passed(k, a)) \in Nat
           /\ IsFiniteSet(Chances(k, a))
<1>1. since[a] \in Nat /\ Horizon \in Nat
  BY RemindersAssumption DEF Inv, TypeOK
<1>2. IsFiniteSet(since[a] + 1 .. Horizon)
  BY <1>1, FS_Interval
<1>3. Chances(k, a) \subseteq since[a] + 1 .. Horizon
  BY DEF Chances
<1>4. IsFiniteSet(Chances(k, a))
  BY <1>2, <1>3, FS_Subset
<1>5. IsFiniteSet(Passed(k, a))
  BY <1>4, FS_Subset DEF Passed
<1> QED
  BY <1>4, <1>5, FS_CardinalityType

\* No time passes, nobody is kept waiting anew, and hope is given up only when
\* something goes wrong.
LEMMA LossesStay ==
    ASSUME Inv, NEW k \in Kinds, NEW a \in Appts, LossesOf(k, a),
           now' = now, since'[a] = since[a],
           Waits(k, a)' /\ notes'[k][a] = 0 => Waits(k, a) /\ notes[k][a] = 0,
           \/ faults' = faults /\ (Hope(k, a) => Hope(k, a)' \/ notes'[k][a] # 0)
           \/ Fault
    PROVE  LossesOf(k, a)'
<1>1. Chances(k, a)' = Chances(k, a) /\ Passed(k, a)' = Passed(k, a)
  BY DEF Chances, Passed, Includes
<1>2. Cardinality(Passed(k, a)) \in Nat /\ faults \in Nat
  <2>1. Cardinality(Passed(k, a)) \in Nat
    BY PassedCounted
  <2>2. faults \in Nat
    BY RemindersAssumption DEF Inv, TypeOK
  <2> QED
    BY <2>1, <2>2
<1>3. Cardinality(Passed(k, a)') = Cardinality(Passed(k, a))
  BY <1>1
<1> QED
  BY <1>1, <1>2, <1>3 DEF LossesOf, Fault

\* The appointment has just begun to wait: its chances lie ahead.
LEMMA LossesBegin ==
    ASSUME Inv, NEW k \in Kinds, NEW a \in Appts,
           UNCHANGED <<now, faults>>, since'[a] = now
    PROVE  LossesOf(k, a)'
<1>1. now \in Nat /\ faults \in Nat
  BY RemindersAssumption DEF Inv, TypeOK
<1>2. \A t \in Chances(k, a)' : t \in Int /\ t > now
  BY <1>1 DEF Chances
<1>3. Passed(k, a)' = {} /\ now' \notin Chances(k, a)'
  BY <1>1, <1>2 DEF Passed
<1>4. Cardinality(Passed(k, a)') = 0
  BY <1>3, FS_EmptySet
<1> QED
  BY <1>1, <1>3, <1>4 DEF LossesOf

LEMMA HalfHourLosses ==
    ASSUME ServeInv, HalfHour, NEW k \in Kinds, NEW a \in Appts
    PROVE  LossesOf(k, a)'
<1> DEFINE P == Passed(k, a)
           P1 == Passed(k, a)'
           C == Chances(k, a)
<1>1. /\ now \in Nat /\ now' = now + 1 /\ faults \in Nat
      /\ UNCHANGED <<status, since, reviewed, notes, run>>
      /\ fire = {} /\ fire' = Fires(now + 1)
  BY RemindersAssumption DEF ServeInv, Inv, TypeOK, HalfHour, apptVars
<1> SUFFICES ASSUME Waits(k, a), notes[k][a] = 0
             PROVE  LossesOf(k, a)'
  BY <1>1 DEF LossesOf, Waits
<1>2. /\ Cardinality(P) =< faults
      /\ now \in C => Hope(k, a) \/ Cardinality(P) < faults
  BY DEF ServeInv, LossesExplained, LossesOf
<1>3. C' = C /\ \A t \in C : t \in Int
  BY <1>1 DEF Chances, Includes
<1>4. P1 = IF now \in C THEN P \cup {now} ELSE P
  BY <1>1, <1>3 DEF Passed
<1>5. IsFiniteSet(P) /\ Cardinality(P) \in Nat /\ now \notin P
  BY <1>1, PassedCounted DEF ServeInv, Passed
<1> HIDE DEF P, P1, C
<1>6. Cardinality(P1) = IF now \in C THEN Cardinality(P) + 1 ELSE Cardinality(P)
  BY <1>4, <1>5, FS_AddElement
<1>7. Cardinality(P1) =< faults'
  <2>1. CASE Busy
    BY <1>1, <1>2, <1>5, <1>6, <2>1 DEF HalfHour, Fault
  <2>2. CASE ~Busy
    <3>1. ~Hope(k, a) /\ faults' = faults
      BY <1>1, <2>2 DEF Busy, Hope, ServeInv, IdleEmpty, HalfHour
    <3> QED
      BY <1>1, <1>2, <1>5, <1>6, <3>1
  <2> QED
    BY <2>1, <2>2
<1>8. now' \in C' => Hope(k, a)'
  BY <1>1, <1>3 DEF C, Chances, Hope
<1> QED
  BY <1>7, <1>8 DEF LossesOf, P1, C

\* A run that looks when the appointment has a chance finds it.
LEMMA FindLosses ==
    ASSUME ServeInv, NEW j \in Runs, FindDue(j), NEW k \in Kinds, NEW a \in Appts
    PROVE  LossesOf(k, a)'
<1>1. PICK late \in BOOLEAN :
        Goes(j, [run[j] EXCEPT !.pc = "next",
                    !.todo = {b \in Appts : /\ Due(run[j].kind, b)
                                           /\ Includes(now, run[j].kind, b, late)}])
  BY DEF FindDue
<1>2. /\ run'[j].kind = run[j].kind
      /\ run'[j].todo = {b \in Appts : /\ Due(run[j].kind, b)
                                       /\ Includes(now, run[j].kind, b, late)}
      /\ \A m \in Runs \ {j} : run'[m] = run[m]
      /\ UNCHANGED <<now, status, since, reviewed, sent, notes, fire, faults>>
  BY <1>1 DEF ServeInv, Inv, TypeOK, RunState, FindDue, Goes, apptVars
<1>3. LossesOf(k, a)
  BY DEF ServeInv, LossesExplained
<1>4. Waits(k, a)' = Waits(k, a) /\ Chances(k, a)' = Chances(k, a)
      /\ Passed(k, a)' = Passed(k, a)
  BY <1>2 DEF Waits, Chances, Passed, Includes
<1>5. ASSUME Waits(k, a), notes[k][a] = 0, now \in Chances(k, a), Hope(k, a)
      PROVE  Hope(k, a)'
  <2>1. Due(k, a)
    BY <1>5 DEF Due, Waits, ServeInv, Inv, MarkedWasSent
  <2>2. Includes(now, k, a, late)
    <3>1. Includes(now, k, a, TRUE)
      BY <1>5 DEF Chances
    <3> QED
      BY <3>1 DEF Includes, Window
  <2>3. k = run[j].kind => a \in run'[j].todo
    BY <1>2, <2>1, <2>2
  <2> QED
    BY <1>2, <1>5, <2>3 DEF Hope
<1> QED
  BY <1>2, <1>3, <1>4, <1>5 DEF LossesOf

\* Other steps of run j, and of a job that fires.
LEMMA RunLosses ==
    ASSUME ServeInv, NEW j \in Runs, NEW k \in Kinds, NEW a \in Appts,
           RunStep(j) \/ RunFails(j) \/ \E i \in Kinds : Fire(j, i)
    PROVE  LossesOf(k, a)'
<1>1. LossesOf(k, a) /\ Inv /\ run \in [Runs -> RunState] /\ run[j] \in RunState
  BY DEF ServeInv, LossesExplained, Inv, TypeOK
<1>2. ASSUME NEW i \in Kinds, Fire(j, i)
      PROVE  LossesOf(k, a)'
  <2>1. /\ run[j].pc = "idle" /\ run[j].todo = {}
        /\ run'[j].pc = "find" /\ run'[j].kind = i
        /\ \A m \in Runs \ {j} : run'[m] = run[m]
        /\ fire' = fire \ {i}
    BY <1>1, <1>2 DEF Fire, Goes, NoRun, ServeInv, IdleEmpty
  <2>2. Hope(k, a) => Hope(k, a)'
    BY <2>1 DEF Hope
  <2> QED
    BY <1>1, <1>2, <2>2, LossesStay DEF Fire, apptVars, Waits
<1>3. ASSUME NEW b \in Appts, Notify(j, b)
      PROVE  LossesOf(k, a)'
  <2>1. /\ run'[j].kind = run[j].kind /\ run'[j].todo = run[j].todo \ {b}
        /\ \A m \in Runs \ {j} : run'[m] = run[m]
        /\ run[j].pc = "next" /\ run[j].kind \in Kinds
        /\ UNCHANGED <<now, status, since, reviewed, fire, faults>>
    BY <1>1, <1>3 DEF Notify, Goes, RunState, Inv, RunsKnow, apptVars
  <2>2. notes'[k][a] = IF k = run[j].kind /\ a = b THEN notes[k][a] + 1
                       ELSE notes[k][a]
    <3>1. notes \in [Kinds -> [Appts -> Nat]]
          /\ notes' = [notes EXCEPT ![run[j].kind][b] = notes[run[j].kind][b] + 1]
      BY <1>1, <1>3 DEF Inv, TypeOK, Notify
    <3> QED
      BY <2>1, <3>1
  <2>3. notes[k][a] \in Nat
    BY <1>1 DEF Inv, TypeOK
  <2>4. Hope(k, a) => Hope(k, a)' \/ notes'[k][a] # 0
    BY <2>1, <2>2, <2>3 DEF Hope
  <2>5. notes'[k][a] = 0 => notes[k][a] = 0
    BY <2>2, <2>3
  <2> QED
    BY <1>1, <2>1, <2>4, <2>5, LossesStay DEF Waits
<1>4. CASE Mark(j) \/ RunEnds(j)
  <2>1. /\ UNCHANGED <<now, status, since, reviewed, notes, fire, faults>>
        /\ \A m \in Runs \ {j} : run'[m] = run[m]
        /\ run[j].pc # "find"
        /\ \/ run'[j].kind = run[j].kind /\ run'[j].todo = run[j].todo
           \/ run[j].todo = {}
    BY <1>1, <1>4 DEF Mark, RunEnds, Goes, RunState, apptVars
  <2>2. Hope(k, a) => Hope(k, a)'
    BY <2>1 DEF Hope
  <2> QED
    BY <1>1, <2>1, <2>2, LossesStay DEF Waits
<1>5. CASE RunFails(j)
  <2>1. Fault /\ UNCHANGED <<now, status, since, reviewed, notes>>
    BY <1>5 DEF RunFails, FindFails, NotifyFails, MarkFails, apptVars
  <2> QED
    BY <1>1, <2>1, LossesStay DEF Waits
<1> QED
  BY <1>2, <1>3, <1>4, <1>5, FindLosses DEF RunStep

LEMMA UserLosses ==
    ASSUME ServeInv, NEW b \in Appts, Book(b) \/ Cancel(b) \/ Complete(b) \/ Review(b),
           NEW k \in Kinds, NEW a \in Appts
    PROVE  LossesOf(k, a)'
<1>1. LossesOf(k, a) /\ Inv /\ UNCHANGED <<now, notes, fire, run, faults>>
      /\ status \in [Appts -> Statuses] /\ since \in [Appts -> 0..Horizon]
  BY DEF ServeInv, LossesExplained, Inv, TypeOK, Book, Cancel, Complete, Review
<1>2. Hope(k, a) => Hope(k, a)'
  BY <1>1 DEF Hope
<1>3. CASE (Book(b) \/ Complete(b)) /\ a = b
  <2>1. since'[a] = now
    BY <1>1, <1>3 DEF Book, Complete
  <2> QED
    BY <1>1, <2>1, LossesBegin
<1>4. CASE ~((Book(b) \/ Complete(b)) /\ a = b)
  <2>1. since'[a] = since[a] /\ (Waits(k, a)' => Waits(k, a))
    BY <1>1, <1>4 DEF Book, Cancel, Complete, Review, Waits
  <2> QED
    BY <1>1, <1>2, <2>1, LossesStay
<1> QED
  BY <1>3, <1>4

LEMMA ServeNext == ServeInv /\ [Next]_vars => ServeInv'
<1> SUFFICES ASSUME ServeInv, [Next]_vars PROVE ServeInv'
  OBVIOUS
<1>1. Inv'
  BY NextInv DEF ServeInv
<1>2. CASE UNCHANGED vars
  <2>1. \A k \in Kinds, a \in Appts : LossesOf(k, a)'
    <3> SUFFICES ASSUME NEW k \in Kinds, NEW a \in Appts
                 PROVE  LossesOf(k, a)'
      OBVIOUS
    <3>1. UNCHANGED <<now, status, since, reviewed, notes, fire, run, faults>>
      BY <1>2 DEF vars
    <3>2. Hope(k, a) => Hope(k, a)'
      BY <3>1 DEF Hope
    <3> QED
      BY <3>1, <3>2, LossesStay DEF Waits, ServeInv, LossesExplained
  <2>2. IdleEmpty'
    BY <1>2 DEF vars, ServeInv, IdleEmpty
  <2> QED
    BY <1>1, <2>1, <2>2 DEF ServeInv, LossesExplained
<1>3. CASE Next
  <2>1. ASSUME NEW k \in Kinds, NEW a \in Appts
        PROVE  LossesOf(k, a)'
    <3>1. CASE Crash \/ \E i \in Kinds : Missed(i)
      <4>1. Fault /\ UNCHANGED <<now, status, since, reviewed, notes>>
        BY <3>1 DEF Crash, Missed, apptVars
      <4> QED
        BY <4>1, LossesStay DEF Waits, ServeInv, LossesExplained
    <3> QED
      BY <1>3, <3>1, RunLosses, HalfHourLosses, UserLosses DEF Next
  <2>2. IdleEmpty'
    BY <1>3, IdleStaysEmpty DEF ServeInv
  <2> QED
    BY <1>1, <2>1, <2>2 DEF ServeInv, LossesExplained
<1> QED
  BY <1>2, <1>3

\* An appointment that waits is served while it is in a window of its job,
\* unless as many things went wrong as it had chances.
THEOREM NobodyForgotten == Spec => []ServedInTime
<1>1. Init => ServeInv
  <2> SUFFICES ASSUME Init PROVE ServeInv
    OBVIOUS
  <2>1. LossesExplained
    BY DEF Init, LossesExplained, LossesOf, Waits
  <2> QED
    BY <2>1, DupInit DEF ServeInv, DupInv
<1>2. ServeInv => ServedInTime
  <2> SUFFICES ASSUME ServeInv, NEW k \in Kinds, NEW a \in Appts,
                      Waits(k, a), Cardinality(Chances(k, a)) > faults,
                      \A t \in Chances(k, a) : t < now
               PROVE  notes[k][a] > 0
    BY DEF ServedInTime
  <2>1. Passed(k, a) = Chances(k, a)
    BY DEF Passed
  <2>2. notes[k][a] = 0 => Cardinality(Passed(k, a)) =< faults
    BY DEF ServeInv, LossesExplained, LossesOf
  <2>3. notes[k][a] \in Nat /\ faults \in Nat /\ Cardinality(Passed(k, a)) \in Nat
    BY PassedCounted, RemindersAssumption DEF ServeInv, Inv, TypeOK
  <2> QED
    BY <2>1, <2>2, <2>3
<1> QED
  BY <1>1, <1>2, ServeNext, PTL DEF Spec
=============================================================================
