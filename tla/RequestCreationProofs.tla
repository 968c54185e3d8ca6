------------------------ MODULE RequestCreationProofs ------------------------
(***************************************************************************)
(* Proofs about RequestCreation, for every set of workers and of users and *)
(* every bound on the numbers.                                             *)
(*                                                                         *)
(* NumbersDistinct is nearly inductive: what a creation has inserted is in *)
(* no committed request.  ModeratedOnce needs what links an open request   *)
(* that searches do not find to the task that has yet to index it, and     *)
(* LoneCreationNumbered what a creation alone knows of the table while it  *)
(* moves the sequence.                                                     *)
(***************************************************************************)
EXTENDS RequestCreation, WellFoundedInduction, FiniteSetTheorems, TLAPS

\* Values are within the bound, and a value looked for was found taken.
Values ==
  /\ numbers \subseteq 1 .. MaxNumber
  /\ \A w \in Workers :
       /\ work[w].phase \in {"insert", "look", "commit", "index"} =>
            work[w].value \in 1 .. MaxNumber
       /\ work[w].phase = "look" => work[w].value \in numbers

\* Phases before the commit.
Early == {"draw", "insert", "look", "move", "commit", "failed"}

\* Of a user no two tasks have overlapped for, nor one died for: there is one task
\* and one open request at most, the task has not committed if there is one, and
\* the request is found or its task is about to index it.
Moderated ==
  \A s \in Subjects \ raced :
    /\ \A v, w \in Workers :
         work[v] # Idle /\ work[w] # Idle
           /\ work[v].subject = s /\ work[w].subject = s => v = w
    /\ \A q, r \in requests :
         q.subject = s /\ r.subject = s /\ q.open /\ r.open => q = r
    /\ \A w \in Workers, r \in requests :
         ~(/\ work[w].phase \in Early /\ work[w].subject = s
           /\ r.subject = s /\ r.open)
    /\ \A r \in requests : r.subject = s /\ r.open =>
         \/ r.number \in found
         \/ \E w \in Workers : /\ work[w].phase = "index" /\ work[w].subject = s
                               /\ work[w].value = r.number

\* What a creation that is alone knows while it tries again.
LoneRetry ==
  \A w \in Workers : alone[w] /\ work[w] # Idle =>
    /\ \A v \in Workers : v # w => work[v] = Idle
    /\ work[w].phase = "move" => \A n \in numbers : n <= work[w].value
    /\ work[w].phase = "draw" /\ work[w].retry => \A n \in numbers : n <= sequence
    /\ work[w].phase = "insert" /\ work[w].retry => work[w].value \notin numbers
    /\ work[w].phase # "failed"

IInv == TypeOK /\ Values /\ NumbersDistinct /\ Moderated /\ LoneRetry

-----------------------------------------------------------------------------
(* Sets of numbers and records of work. *)

\* A set of numbers within a bound has a largest one.
LEMMA LargestNumber ==
  ASSUME NEW bound \in Nat, NEW S, S \subseteq 1 .. bound, S # {}
  PROVE  Max(S) \in S /\ \A n \in S : Max(S) >= n
<1>. DEFINE T == {bound - n : n \in S}
<1>1. T \subseteq Nat /\ T # {}
  <2>1. \A n \in S : bound - n \in Nat
    OBVIOUS
  <2>2. T \subseteq Nat
    BY <2>1, Zenon
  <2>3. T # {}
    BY Zenon
  <2>. QED  BY <2>2, <2>3
<1>2. PICK t \in T : \A u \in T : <<u, t>> \notin OpToRel(<, Nat)
  <2>. HIDE DEF T
  <2>. QED  BY <1>1, NatLessThanWellFounded, WFMin
<1>3. \A u \in T : ~(u < t)
  BY <1>1, <1>2 DEF OpToRel
<1>4. PICK m \in S : t = bound - m
  OBVIOUS
<1>5. \A n \in S : m >= n
  BY <1>3, <1>4
<1>. QED  BY <1>5 DEF Max

\* A worker that is in a phase is not idle.
LEMMA AtWork ==
  ASSUME TypeOK, NEW w \in Workers
  PROVE  /\ work[w].phase # "idle" <=> work[w] # Idle
         /\ work[w] # Idle => work[w] \in Work
  BY DEF TypeOK, Work, Idle

-----------------------------------------------------------------------------
(* Steps of a creation before its commit. *)

\* A step of one creation between two phases before its commit, of the same
\* subject, that changes nothing but the sequence.
EarlyStep(w) ==
  /\ work \in [Workers -> Work \cup {Idle}]
  /\ work[w] \in Work /\ work[w].phase \in Early
  /\ work'[w] \in Work /\ work'[w].phase \in Early
  /\ work'[w].subject = work[w].subject
  /\ work' \in [Workers -> Work \cup {Idle}]
  /\ \A v \in Workers : v # w => work'[v] = work[v]
  /\ UNCHANGED <<requests, numbers, found, alone, raced>>

\* Draw, Insert, Look and SetSequence are such steps.
LEMMA StepsAreEarly ==
  ASSUME CreationAssumption, IInv, NEW w \in Workers,
         Draw(w) \/ Insert(w) \/ Look(w) \/ SetSequence(w)
  PROVE  EarlyStep(w)
<1>1. work[w] \in Work
  BY AtWork DEF IInv, Draw, Insert, Look, SetSequence
<1>2. /\ work \in [Workers -> Work \cup {Idle}]
      /\ sequence \in Nat
  BY DEF IInv, TypeOK
<1>3. CASE Draw(w)
  <2>1. sequence + 1 \in Nat
    BY <1>2
  <2>. QED  BY <1>1, <1>2, <1>3, <2>1 DEF Draw, EarlyStep, Work, Early
<1>4. CASE Insert(w)
  <2>. DEFINE p == IF work[w].value \notin numbers THEN "commit"
                   ELSE IF work[w].retry THEN "failed" ELSE "look"
  <2>1. /\ work' = [work EXCEPT ![w].phase = p]
        /\ p \in {"commit", "failed", "look"}
        /\ work[w].phase = "insert"
        /\ UNCHANGED <<requests, numbers, sequence, found, alone, raced>>
    BY <1>4 DEF Insert, Step
  <2>. HIDE DEF p
  <2>. QED  BY <1>1, <1>2, <2>1 DEF EarlyStep, Work, Early
<1>5. CASE Look(w)
  <2>. DEFINE m == Max(numbers)
  <2>1. m \in Nat
    <3>1. numbers \subseteq 1 .. MaxNumber /\ numbers # {} /\ MaxNumber \in Nat
      BY <1>5 DEF IInv, Values, Look, CreationAssumption
    <3>2. m \in numbers
      BY <3>1, LargestNumber
    <3>. HIDE DEF m
    <3>. QED  BY <3>1, <3>2
  <2>2. /\ work[w].phase = "look"
        /\ UNCHANGED <<requests, numbers, sequence, found, alone, raced>>
    BY <1>5 DEF Look
  <2>3. work' = [work EXCEPT ![w].phase = "move", ![w].value = m]
    BY <1>5 DEF Look
  <2>. HIDE DEF m
  <2>. QED  BY <1>1, <1>2, <2>1, <2>2, <2>3 DEF EarlyStep, Work, Early
<1>6. CASE SetSequence(w)
  BY <1>1, <1>2, <1>6 DEF SetSequence, EarlyStep, Work, Early
<1>. QED  BY <1>3, <1>4, <1>5, <1>6

\* None of them touches what is said of moderation requests.
LEMMA EarlyStepModerated ==
  ASSUME Moderated, NEW w \in Workers, EarlyStep(w)
  PROVE  Moderated'
<1>1. \A v \in Workers :
         /\ work'[v] # Idle => work[v] # Idle
         /\ work'[v].subject = work[v].subject
         /\ work'[v].phase \in Early => work[v].phase \in Early
         /\ work[v].phase = "index" => work'[v] = work[v]
  BY DEF EarlyStep, Work, Idle, Early
<1>2. UNCHANGED <<requests, found, raced>>
  BY DEF EarlyStep
<1>. QED  BY <1>1, <1>2 DEF Moderated

\* A creation that is alone is the only one.
LEMMA OnlyOne ==
  ASSUME LoneRetry, NEW v \in Workers, NEW w \in Workers,
         alone[v], work[v] # Idle, work[w] # Idle
  PROVE  v = w
  BY DEF LoneRetry

\* A creation draws a value that no insert has seen.
LEMMA DrawKeeps ==
  ASSUME CreationAssumption, IInv, NEW w \in Workers, Draw(w)
  PROVE  IInv'
<1>1. EarlyStep(w)
  BY StepsAreEarly
<1>2. /\ work[w].phase = "draw" /\ work'[w].phase = "insert"
      /\ work'[w].value = sequence + 1 /\ work'[w].retry = work[w].retry
      /\ sequence' = sequence + 1 /\ sequence \in Nat /\ sequence < MaxNumber
  BY <1>1 DEF Draw, IInv, TypeOK, EarlyStep, Work
<1>3. TypeOK'
  BY <1>1, <1>2 DEF IInv, TypeOK, EarlyStep
<1>4. Values'
  <2>1. work'[w].value \in 1 .. MaxNumber
    BY <1>2 DEF CreationAssumption
  <2>. QED  BY <1>1, <1>2, <2>1 DEF IInv, Values, EarlyStep
<1>5. NumbersDistinct'
  BY <1>1, <1>2 DEF IInv, NumbersDistinct, Holds, EarlyStep
<1>6. Moderated'
  BY <1>1, EarlyStepModerated DEF IInv
<1>7. LoneRetry'
  <2>1. work[w] # Idle
    BY <1>1 DEF EarlyStep, Work, Idle
  <2>2. SUFFICES ASSUME NEW v \in Workers, alone[v], work'[v] # Idle
                 PROVE  /\ \A u \in Workers : u # v => work'[u] = Idle
                        /\ v = w
    <3>1. alone' = alone /\ numbers' = numbers
      BY <1>1 DEF EarlyStep
    <3>2. alone[w] /\ work[w].retry => \A n \in numbers : n <= sequence
      BY <1>2, <2>1 DEF IInv, LoneRetry
    <3>3. alone[w] /\ work'[w].retry => work'[w].value \notin numbers
      BY <1>2, <3>2 DEF IInv, TypeOK, Numbers
    <3>. QED  BY <1>2, <2>2, <3>1, <3>3 DEF LoneRetry
  <2>3. work[v] # Idle
    BY <1>1, <2>1, <2>2 DEF EarlyStep
  <2>4. v = w
    BY <2>1, <2>2, <2>3, OnlyOne DEF IInv
  <2>. QED  BY <1>1, <2>1, <2>2, <2>3, <2>4 DEF IInv, LoneRetry, EarlyStep
<1>. QED  BY <1>3, <1>4, <1>5, <1>6, <1>7 DEF IInv

\* A value that is neither committed nor held by another is inserted; one that is
\* committed leads to the second try or to failure.
LEMMA InsertKeeps ==
  ASSUME CreationAssumption, IInv, NEW w \in Workers, Insert(w)
  PROVE  IInv'
<1>1. EarlyStep(w)
  BY StepsAreEarly
<1>2. /\ work[w].phase = "insert"
      /\ work'[w].value = work[w].value /\ work'[w].retry = work[w].retry
      /\ sequence' = sequence
      /\ \A v \in Workers : ~Holds(v, work[w].value)
      /\ \/ work'[w].phase = "commit" /\ work[w].value \notin numbers
         \/ work'[w].phase = "failed" /\ work[w].value \in numbers /\ work[w].retry
         \/ work'[w].phase = "look" /\ work[w].value \in numbers
  BY <1>1 DEF Insert, Step, EarlyStep, Work
<1>3. TypeOK'
  BY <1>1, <1>2 DEF IInv, TypeOK, EarlyStep
<1>4. Values'
  BY <1>1, <1>2 DEF IInv, Values, EarlyStep
<1>5. NumbersDistinct'
  <2>1. \A r \in requests : r.number \in numbers
    BY DEF IInv, TypeOK
  <2>2. \A v \in Workers : v # w => work'[v] = work[v]
    BY <1>1 DEF EarlyStep
  <2>3. requests' = requests
    BY <1>1 DEF EarlyStep
  <2>4. \A u, v \in Workers :
          work'[u].phase = "commit" /\ work'[v].phase = "commit"
            /\ work'[v].value = work'[u].value => u = v
    BY <1>2, <2>2 DEF IInv, NumbersDistinct, Holds
  <2>5. \A v \in Workers, r \in requests :
          ~(work'[v].phase = "commit" /\ work'[v].value = r.number)
    BY <1>2, <2>1, <2>2 DEF IInv, NumbersDistinct, Holds
  <2>. QED  BY <2>3, <2>4, <2>5 DEF IInv, NumbersDistinct, Holds
<1>6. Moderated'
  BY <1>1, EarlyStepModerated DEF IInv
<1>7. LoneRetry'
  <2>1. work[w] # Idle
    BY <1>1 DEF EarlyStep, Work, Idle
  <2>2. SUFFICES ASSUME NEW v \in Workers, alone[v], work'[v] # Idle
                 PROVE  /\ \A u \in Workers : u # v => work'[u] = Idle
                        /\ v = w
    <3>1. alone' = alone /\ numbers' = numbers
      BY <1>1 DEF EarlyStep
    <3>2. alone[w] /\ work[w].retry => work[w].value \notin numbers
      BY <1>2, <2>1 DEF IInv, LoneRetry
    <3>. QED  BY <1>2, <2>2, <3>1, <3>2 DEF LoneRetry
  <2>3. work[v] # Idle
    BY <1>1, <2>1, <2>2 DEF EarlyStep
  <2>4. v = w
    BY <2>1, <2>2, <2>3, OnlyOne DEF IInv
  <2>. QED  BY <1>1, <2>1, <2>2, <2>3, <2>4 DEF IInv, LoneRetry, EarlyStep
<1>. QED  BY <1>3, <1>4, <1>5, <1>6, <1>7 DEF IInv

\* What a creation sees as the highest value is not below any.
LEMMA LookKeeps ==
  ASSUME CreationAssumption, IInv, NEW w \in Workers, Look(w)
  PROVE  IInv'
<1>1. EarlyStep(w)
  BY StepsAreEarly
<1>. DEFINE m == Max(numbers)
<1>2. \A n \in numbers : m >= n
  <2>1. numbers \subseteq 1 .. MaxNumber /\ numbers # {} /\ MaxNumber \in Nat
    BY DEF IInv, Values, Look, CreationAssumption
  <2>. QED  BY <2>1, LargestNumber
<1>3. work' = [work EXCEPT ![w].phase = "move", ![w].value = m]
      /\ work[w].phase = "look" /\ sequence' = sequence
  BY DEF Look
<1>. HIDE DEF m
<1>4. work'[w].phase = "move" /\ work'[w].value = m
  BY <1>1, <1>3 DEF EarlyStep, Work
<1>5. TypeOK'
  BY <1>1, <1>3 DEF IInv, TypeOK, EarlyStep
<1>6. Values'
  BY <1>1, <1>4 DEF IInv, Values, EarlyStep
<1>7. NumbersDistinct'
  BY <1>1, <1>4 DEF IInv, NumbersDistinct, Holds, EarlyStep
<1>8. Moderated'
  BY <1>1, EarlyStepModerated DEF IInv
<1>9. LoneRetry'
  <2>1. work[w] # Idle
    BY <1>1 DEF EarlyStep, Work, Idle
  <2>2. SUFFICES ASSUME NEW v \in Workers, alone[v], work'[v] # Idle
                 PROVE  /\ \A u \in Workers : u # v => work'[u] = Idle
                        /\ v = w
    <3>1. alone' = alone /\ numbers' = numbers
      BY <1>1 DEF EarlyStep
    <3>2. \A n \in numbers : n <= work'[w].value
      BY <1>1, <1>2, <1>4 DEF IInv, TypeOK, Numbers, EarlyStep, Work
    <3>. QED  BY <1>4, <2>2, <3>1, <3>2 DEF LoneRetry
  <2>3. work[v] # Idle
    BY <1>1, <2>1, <2>2 DEF EarlyStep
  <2>4. v = w
    BY <2>1, <2>2, <2>3, OnlyOne DEF IInv
  <2>. QED  BY <1>1, <2>1, <2>2, <2>3, <2>4 DEF IInv, LoneRetry, EarlyStep
<1>. QED  BY <1>5, <1>6, <1>7, <1>8, <1>9 DEF IInv

\* The sequence is moved to that value.
LEMMA SetSequenceKeeps ==
  ASSUME CreationAssumption, IInv, NEW w \in Workers, SetSequence(w)
  PROVE  IInv'
<1>1. EarlyStep(w)
  BY StepsAreEarly
<1>2. /\ work[w].phase = "move" /\ work'[w].phase = "draw"
      /\ sequence' = work[w].value /\ work[w].value \in Nat
  BY <1>1 DEF SetSequence, EarlyStep, Work
<1>3. TypeOK'
  BY <1>1, <1>2 DEF IInv, TypeOK, EarlyStep
<1>4. Values'
  BY <1>1, <1>2 DEF IInv, Values, EarlyStep
<1>5. NumbersDistinct'
  BY <1>1, <1>2 DEF IInv, NumbersDistinct, Holds, EarlyStep
<1>6. Moderated'
  BY <1>1, EarlyStepModerated DEF IInv
<1>7. LoneRetry'
  <2>1. work[w] # Idle
    BY <1>1 DEF EarlyStep, Work, Idle
  <2>2. SUFFICES ASSUME NEW v \in Workers, alone[v], work'[v] # Idle
                 PROVE  /\ \A u \in Workers : u # v => work'[u] = Idle
                        /\ v = w
    <3>1. alone' = alone /\ numbers' = numbers
      BY <1>1 DEF EarlyStep
    <3>2. alone[w] => \A n \in numbers : n <= sequence'
      BY <1>2, <2>1 DEF IInv, LoneRetry
    <3>. QED  BY <1>2, <2>2, <3>1, <3>2 DEF LoneRetry
  <2>3. work[v] # Idle
    BY <1>1, <2>1, <2>2 DEF EarlyStep
  <2>4. v = w
    BY <2>1, <2>2, <2>3, OnlyOne DEF IInv
  <2>. QED  BY <1>1, <2>1, <2>2, <2>3, <2>4 DEF IInv, LoneRetry, EarlyStep
<1>. QED  BY <1>3, <1>4, <1>5, <1>6, <1>7 DEF IInv

-----------------------------------------------------------------------------
(* The beginning and the end of a creation. *)

\* A creation begins; for a user to moderate, nobody else is at it or the user is
\* marked, and no open request of the user is left to be found.
LEMMA BeginKeeps ==
  ASSUME CreationAssumption, IInv, NEW w \in Workers,
         NEW subject \in Subjects \cup {NoSubject}, Begin(w, subject),
         \/ subject = NoSubject /\ raced' = raced
         \/ /\ subject \in Subjects /\ ~Exists(subject)
            /\ raced' = IF OpenFor(subject) = {} THEN raced ELSE raced \cup {subject}
  PROVE  IInv'
<1>. DEFINE t == [phase |-> "draw", subject |-> subject, value |-> 0, retry |-> FALSE]
<1>1. /\ t \in Work /\ t # Idle /\ t.phase = "draw" /\ t.subject = subject
      /\ t.retry = FALSE
  BY DEF Work, Idle
<1>2. /\ work[w] = Idle /\ work' = [work EXCEPT ![w] = t]
      /\ UNCHANGED <<requests, numbers, sequence, found>>
      /\ alone' = [v \in Workers |-> IF v = w THEN {u \in Workers : work[u] # Idle} = {}
                                     ELSE alone[v] /\ work[v] = Idle]
  BY DEF Begin
<1>. HIDE DEF t
<1>3. /\ work \in [Workers -> Work \cup {Idle}]
      /\ work' \in [Workers -> Work \cup {Idle}]
      /\ work'[w] = t
      /\ \A v \in Workers : v # w => work'[v] = work[v]
  BY <1>1, <1>2 DEF IInv, TypeOK
<1>4. raced' \subseteq Subjects /\ raced \subseteq raced'
  BY DEF IInv, TypeOK
<1>5. TypeOK'
  BY <1>2, <1>3, <1>4 DEF IInv, TypeOK
<1>6. Values'
  BY <1>1, <1>2, <1>3 DEF IInv, Values
<1>7. NumbersDistinct'
  BY <1>1, <1>2, <1>3 DEF IInv, NumbersDistinct, Holds
<1>8. Moderated'
  <2>1. SUFFICES ASSUME NEW s \in Subjects, s \notin raced'
        PROVE /\ \A u, v \in Workers :
                   work'[u] # Idle /\ work'[v] # Idle
                     /\ work'[u].subject = s /\ work'[v].subject = s => u = v
              /\ \A v \in Workers, r \in requests :
                   ~(/\ work'[v].phase \in Early /\ work'[v].subject = s
                     /\ r.subject = s /\ r.open)
              /\ \A r \in requests : r.subject = s /\ r.open =>
                   \/ r.number \in found
                   \/ \E v \in Workers :
                        /\ work'[v].phase = "index" /\ work'[v].subject = s
                        /\ work'[v].value = r.number
    <3>1. \A s \in Subjects \ raced' : \A q, r \in requests :
             q.subject = s /\ r.subject = s /\ q.open /\ r.open => q = r
      BY <1>4 DEF IInv, Moderated
    <3>. QED  BY <1>2, <2>1, <3>1 DEF Moderated
  <2>2. s \notin raced
    BY <1>4, <2>1
  <2>3. work[w].phase # "index"
    BY <1>2 DEF Idle
  <2>4. \A r \in requests : r.subject = s /\ r.open =>
          \/ r.number \in found
          \/ \E v \in Workers :
               /\ work'[v].phase = "index" /\ work'[v].subject = s
               /\ work'[v].value = r.number
    BY <1>3, <2>1, <2>2, <2>3 DEF IInv, Moderated
  <2>5. CASE s # subject
    BY <1>1, <1>3, <2>1, <2>2, <2>4, <2>5 DEF IInv, Moderated
  <2>6. CASE s = subject
    <3>1. ~Exists(s) /\ OpenFor(s) = {}
      BY <2>1, <2>6 DEF CreationAssumption
    <3>2. \A v \in Workers : ~(work[v] # Idle /\ work[v].subject = s)
      BY <3>1 DEF OpenFor
    <3>3. \A v \in Workers : work[v].phase = "index" => work[v] # Idle
      BY DEF Idle
    <3>4. \A r \in requests : ~(r.subject = s /\ r.open)
      BY <2>1, <2>2, <3>1, <3>2, <3>3 DEF IInv, Moderated, Exists
    <3>. QED  BY <1>3, <2>4, <3>2, <3>4
  <2>. QED  BY <2>5, <2>6
<1>9. LoneRetry'
  <2>1. \A v \in Workers : v # w => ~(alone'[v] /\ work'[v] # Idle)
    BY <1>2, <1>3
  <2>2. alone'[w] => \A v \in Workers : v # w => work'[v] = Idle
    BY <1>2, <1>3
  <2>. QED  BY <1>1, <1>3, <2>1, <2>2 DEF LoneRetry
<1>. QED  BY <1>5, <1>6, <1>7, <1>8, <1>9 DEF IInv

\* A commit adds a request with a number that nobody else holds.
LEMMA CommitKeeps ==
  ASSUME CreationAssumption, IInv, NEW w \in Workers, Commit(w)
  PROVE  IInv'
<1>. DEFINE new == [number |-> work[w].value, open |-> TRUE,
                    subject |-> work[w].subject]
<1>1. work[w] \in Work /\ work[w].phase = "commit"
  BY AtWork DEF IInv, Commit
<1>2. work[w].value \in 1 .. MaxNumber
  BY <1>1 DEF IInv, Values
<1>3. /\ new \in Request /\ new.number = work[w].value /\ new.open
      /\ new.subject = work[w].subject
  BY <1>1, <1>2 DEF Request, Work, Numbers, CreationAssumption
<1>4. /\ requests' = requests \cup {new}
      /\ numbers' = numbers \cup {work[w].value}
      /\ work' = [work EXCEPT ![w].phase = "index"]
      /\ UNCHANGED <<sequence, found, alone, raced>>
  BY DEF Commit, Step
<1>. HIDE DEF new
<1>5. /\ work \in [Workers -> Work \cup {Idle}]
      /\ work' \in [Workers -> Work \cup {Idle}]
      /\ work'[w].phase = "index" /\ work'[w].value = work[w].value
      /\ work'[w].subject = work[w].subject
      /\ \A v \in Workers : v # w => work'[v] = work[v]
  BY <1>1, <1>4 DEF IInv, TypeOK, Work
<1>6. TypeOK'
  <2>1. {r.number : r \in requests'} = {r.number : r \in requests} \cup {work[w].value}
    BY <1>3, <1>4
  <2>. QED  BY <1>2, <1>3, <1>4, <1>5, <2>1 DEF IInv, TypeOK, Numbers, CreationAssumption
<1>7. Values'
  BY <1>2, <1>4, <1>5 DEF IInv, Values
<1>8. NumbersDistinct'
  <2>1. \A r \in requests : r.number # new.number
    BY <1>1, <1>3 DEF IInv, NumbersDistinct, Holds
  <2>2. \A q, r \in requests' : q.number = r.number => q = r
    BY <1>4, <2>1 DEF IInv, NumbersDistinct
  <2>3. \A u, v \in Workers :
          work'[u].phase = "commit" /\ work'[v].phase = "commit"
            /\ work'[v].value = work'[u].value => u = v
    BY <1>5 DEF IInv, NumbersDistinct, Holds
  <2>4. \A v \in Workers :
          v # w => ~(work[v].phase = "commit" /\ work[v].value = work[w].value)
    BY <1>1 DEF IInv, NumbersDistinct, Holds
  <2>5. \A v \in Workers, r \in requests' :
          ~(work'[v].phase = "commit" /\ work'[v].value = r.number)
    BY <1>3, <1>4, <1>5, <2>4 DEF IInv, NumbersDistinct, Holds
  <2>. QED  BY <2>2, <2>3, <2>5 DEF NumbersDistinct, Holds
<1>9. Moderated'
  <2>1. SUFFICES ASSUME NEW s \in Subjects, s \notin raced
        PROVE /\ \A u, v \in Workers :
                   work'[u] # Idle /\ work'[v] # Idle
                     /\ work'[u].subject = s /\ work'[v].subject = s => u = v
              /\ \A q, r \in requests' :
                   q.subject = s /\ r.subject = s /\ q.open /\ r.open => q = r
              /\ \A v \in Workers, r \in requests' :
                   ~(/\ work'[v].phase \in Early /\ work'[v].subject = s
                     /\ r.subject = s /\ r.open)
              /\ \A r \in requests' : r.subject = s /\ r.open =>
                   \/ r.number \in found
                   \/ \E v \in Workers :
                        /\ work'[v].phase = "index" /\ work'[v].subject = s
                        /\ work'[v].value = r.number
    BY <1>4 DEF Moderated
  <2>2. work[w] # Idle /\ work[w].phase \in Early
    BY <1>1 DEF Idle, Early
  <2>3. \A u, v \in Workers :
          work'[u] # Idle /\ work'[v] # Idle
            /\ work'[u].subject = s /\ work'[v].subject = s => u = v
    BY <1>5, <2>1, <2>2 DEF IInv, Moderated
  <2>4. \A q, r \in requests' :
          q.subject = s /\ r.subject = s /\ q.open /\ r.open => q = r
    BY <1>3, <1>4, <2>1, <2>2 DEF IInv, Moderated
  <2>5. ASSUME NEW v \in Workers, NEW r \in requests',
               work'[v].phase \in Early, work'[v].subject = s,
               r.subject = s, r.open
        PROVE  FALSE
    <3>1. v # w /\ work'[v] = work[v] /\ work[v] # Idle
      BY <1>5, <2>5 DEF Early, Idle
    <3>2. r # new
      BY <1>3, <2>1, <2>2, <2>5, <3>1 DEF IInv, Moderated
    <3>. QED  BY <1>4, <2>1, <2>5, <3>1, <3>2 DEF IInv, Moderated
  <2>6. ASSUME NEW r \in requests', r.subject = s, r.open
        PROVE  \/ r.number \in found
               \/ \E v \in Workers :
                    /\ work'[v].phase = "index" /\ work'[v].subject = s
                    /\ work'[v].value = r.number
    <3>1. CASE r = new
      BY <1>3, <1>5, <2>6, <3>1
    <3>2. CASE r # new
      BY <1>1, <1>4, <1>5, <2>1, <2>6, <3>2 DEF IInv, Moderated
    <3>. QED  BY <3>1, <3>2
  <2>. QED  BY <2>3, <2>4, <2>5, <2>6
<1>10. LoneRetry'
  <2>1. work[w] # Idle
    BY <1>1 DEF Idle
  <2>2. \A v \in Workers : alone'[v] /\ work'[v] # Idle => v = w
    BY <1>4, <1>5, <2>1, OnlyOne DEF IInv
  <2>. QED  BY <1>4, <1>5, <2>1, <2>2 DEF IInv, LoneRetry
<1>. QED  BY <1>6, <1>7, <1>8, <1>9, <1>10 DEF IInv

\* What ends is idle, and nothing else is said of a worker that is.
LEMMA EndKeeps ==
  ASSUME IInv, NEW w \in Workers, work[w] # Idle, End(w),
         UNCHANGED <<requests, numbers, sequence, alone>>,
         found \subseteq found', found' \subseteq {r.number : r \in requests},
         raced \subseteq raced', raced' \subseteq Subjects,
         \A s \in Subjects \ raced' :
           work[w].phase = "index" /\ work[w].subject = s =>
             \A r \in requests :
               r.open /\ r.number = work[w].value => r.number \in found'
  PROVE  IInv'
<1>1. /\ work \in [Workers -> Work \cup {Idle}]
      /\ work' \in [Workers -> Work \cup {Idle}]
      /\ work'[w] = Idle
      /\ \A v \in Workers : v # w => work'[v] = work[v]
  BY DEF IInv, TypeOK, End
<1>2. Idle.phase = "idle"
  BY DEF Idle
<1>3. TypeOK'
  BY <1>1 DEF IInv, TypeOK
<1>4. Values'
  BY <1>1, <1>2 DEF IInv, Values
<1>5. NumbersDistinct'
  BY <1>1, <1>2 DEF IInv, NumbersDistinct, Holds
<1>6. Moderated'
  <2>1. SUFFICES ASSUME NEW s \in Subjects, s \notin raced'
        PROVE /\ \A u, v \in Workers :
                   work'[u] # Idle /\ work'[v] # Idle
                     /\ work'[u].subject = s /\ work'[v].subject = s => u = v
              /\ \A q, r \in requests :
                   q.subject = s /\ r.subject = s /\ q.open /\ r.open => q = r
              /\ \A v \in Workers, r \in requests :
                   ~(/\ work'[v].phase \in Early /\ work'[v].subject = s
                     /\ r.subject = s /\ r.open)
              /\ \A r \in requests : r.subject = s /\ r.open =>
                   \/ r.number \in found'
                   \/ \E v \in Workers :
                        /\ work'[v].phase = "index" /\ work'[v].subject = s
                        /\ work'[v].value = r.number
    BY DEF Moderated
  <2>2. s \notin raced
    BY <2>1
  <2>3. \A u, v \in Workers :
          work'[u] # Idle /\ work'[v] # Idle
            /\ work'[u].subject = s /\ work'[v].subject = s => u = v
    BY <1>1, <2>1, <2>2 DEF IInv, Moderated
  <2>4. \A q, r \in requests :
          q.subject = s /\ r.subject = s /\ q.open /\ r.open => q = r
    BY <2>1, <2>2 DEF IInv, Moderated
  <2>5. \A v \in Workers, r \in requests :
          ~(/\ work'[v].phase \in Early /\ work'[v].subject = s
            /\ r.subject = s /\ r.open)
    BY <1>1, <1>2, <2>1, <2>2 DEF IInv, Moderated, Early
  <2>6. ASSUME NEW r \in requests, r.subject = s, r.open
        PROVE  \/ r.number \in found'
               \/ \E v \in Workers :
                    /\ work'[v].phase = "index" /\ work'[v].subject = s
                    /\ work'[v].value = r.number
    <3>1. CASE r.number \in found
      BY <3>1
    <3>2. CASE r.number \notin found
      <4>1. PICK v \in Workers : /\ work[v].phase = "index" /\ work[v].subject = s
                                 /\ work[v].value = r.number
        BY <2>1, <2>2, <2>6, <3>2 DEF IInv, Moderated
      <4>2. CASE v = w
        BY <2>1, <2>6, <4>1, <4>2
      <4>3. CASE v # w
        BY <1>1, <4>1, <4>3
      <4>. QED  BY <4>2, <4>3
    <3>. QED  BY <3>1, <3>2
  <2>. QED  BY <2>3, <2>4, <2>5, <2>6
<1>7. LoneRetry'
  BY <1>1 DEF IInv, LoneRetry
<1>. QED  BY <1>3, <1>4, <1>5, <1>6, <1>7 DEF IInv

\* The request of a creation is found before the creation ends.
LEMMA IndexKeeps ==
  ASSUME IInv, NEW w \in Workers, Index(w)
  PROVE  IInv'
<1>1. work[w] # Idle
  BY DEF Index, Idle
<1>. DEFINE now == {r.number : r \in {q \in requests : q.open /\ q.number = work[w].value}}
<1>2. /\ found' = found \cup now /\ End(w)
      /\ UNCHANGED <<requests, numbers, sequence, alone, raced>>
  BY DEF Index
<1>3. now \subseteq {r.number : r \in requests}
  OBVIOUS
<1>4. \A r \in requests : r.open /\ r.number = work[w].value => r.number \in now
  OBVIOUS
<1>. HIDE DEF now
<1>5. found' \subseteq {r.number : r \in requests} /\ raced' \subseteq Subjects
  BY <1>2, <1>3 DEF IInv, TypeOK
<1>. QED  BY <1>1, <1>2, <1>4, <1>5, EndKeeps

\* A creation that dies with its request not indexed marks its user.
LEMMA AbortKeeps ==
  ASSUME IInv, NEW w \in Workers, Abort(w)
  PROVE  IInv'
<1>1. /\ work[w] # Idle /\ End(w)
      /\ UNCHANGED <<requests, numbers, sequence, found, alone>>
      /\ raced' = IF work[w].phase = "index" THEN raced \cup ({work[w].subject} \cap Subjects)
                  ELSE raced
  BY DEF Abort
<1>2. /\ found' = found /\ found \subseteq {r.number : r \in requests}
      /\ raced \subseteq raced' /\ raced' \subseteq Subjects
  BY <1>1 DEF IInv, TypeOK
<1>3. \A s \in Subjects \ raced' : ~(work[w].phase = "index" /\ work[w].subject = s)
  BY <1>1
<1>. QED  BY <1>1, <1>2, <1>3, EndKeeps

-----------------------------------------------------------------------------
(* What others do. *)

\* A request that is closed keeps its number and its subject.
LEMMA CloseKeeps ==
  ASSUME IInv, NEW r \in requests, Close(r)
  PROVE  IInv'
<1>. DEFINE closed == [r EXCEPT !.open = FALSE]
<1>1. /\ closed \in Request /\ closed.number = r.number
      /\ closed.subject = r.subject /\ ~closed.open
  BY DEF IInv, TypeOK, Request
<1>2. /\ requests' = (requests \ {r}) \cup {closed}
      /\ UNCHANGED <<numbers, sequence, found, work, alone, raced>>
  BY DEF Close
<1>. HIDE DEF closed
<1>3. {q.number : q \in requests'} = {q.number : q \in requests}
  BY <1>1, <1>2
<1>4. TypeOK'
  BY <1>1, <1>2, <1>3 DEF IInv, TypeOK
<1>5. Values' /\ LoneRetry'
  BY <1>2 DEF IInv, Values, LoneRetry
<1>6. NumbersDistinct'
  BY <1>1, <1>2 DEF IInv, NumbersDistinct, Holds
<1>7. Moderated'
  <2>1. \A q \in requests' : q.open => q \in requests
    BY <1>1, <1>2
  <2>. QED  BY <1>2, <2>1 DEF IInv, Moderated
<1>. QED  BY <1>4, <1>5, <1>6, <1>7 DEF IInv

\* No open request has the number of a closed one.
LEMMA UnlistKeeps ==
  ASSUME IInv, NEW r \in requests, Unlist(r)
  PROVE  IInv'
<1>1. /\ ~r.open /\ found' = found \ {r.number}
      /\ UNCHANGED <<requests, numbers, sequence, work, alone, raced>>
  BY DEF Unlist
<1>2. TypeOK' /\ Values' /\ LoneRetry' /\ NumbersDistinct'
  BY <1>1 DEF IInv, TypeOK, Values, LoneRetry, NumbersDistinct, Holds
<1>3. \A q \in requests : q.open /\ q.number \in found => q.number \in found'
  BY <1>1 DEF IInv, NumbersDistinct
<1>4. Moderated'
  BY <1>1, <1>3 DEF IInv, Moderated
<1>. QED  BY <1>2, <1>4 DEF IInv

\* A value that is written past the creations is held by none of them.
LEMMA ValueKeeps ==
  ASSUME CreationAssumption, IInv, NEW value \in 1 .. MaxNumber,
         Migrate(value) \/ InsertValue(value)
  PROVE  IInv'
<1>1. /\ numbers' = numbers \cup {value}
      /\ UNCHANGED <<requests, found, work, raced>>
      /\ alone' = [w \in Workers |-> alone[w] /\ work[w] = Idle]
  BY DEF Migrate, InsertValue
<1>2. sequence' \in Nat
  <2>1. CASE Migrate(value)
    BY <2>1 DEF Migrate, IInv, TypeOK
  <2>2. CASE InsertValue(value)
    <3>. DEFINE now == numbers \cup {value}
                m == Max(now)
    <3>1. now \subseteq 1 .. MaxNumber /\ now # {} /\ MaxNumber \in Nat
      BY DEF IInv, Values, CreationAssumption
    <3>2. m \in now
      <4>. HIDE DEF now
      <4>. QED  BY <3>1, LargestNumber
    <3>3. sequence' = m
      BY <2>2 DEF InsertValue
    <3>. HIDE DEF now, m
    <3>. QED  BY <3>1, <3>2, <3>3
  <2>. QED  BY <2>1, <2>2
<1>3. TypeOK'
  BY <1>1, <1>2 DEF IInv, TypeOK, Numbers
<1>4. Values'
  BY <1>1 DEF IInv, Values
<1>5. NumbersDistinct' /\ Moderated'
  BY <1>1 DEF IInv, NumbersDistinct, Holds, Moderated
<1>6. LoneRetry'
  BY <1>1 DEF LoneRetry
<1>. QED  BY <1>3, <1>4, <1>5, <1>6 DEF IInv

-----------------------------------------------------------------------------
(* The invariant and the theorems. *)

\* Nothing is there at the start.
THEOREM InvariantInit == ASSUME CreationAssumption, Init PROVE IInv
<1>1. \A w \in Workers : work[w].phase = "idle" /\ work[w] = Idle
  BY DEF Init, Idle
<1>2. TypeOK
  BY DEF Init, TypeOK
<1>3. Values
  BY <1>1 DEF Init, Values
<1>4. NumbersDistinct /\ Moderated /\ LoneRetry
  BY <1>1 DEF Init, NumbersDistinct, Holds, Moderated, LoneRetry
<1>. QED  BY <1>2, <1>3, <1>4 DEF IInv

\* Every step keeps the invariant (SequenceMixin and the calls that use it).
THEOREM InvariantNext ==
  ASSUME CreationAssumption, IInv, [Next]_vars
  PROVE  IInv'
<1>1. ASSUME NEW w \in Workers, BeginCreate(w) PROVE IInv'
  <2>1. Begin(w, NoSubject) /\ raced' = raced
    BY <1>1 DEF BeginCreate
  <2>. QED  BY <2>1, BeginKeeps
<1>2. ASSUME NEW w \in Workers, NEW s \in Subjects, BeginModeration(w, s)
      PROVE  IInv'
  <2>1. /\ Begin(w, s) /\ ~Exists(s)
        /\ raced' = IF OpenFor(s) = {} THEN raced ELSE raced \cup {s}
    BY <1>2 DEF BeginModeration
  <2>. QED  BY <2>1, BeginKeeps
<1>3. ASSUME NEW w \in Workers,
             \/ Draw(w) \/ Insert(w) \/ Look(w) \/ SetSequence(w)
             \/ Commit(w) \/ Index(w) \/ Abort(w)
      PROVE  IInv'
  BY <1>3, DrawKeeps, InsertKeeps, LookKeeps, SetSequenceKeeps, CommitKeeps,
     IndexKeeps, AbortKeeps
<1>4. ASSUME NEW r \in requests, Close(r) \/ Unlist(r) PROVE IInv'
  BY <1>4, CloseKeeps, UnlistKeeps
<1>5. ASSUME NEW value \in 1 .. MaxNumber, Migrate(value) \/ InsertValue(value)
      PROVE  IInv'
  BY <1>5, ValueKeeps
<1>6. CASE UNCHANGED vars
  BY <1>6 DEF vars, IInv, TypeOK, Values, NumbersDistinct, Holds, Moderated, LoneRetry
<1>. QED  BY <1>1, <1>2, <1>3, <1>4, <1>5, <1>6 DEF Next

\* The invariant holds throughout.
THEOREM Invariant == Spec => []IInv
<1>1. Init => IInv
  BY CreationAssumption, InvariantInit
<1>2. IInv /\ [Next]_vars => IInv'
  BY CreationAssumption, InvariantNext
<1>. QED  BY <1>1, <1>2, PTL DEF Spec

\* Requests, numbers and open creations keep their types, and every request's
\* number is in the table.
THEOREM TypeCorrect == Spec => []TypeOK
<1>1. IInv => TypeOK
  BY DEF IInv
<1>. QED  BY <1>1, Invariant, PTL

\* No two requests get one number, whatever overlaps and wherever the sequence is
\* moved (SequenceMixin.next).
THEOREM NumbersAreDistinct == Spec => []NumbersDistinct
<1>1. IInv => NumbersDistinct
  BY DEF IInv
<1>. QED  BY <1>1, Invariant, PTL

\* A creation that nothing overlaps does not fail for its number: one retry is
\* enough, however far the table is ahead of the sequence.
THEOREM LoneIsNumbered == Spec => []LoneCreationNumbered
<1>1. ASSUME IInv PROVE LoneCreationNumbered
  <2>1. \A w \in Workers : work[w].phase = "failed" => work[w] # Idle
    BY DEF Idle
  <2>. QED  BY <1>1, <2>1 DEF IInv, LoneRetry, LoneCreationNumbered
<1>. QED  BY <1>1, Invariant, PTL

\* One open moderation request per user, unless tasks overlap or die
\* (UserModerationRequestService, IndexRefreshOp).
THEOREM IsModeratedOnce == Spec => []ModeratedOnce
<1>1. ASSUME IInv PROVE ModeratedOnce
  <2>1. SUFFICES ASSUME NEW s \in Subjects \ raced
                 PROVE  Cardinality({r \in requests : r.subject = s /\ r.open}) <= 1
    BY DEF ModeratedOnce
  <2>. DEFINE open == {r \in requests : r.subject = s /\ r.open}
  <2>2. \A q, r \in open : q = r
    BY <1>1, <2>1 DEF IInv, Moderated
  <2>3. CASE open = {}
    BY <2>3, FS_EmptySet
  <2>4. CASE open # {}
    <3>1. PICK r \in open : TRUE
      BY <2>4
    <3>2. open = {r}
      BY <2>2, <3>1
    <3>3. Cardinality({r}) = 1
      BY FS_Singleton
    <3>. QED  BY <3>2, <3>3
  <2>. QED  BY <2>3, <2>4
<1>. QED  BY <1>1, Invariant, PTL

=============================================================================
