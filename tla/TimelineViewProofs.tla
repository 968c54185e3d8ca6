-------------------------- MODULE TimelineViewProofs --------------------------
(***************************************************************************)
(* Proofs about TimelineView, for every size of a page and every number of *)
(* events, calls on the way and failures.                                  *)
(*                                                                         *)
(* Refreshes.  The flag of a refresh is what keeps the next one back.  It  *)
(* is put down by every call that ends, while the calls of buttons leave   *)
(* it alone: the invariant says that no refresh is on the way while it is  *)
(* down.                                                                   *)
(*                                                                         *)
(* Gaps.  The buttons go by neighbours in the list of page numbers, which  *)
(* shows every gap only if the list ascends.  The invariant says what the  *)
(* store and the calls hold, so that pages are numbered from 1, the first  *)
(* one is among them, and a last one exists to put a comment on; and that  *)
(* the numbers ascend until a page has two digits.  The lemmas on order    *)
(* say that numbering the elements of a set by how many come before them   *)
(* gives every one a number and leaves out none: they are what sorting and *)
(* paging rest on.                                                         *)
(***************************************************************************)
EXTENDS TimelineView, FiniteSetTheorems, TLAPS

-----------------------------------------------------------------------------
(* Refreshes. *)

\* The calls of the interval that are on the way.
Refreshes == {s \in Slots : gets[s].phase # "none" /\ gets[s].for = "refresh"}

\* There is one refresh at most, and none while the flag is down.
FlagHolds ==
  edited \/ /\ Refreshes # {} => lastPageRefreshing
            /\ \A s, t \in Refreshes : s = t

\* A call on the way is the interval's or a button's.
OnTheWay ==
  /\ DOMAIN gets = Slots
  /\ \A s \in Slots : gets[s].phase # "none" => gets[s].for \in {"refresh", "more"}

IInv == OnTheWay /\ FlagHolds

\* A step that leaves calls and flag alone, and takes no edit back.
LEMMA OthersKeep ==
  ASSUME IInv, gets' = gets, lastPageRefreshing' = lastPageRefreshing, edited' = edited
  PROVE  IInv'
BY DEF IInv, OnTheWay, FlagHolds, Refreshes

\* The interval asks only while the flag is down, and puts it up.
LEMMA TickKeeps ==
  ASSUME IInv, Tick
  PROVE  IInv'
<1>1. edited' = edited
  BY DEF Tick
<1>2. CASE MayRefresh
  <2>. DEFINE slot == Min({s \in Slots : gets[s] = Free})
              call == [phase |-> "asked", for |-> "refresh", page |-> Last(pageNumbers)]
  <2>1. /\ gets' = [gets EXCEPT ![slot] = call]
        /\ lastPageRefreshing' = TRUE /\ ~lastPageRefreshing
    BY <1>2 DEF Tick, AskPage, MayRefresh
  <2>2. call.for = "refresh"
    OBVIOUS
  <2>. HIDE DEF slot, call
  <2>3. /\ DOMAIN gets' = Slots
        /\ \A s \in Slots : gets'[s] = IF s = slot THEN call ELSE gets[s]
    BY <2>1 DEF IInv, OnTheWay
  <2>4. edited \/ Refreshes = {}
    BY <2>1 DEF IInv, FlagHolds
  <2>5. edited \/ \A s \in Refreshes' : s = slot
    BY <2>3, <2>4 DEF Refreshes
  <2>6. OnTheWay'
    BY <2>2, <2>3 DEF IInv, OnTheWay
  <2>. QED  BY <1>1, <2>1, <2>5, <2>6 DEF IInv, FlagHolds
<1>3. CASE ~MayRefresh
  BY <1>1, <1>3, OthersKeep DEF Tick
<1>. QED  BY <1>2, <1>3

\* A button's call is no refresh.
LEMMA LoadMoreKeeps ==
  ASSUME IInv, NEW page, LoadMore(page)
  PROVE  IInv'
<1>. DEFINE slot == Min({s \in Slots : gets[s] = Free})
            call == [phase |-> "asked", for |-> "more", page |-> page]
<1>1. /\ gets' = [gets EXCEPT ![slot] = call]
      /\ lastPageRefreshing' = lastPageRefreshing /\ edited' = edited
  BY DEF LoadMore, AskPage, store
<1>2. call.for = "more"
  OBVIOUS
<1>. HIDE DEF slot, call
<1>3. DOMAIN gets' = Slots /\ \A s \in Slots : gets'[s] = gets[s] \/ gets'[s] = call
  BY <1>1 DEF IInv, OnTheWay
<1>4. Refreshes' \subseteq Refreshes
  BY <1>2, <1>3 DEF Refreshes
<1>5. OnTheWay'
  BY <1>2, <1>3 DEF IInv, OnTheWay
<1>. QED  BY <1>1, <1>4, <1>5 DEF IInv, FlagHolds

\* An answer or a failure leaves a call what it was.
LEMMA AnswerKeeps ==
  ASSUME IInv, NEW s \in Slots, AnswerPage(s) \/ LosePage(s)
  PROVE  IInv'
<1>1. /\ lastPageRefreshing' = lastPageRefreshing /\ edited' = edited
      /\ DOMAIN gets' = Slots
      /\ \A t \in Slots : t # s => gets'[t] = gets[t]
      /\ gets[s].phase = "asked"
  BY DEF IInv, OnTheWay, AnswerPage, LosePage, store
<1>2. gets'[s].for = gets[s].for
  <2>1. CASE AnswerPage(s)
    BY <2>1 DEF IInv, OnTheWay, AnswerPage
  <2>2. CASE LosePage(s)
    BY <2>2 DEF IInv, OnTheWay, LosePage
  <2>. QED  BY <2>1, <2>2
<1>3. Refreshes' \subseteq Refreshes
  BY <1>1, <1>2 DEF Refreshes
<1>4. OnTheWay'
  BY <1>1, <1>2 DEF IInv, OnTheWay
<1>. QED  BY <1>1, <1>3, <1>4 DEF IInv, FlagHolds

\* The callback of a refresh puts the flag down with the last refresh there is.
LEMMA ReceiveKeeps ==
  ASSUME IInv, NEW s \in Slots, Receive(s)
  PROVE  IInv'
<1>1. /\ gets' = [gets EXCEPT ![s] = Free] /\ edited' = edited
      /\ lastPageRefreshing' = (gets[s].for = "more" /\ lastPageRefreshing)
      /\ gets[s].phase # "none"
  BY DEF Receive
<1>2. /\ DOMAIN gets' = Slots /\ gets'[s].phase = "none"
      /\ \A t \in Slots : t # s => gets'[t] = gets[t]
  BY <1>1 DEF IInv, OnTheWay, Free
<1>3. Refreshes' = Refreshes \ {s}
  BY <1>2 DEF Refreshes
<1>4. OnTheWay'
  BY <1>2 DEF IInv, OnTheWay
<1>5. CASE gets[s].for = "more"
  <2>1. s \notin Refreshes
    BY <1>5 DEF Refreshes
  <2>. QED  BY <1>1, <1>3, <1>4, <1>5, <2>1 DEF IInv, FlagHolds
<1>6. CASE gets[s].for = "refresh"
  <2>1. s \in Refreshes
    BY <1>1, <1>6 DEF Refreshes
  <2>2. edited \/ Refreshes' = {}
    BY <1>3, <2>1 DEF IInv, FlagHolds
  <2>. QED  BY <1>1, <1>4, <2>2 DEF IInv, FlagHolds
<1>. QED  BY <1>1, <1>5, <1>6 DEF IInv, OnTheWay

-----------------------------------------------------------------------------
(* The invariant. *)

\* Nothing is on the way when the page is opened.
LEMMA InitHolds ==
  ASSUME Init
  PROVE  IInv
BY DEF Init, Free, IInv, OnTheWay, FlagHolds, Refreshes

\* Every step keeps the invariant, one that does nothing included.
LEMMA NextKeeps ==
  ASSUME IInv, [Next]_vars
  PROVE  IInv'
<1>1. CASE UNCHANGED vars
  BY <1>1, OthersKeep DEF vars, store
<1>2. CASE FirstLoad
  BY <1>2, OthersKeep DEF FirstLoad, FetchFirst, FetchLast, FetchFocused, FailFirstLoad,
                          Proceed, Loaded, store
<1>3. CASE Submit \/ AnswerSubmit \/ LoseSubmit \/ Submitted \/ NotSubmitted
  BY <1>3, OthersKeep DEF Submit, AnswerSubmit, LoseSubmit, Submitted, NotSubmitted, store
<1>4. CASE Post \/ \E e \in Events : Find(e)
  BY <1>4, OthersKeep DEF Post, Find, store
<1>5. CASE EditComment
  BY <1>5 DEF EditComment, IInv, OnTheWay, FlagHolds
<1>. QED  BY <1>1, <1>2, <1>3, <1>4, <1>5, TickKeeps, LoadMoreKeeps, AnswerKeeps,
             ReceiveKeeps DEF Next

\* Until a comment is edited there is one refresh at most on the way, whatever
\* calls for other pages, own comments and failures come between.
THEOREM RefreshesInTurn == Spec => []OneRefresh
<1>1. Init => IInv
  BY InitHolds
<1>2. IInv /\ [Next]_vars => IInv'
  BY NextKeeps
<1>3. ASSUME IInv  PROVE OneRefresh
  <2>. SUFFICES ASSUME ~edited  PROVE Cardinality(Refreshes) <= 1
    BY DEF OneRefresh, Refreshes
  <2>1. Refreshes = {} \/ \E s \in Refreshes : Refreshes = {s}
    BY <1>3 DEF IInv, FlagHolds
  <2>2. Cardinality(Refreshes) \in {0, 1}
    BY <2>1, FS_EmptySet, FS_Singleton
  <2>. QED  BY <2>2
<1>4. IInv => OneRefresh
  BY <1>3
<1>. QED  BY <1>1, <1>2, <1>4, PTL DEF Spec

-----------------------------------------------------------------------------
(* Order: what numbering the elements of a set comes to. *)

\* The elements of S that R puts before x.
Below(S, R, x) == {y \in S : <<y, x>> \in R}

\* R orders S, strictly and totally.
Orders(R, S) ==
  /\ \A x \in S : <<x, x>> \notin R
  /\ \A x, y, z \in S : <<x, y>> \in R /\ <<y, z>> \in R => <<x, z>> \in R
  /\ \A x, y \in S : x # y => <<x, y>> \in R \/ <<y, x>> \in R

\* Whatever orders a finite set gives every element a number of its own, from 0
\* upwards, and leaves out none.
LEMMA Numbering ==
  ASSUME NEW S, IsFiniteSet(S), NEW R, Orders(R, S)
  PROVE  /\ Cardinality(S) \in Nat
         /\ \A x \in S : Cardinality(Below(S, R, x)) \in 0 .. Cardinality(S) - 1
         /\ \A x, y \in S :
              <<x, y>> \in R <=> Cardinality(Below(S, R, x)) < Cardinality(Below(S, R, y))
         /\ \A k \in 0 .. Cardinality(S) - 1 :
              \E x \in S : Cardinality(Below(S, R, x)) = k
<1>. DEFINE n == Cardinality(S)
            rank(x) == Cardinality(Below(S, R, x))
<1>1. n \in Nat
  BY FS_CardinalityType
<1>2. \A x \in S : Below(S, R, x) \in SUBSET S /\ IsFiniteSet(Below(S, R, x))
  BY FS_Subset DEF Below
<1>3. \A x \in S : rank(x) \in Nat
  BY <1>2, FS_CardinalityType
<1>4. ASSUME NEW x \in S  PROVE rank(x) < n
  <2>1. x \notin Below(S, R, x)
    BY DEF Below, Orders
  <2>2. rank(x) <= n /\ rank(x) # n
    BY <1>2, <2>1, FS_Subset
  <2>. QED  BY <1>1, <1>3, <2>2
<1>5. ASSUME NEW x \in S, NEW y \in S, <<x, y>> \in R  PROVE rank(x) < rank(y)
  <2>1. Below(S, R, x) \in SUBSET Below(S, R, y)
    BY <1>5 DEF Below, Orders
  <2>2. x \in Below(S, R, y) /\ x \notin Below(S, R, x)
    BY <1>5 DEF Below, Orders
  <2>3. rank(x) <= rank(y) /\ rank(x) # rank(y)
    BY <1>2, <2>1, <2>2, FS_Subset
  <2>. QED  BY <1>3, <2>3
<1>6. ASSUME NEW x \in S, NEW y \in S, rank(x) < rank(y)  PROVE <<x, y>> \in R
  <2>1. x # y /\ <<y, x>> \notin R
    BY <1>3, <1>5, <1>6
  <2>. QED  BY <2>1 DEF Orders
<1>7. \A k \in 0 .. n - 1 : \E x \in S : rank(x) = k
  <2>. DEFINE f == [x \in S |-> rank(x)]
  <2>1. f \in [S -> 0 .. n - 1]
    BY <1>1, <1>3, <1>4
  <2>2. \A x, y \in S : f[x] = f[y] => x = y
    <3>1. ASSUME NEW x \in S, NEW y \in S, rank(x) = rank(y), x # y  PROVE FALSE
      <4>1. rank(x) < rank(y) \/ rank(y) < rank(x)
        BY <1>5, <3>1 DEF Orders
      <4>. QED  BY <1>3, <3>1, <4>1
    <3>. QED  BY <3>1
  <2>3. f \in Injection(S, 0 .. n - 1)
    BY <2>1, <2>2 DEF Injection, IsInjective
  <2>4. IsFiniteSet(0 .. n - 1) /\ Cardinality(0 .. n - 1) = n
    BY <1>1, FS_Interval
  <2>5. f \in Surjection(S, 0 .. n - 1)
    <3>. HIDE DEF f
    <3>. QED BY <2>3, <2>4, FS_Injection
  <2>. QED  BY <2>5 DEF Surjection
<1>. QED  BY <1>1, <1>3, <1>4, <1>5, <1>6, <1>7

\* Every element of the sequence stands after as many of S as R puts before it.
Numbered(s, S, R) ==
  /\ s \in [1 .. Cardinality(S) -> S]
  /\ \A k \in 1 .. Cardinality(S) : Cardinality(Below(S, R, s[k])) = k - 1

\* The sequence holds the elements of S, each once, in the order of R.
InOrder(s, S, R) ==
  /\ s \in Seq(S) /\ Len(s) = Cardinality(S)
  /\ Range(s) = S /\ IsInjective(s)
  /\ \A i, j \in DOMAIN s : i < j <=> <<s[i], s[j]>> \in R

\* Numbering the elements of a finite set is to put them in order.
LEMMA OrderedRight ==
  ASSUME NEW S, IsFiniteSet(S), NEW R, Orders(R, S), NEW s, Numbered(s, S, R)
  PROVE  InOrder(s, S, R)
<1>0. /\ s \in [1 .. Cardinality(S) -> S]
      /\ \A k \in 1 .. Cardinality(S) : Cardinality(Below(S, R, s[k])) = k - 1
  BY DEF Numbered
<1>. DEFINE n == Cardinality(S)
            rank(x) == Cardinality(Below(S, R, x))
<1>1. n \in Nat /\ DOMAIN s = 1 .. n
  BY <1>0, Numbering
<1>2. s \in Seq(S) /\ Len(s) = n
  BY <1>0, <1>1
<1>3. \A i, j \in 1 .. n : i < j <=> <<s[i], s[j]>> \in R
  <2>. SUFFICES ASSUME NEW i \in 1 .. n, NEW j \in 1 .. n
                PROVE  i < j <=> <<s[i], s[j]>> \in R
    OBVIOUS
  <2>1. <<s[i], s[j]>> \in R <=> rank(s[i]) < rank(s[j])
    BY <1>0, Numbering
  <2>2. rank(s[i]) = i - 1 /\ rank(s[j]) = j - 1 /\ i \in Int /\ j \in Int
    BY <1>0
  <2>. HIDE DEF rank
  <2>. QED  BY <2>1, <2>2
<1>4. IsInjective(s)
  <2>. SUFFICES ASSUME NEW i \in 1 .. n, NEW j \in 1 .. n, s[i] = s[j]
                PROVE  i = j
    BY <1>1 DEF IsInjective
  <2>1. i - 1 = j - 1
    BY <1>0
  <2>. QED  BY <2>1
<1>5. \A x \in S : \E k \in 1 .. n : s[k] = x
  <2>. SUFFICES ASSUME NEW x \in S  PROVE \E k \in 1 .. n : s[k] = x
    OBVIOUS
  <2>1. rank(x) \in 0 .. n - 1
    BY Numbering
  <2>2. rank(x) + 1 \in 1 .. n /\ (rank(x) + 1) - 1 = rank(x)
    BY <1>1, <2>1
  <2>. DEFINE y == s[rank(x) + 1]
  <2>3. y \in S /\ rank(y) = rank(x)
    BY <1>0, <2>2
  <2>4. <<x, y>> \notin R /\ <<y, x>> \notin R
    BY <2>1, <2>3, Numbering
  <2>. QED  BY <2>2, <2>3, <2>4 DEF Orders
<1>6. Range(s) = S
  BY <1>0, <1>1, <1>5 DEF Range
<1>. QED  BY <1>1, <1>2, <1>3, <1>4, <1>6 DEF InOrder

\* Sorted page numbers are the same numbers, each once, ascending.
LEMMA SortedRight ==
  ASSUME NEW S \in SUBSET Nat, IsFiniteSet(S)
  PROVE  /\ Sorted(S) \in Seq(S) /\ Len(Sorted(S)) = Cardinality(S)
         /\ Range(Sorted(S)) = S /\ IsInjective(Sorted(S))
         /\ \A i, j \in DOMAIN Sorted(S) : i < j <=> Sorted(S)[i] < Sorted(S)[j]
<1>. DEFINE R == {r \in S \X S : r[1] < r[2]}
            s == Sorted(S)
            n == Cardinality(S)
<1>1. \A x, y : <<x, y>> \in R <=> x \in S /\ y \in S /\ x < y
  OBVIOUS
<1>. HIDE DEF R
<1>2. Orders(R, S)
  BY <1>1 DEF Orders
<1>3. \A x \in S : Below(S, R, x) = {q \in S : q < x}
  BY <1>1 DEF Below
<1>4. n \in Nat /\ \A k \in 0 .. n - 1 : \E x \in S : Cardinality({q \in S : q < x}) = k
  <2>1. \A x \in S : Cardinality(Below(S, R, x)) = Cardinality({q \in S : q < x})
    BY <1>3
  <2>2. n \in Nat /\ \A k \in 0 .. n - 1 : \E x \in S : Cardinality(Below(S, R, x)) = k
    BY <1>2, Numbering
  <2>. QED  BY <2>1, <2>2
<1>5. s = [k \in 1 .. n |-> CHOOSE p \in S : Cardinality({q \in S : q < p}) = k - 1]
  BY DEF Sorted, Ordered
<1>. HIDE DEF s, n
<1>6. \A k \in 1 .. n : s[k] \in S /\ Cardinality({q \in S : q < s[k]}) = k - 1
  <2>. SUFFICES ASSUME NEW k \in 1 .. n
                PROVE  s[k] \in S /\ Cardinality({q \in S : q < s[k]}) = k - 1
    OBVIOUS
  <2>1. k - 1 \in 0 .. n - 1
    BY <1>4
  <2>2. \E p \in S : Cardinality({q \in S : q < p}) = k - 1
    BY <1>4, <2>1
  <2>3. s[k] = CHOOSE p \in S : Cardinality({q \in S : q < p}) = k - 1
    BY <1>5
  <2>. QED  BY <2>2, <2>3, Zenon
<1>7. s \in [1 .. Cardinality(S) -> S]
  BY <1>5, <1>6 DEF n
<1>8. \A k \in 1 .. Cardinality(S) : Cardinality(Below(S, R, s[k])) = k - 1
  BY <1>3, <1>6 DEF n
<1>9. Numbered(s, S, R)
  BY <1>7, <1>8 DEF Numbered
<1>10. InOrder(s, S, R)
  BY <1>2, <1>9, OrderedRight
<1>. QED  BY <1>1, <1>7, <1>10 DEF s, InOrder

\* First digits order the numbers, and numbers of one first digit go by size.
LEMMA StringsOrder ==
  ASSUME NEW p \in Nat
  PROVE  Digits(p)[1] \in Nat /\ (p < 10 => Digits(p)[1] = p)
BY DEF Digits

\* Page numbers sorted as strings are the same numbers, each once; while they have
\* one digit, ascending.
LEMMA SortedAsStringsRight ==
  ASSUME NEW S \in SUBSET Nat, IsFiniteSet(S)
  PROVE  LET s == SortedAsStrings(S) IN
         /\ s \in Seq(S) /\ Len(s) = Cardinality(S)
         /\ Range(s) = S /\ IsInjective(s)
         /\ (\A p \in S : p < 10) => \A i, j \in DOMAIN s : i < j <=> s[i] < s[j]
<1>. DEFINE R == {r \in S \X S : BeforeAsString(r[1], r[2])}
            s == SortedAsStrings(S)
            n == Cardinality(S)
<1>1. \A x, y : <<x, y>> \in R <=> x \in S /\ y \in S /\ BeforeAsString(x, y)
  OBVIOUS
<1>. HIDE DEF R
<1>2. \A x, y \in Nat : BeforeAsString(x, y) <=>
        \/ Digits(x)[1] < Digits(y)[1]
        \/ Digits(x)[1] = Digits(y)[1] /\ x < y
  BY DEF BeforeAsString
<1>3. Orders(R, S)
  <2>1. \A x \in S : <<x, x>> \notin R
    BY <1>1, <1>2, StringsOrder
  <2>2. \A x, y, z \in S : <<x, y>> \in R /\ <<y, z>> \in R => <<x, z>> \in R
    <3>. SUFFICES ASSUME NEW x \in S, NEW y \in S, NEW z \in S,
                         BeforeAsString(x, y), BeforeAsString(y, z)
                  PROVE  BeforeAsString(x, z)
      BY <1>1
    <3>1. /\ Digits(x)[1] \in Nat /\ Digits(y)[1] \in Nat /\ Digits(z)[1] \in Nat
          /\ x \in Nat /\ y \in Nat /\ z \in Nat
      BY StringsOrder
    <3>. QED  BY <1>2, <3>1
  <2>3. \A x, y \in S : x # y => <<x, y>> \in R \/ <<y, x>> \in R
    <3>. SUFFICES ASSUME NEW x \in S, NEW y \in S, x # y
                  PROVE  BeforeAsString(x, y) \/ BeforeAsString(y, x)
      BY <1>1
    <3>1. Digits(x)[1] \in Nat /\ Digits(y)[1] \in Nat /\ x \in Nat /\ y \in Nat
      BY StringsOrder
    <3>. QED  BY <1>2, <3>1
  <2>. QED  BY <2>1, <2>2, <2>3 DEF Orders
<1>4. \A x \in S : Below(S, R, x) = {q \in S : BeforeAsString(q, x)}
  BY <1>1 DEF Below
<1>5. n \in Nat
      /\ \A k \in 0 .. n - 1 : \E x \in S : Cardinality({q \in S : BeforeAsString(q, x)}) = k
  <2>1. \A x \in S : Cardinality(Below(S, R, x)) = Cardinality({q \in S : BeforeAsString(q, x)})
    BY <1>4
  <2>2. n \in Nat /\ \A k \in 0 .. n - 1 : \E x \in S : Cardinality(Below(S, R, x)) = k
    BY <1>3, Numbering
  <2>. QED  BY <2>1, <2>2
<1>6. s = [k \in 1 .. n |-> CHOOSE p \in S : Cardinality({q \in S : BeforeAsString(q, p)}) = k - 1]
  BY DEF SortedAsStrings, Ordered
<1>. HIDE DEF s, n
<1>7. \A k \in 1 .. n : s[k] \in S /\ Cardinality({q \in S : BeforeAsString(q, s[k])}) = k - 1
  <2>. SUFFICES ASSUME NEW k \in 1 .. n
                PROVE  s[k] \in S /\ Cardinality({q \in S : BeforeAsString(q, s[k])}) = k - 1
    OBVIOUS
  <2>1. k - 1 \in 0 .. n - 1
    BY <1>5
  <2>2. \E p \in S : Cardinality({q \in S : BeforeAsString(q, p)}) = k - 1
    BY <1>5, <2>1
  <2>3. s[k] = CHOOSE p \in S : Cardinality({q \in S : BeforeAsString(q, p)}) = k - 1
    BY <1>6
  <2>. QED  BY <2>2, <2>3, Zenon
<1>8. s \in [1 .. Cardinality(S) -> S]
  BY <1>6, <1>7 DEF n
<1>9. \A k \in 1 .. Cardinality(S) : Cardinality(Below(S, R, s[k])) = k - 1
  BY <1>4, <1>7 DEF n
<1>10. Numbered(s, S, R) /\ InOrder(s, S, R)
  <2>1. Numbered(s, S, R)
    BY <1>8, <1>9 DEF Numbered
  <2>. QED  BY <1>3, <2>1, OrderedRight
<1>11. ASSUME \A p \in S : p < 10, NEW i \in DOMAIN s, NEW j \in DOMAIN s
       PROVE  i < j <=> s[i] < s[j]
  <2>1. s[i] \in S /\ s[j] \in S
    BY <1>8
  <2>2. Digits(s[i])[1] = s[i] /\ Digits(s[j])[1] = s[j] /\ s[i] \in Nat /\ s[j] \in Nat
    BY <1>11, <2>1, StringsOrder
  <2>3. <<s[i], s[j]>> \in R <=> s[i] < s[j]
    BY <1>1, <1>2, <2>1, <2>2
  <2>. QED  BY <1>10, <2>3 DEF InOrder
<1>. QED  BY <1>10, <1>11 DEF s, InOrder

\* An event has a place of its own in the list, and no place is left out.
LEMMA PlacesTaken ==
  ASSUME NEW n \in Nat, found \subseteq 1 .. n
  PROVE  /\ IsFiniteSet(found) /\ Cardinality(found) \in 0 .. n
         /\ \A e \in found : Place(e) \in 1 .. Cardinality(found)
         /\ \A k \in 1 .. Cardinality(found) : \E e \in found : Place(e) = k
<1>1. IsFiniteSet(1 .. n) /\ Cardinality(1 .. n) = n
  BY FS_Interval
<1>2. IsFiniteSet(found) /\ Cardinality(found) \in 0 .. n
  <2>1. found \in SUBSET (1 .. n)
    OBVIOUS
  <2>2. IsFiniteSet(found) /\ Cardinality(found) <= n
    BY <1>1, <2>1, FS_Subset
  <2>. QED  BY <2>2, FS_CardinalityType
<1>. DEFINE R == {r \in found \X found : r[1] < r[2]}
            c == Cardinality(found)
<1>3. \A x, y : <<x, y>> \in R <=> x \in found /\ y \in found /\ x < y
  OBVIOUS
<1>. HIDE DEF R
<1>4. Orders(R, found)
  BY <1>3 DEF Orders
<1>5. ASSUME NEW e \in found  PROVE Place(e) = Cardinality(Below(found, R, e)) + 1
  <2>1. {d \in found : d <= e} = Below(found, R, e) \cup {e} /\ e \notin Below(found, R, e)
    <3>1. \A d \in found : d \in Nat
      OBVIOUS
    <3>2. \A d \in found : d <= e <=> d < e \/ d = e
      BY <3>1
    <3>3. \A d : d \in Below(found, R, e) <=> d \in found /\ d < e
      BY <1>3 DEF Below
    <3>4. e \notin Below(found, R, e)
      BY <3>1, <3>3
    <3>5. \A d : d \in {b \in found : b <= e} <=> d \in Below(found, R, e) \cup {e}
      BY <3>2, <3>3
    <3>. QED  BY <3>4, <3>5, Zenon
  <2>2. IsFiniteSet(Below(found, R, e))
    BY <1>2, FS_Subset DEF Below
  <2>. QED  BY <2>1, <2>2, FS_AddElement DEF Place
<1>6. /\ \A e \in found : Cardinality(Below(found, R, e)) \in 0 .. c - 1
      /\ \A k \in 0 .. c - 1 : \E e \in found : Cardinality(Below(found, R, e)) = k
  BY <1>2, <1>4, Numbering
<1>7. ASSUME NEW k \in 1 .. c  PROVE \E e \in found : Place(e) = k
  <2>1. PICK e \in found : Cardinality(Below(found, R, e)) = k - 1
    BY <1>2, <1>6
  <2>2. Place(e) = k
    BY <1>5, <2>1
  <2>. QED  BY <2>2
<1>8. ASSUME NEW e \in found  PROVE Place(e) \in 1 .. c
  BY <1>2, <1>5, <1>6
<1>. QED  BY <1>2, <1>7, <1>8

\* A page that the service answers holds events that have been posted.
LEMMA AnswerRight ==
  ASSUME NEW n \in Nat, found \subseteq 1 .. n, NEW page \in Nat \ {0}, ViewAssumption
  PROVE  Answer(page) \in Seq(1 .. n)
<1>. DEFINE first == (page - 1) * Size
            c     == Cardinality(found)
            rest  == IF c > first THEN c - first ELSE 0
            count == Min({Size, rest})
<1>1. c \in Nat /\ Size \in Nat /\ page - 1 \in Nat
  BY PlacesTaken DEF ViewAssumption
<1>2. first \in Nat
  BY <1>1
<1>. HIDE DEF first
<1>3. rest \in Nat
  BY <1>1, <1>2
<1>4. count \in {Size, rest} /\ count <= Size /\ count <= rest
  <2>. HIDE DEF rest
  <2>1. \E x \in {Size, rest} : \A y \in {Size, rest} : x =< y
    BY <1>1, <1>3
  <2>2. count \in {Size, rest} /\ \A y \in {Size, rest} : count =< y
    BY <2>1 DEF Min
  <2>. QED  BY <2>2
<1>5. count \in Nat
  BY <1>1, <1>3, <1>4
<1>6. \A k \in 1 .. count : first + k \in 1 .. c
  BY <1>1, <1>2, <1>4, <1>5
<1>7. Answer(page) = [k \in 1 .. count |-> CHOOSE e \in found : Place(e) = first + k]
  BY DEF Answer, first
<1>. HIDE DEF count, c
<1>8. \A k \in 1 .. count : (CHOOSE e \in found : Place(e) = first + k) \in found
  BY <1>6, PlacesTaken DEF c
<1>9. Answer(page) \in [1 .. count -> 1 .. n]
  BY <1>7, <1>8
<1>. QED  BY <1>5, <1>9

\* Pages of a positive size: some for something.
LEMMA CeilDivRight ==
  ASSUME NEW n \in Nat, ViewAssumption
  PROVE  CeilDiv(n) \in Nat /\ (n > 0 => CeilDiv(n) \in Nat \ {0})
<1>1. Size \in Nat \ {0} /\ n + Size - 1 \in Nat
  BY DEF ViewAssumption
<1>2. \A m \in Nat, d \in Nat \ {0} : m \div d \in Nat /\ (m >= d => m \div d >= 1)
  OBVIOUS
<1>. QED  BY <1>1, <1>2 DEF CeilDiv

-----------------------------------------------------------------------------
(* What the variables hold. *)

Positive == Nat \ {0}

\* Loaded pages: the first one is among them, and what they hold has been posted.
Pages(pages, n) ==
  /\ DOMAIN pages \in SUBSET Positive /\ IsFiniteSet(DOMAIN pages)
  /\ 1 \in DOMAIN pages
  /\ \A p \in DOMAIN pages : pages[p] \in Seq(1 .. n)

Asked == [phase: {"asked", "failed"}, for: {"refresh", "more"}, page: Positive]
Answered(n) == [phase: {"answered"}, for: {"refresh", "more"}, page: Positive,
                hits: Seq(1 .. n)]

ServiceRight ==
  /\ opened \in Preloaded /\ posted \in opened .. opened + MaxPosts
  /\ found \subseteq 1 .. posted
  /\ faults \in 0 .. MaxFaults

FlagsRight ==
  /\ initialLoading \in BOOLEAN /\ lastPageRefreshing \in BOOLEAN
  /\ submitting \in BOOLEAN /\ error \in BOOLEAN /\ timer \in BOOLEAN
  /\ edited \in BOOLEAN

HitsRight ==
  /\ hits = <<>> \/ Pages(hits, posted)
  /\ pageNumbers \in Seq(DOMAIN hits)
  /\ Range(pageNumbers) = DOMAIN hits /\ IsInjective(pageNumbers)

\* Nothing is asked for or submitted before pages are loaded.
LoadedFirst ==
  /\ initialLoading => hits = <<>>
  /\ hits = <<>> => /\ initialLoading \/ error
                    /\ submit = Free /\ \A s \in Slots : gets[s] = Free

CallsRight == gets \in [Slots -> {Free} \cup Asked \cup Answered(posted)]

\* A comment that is answered has been posted and is not counted yet.
SubmitRight ==
  /\ \/ submit \in {Free, [phase |-> "asked"], [phase |-> "failed"]}
     \/ submit \in [phase: {"answered"}, event: 1 .. posted]
  /\ totalHits \in Nat
  /\ totalHits + (IF submit.phase = "answered" THEN 1 ELSE 0) <= posted

InitialRight ==
  /\ initialLoading <=> initial # Free
  /\ initial # Free =>
       /\ initial = [phase |-> initial.phase, focus |-> initial.focus,
                     pages |-> initial.pages, total |-> initial.total]
       /\ initial.phase \in {"first", "last", "focus"}
       /\ initial.focus \in {0} \cup found
       /\ initial.total \in 0 .. posted
       /\ IF initial.phase = "first" THEN initial.pages = <<>>
          ELSE Pages(initial.pages, posted)
       /\ initial.phase = "last" => CeilDiv(initial.total) > 1
       /\ initial.phase = "focus" => initial.focus # 0

ViewRight ==
  /\ ServiceRight /\ FlagsRight /\ HitsRight /\ LoadedFirst
  /\ CallsRight /\ SubmitRight /\ InitialRight

\* While no page has two digits, the page numbers ascend.
Ascending ==
  OneDigit => \A i, j \in DOMAIN pageNumbers : i < j <=> pageNumbers[i] < pageNumbers[j]

\* More events do no harm to what has been loaded.
LEMMA MorePosted ==
  ASSUME NEW n \in Nat, NEW m \in Nat, n <= m
  PROVE  /\ \A s : s \in Seq(1 .. n) => s \in Seq(1 .. m)
         /\ \A pages : Pages(pages, n) => Pages(pages, m)
         /\ \A get : get \in Answered(n) => get \in Answered(m)
<1>1. \A s : s \in Seq(1 .. n) => s \in Seq(1 .. m)
  <2>. SUFFICES ASSUME NEW s \in Seq(1 .. n)  PROVE s \in Seq(1 .. m)
    OBVIOUS
  <2>1. 1 .. n \subseteq 1 .. m
    OBVIOUS
  <2>. QED  BY <2>1
<1>2. \A pages : Pages(pages, n) => Pages(pages, m)
  BY <1>1 DEF Pages
<1>3. \A get : get \in Answered(n) => get \in Answered(m)
  BY <1>1 DEF Answered
<1>. QED  BY <1>1, <1>2, <1>3

\* A page more.
LEMMA WithPageRight ==
  ASSUME NEW n \in Nat, NEW pages, NEW page \in Positive, NEW events \in Seq(1 .. n),
         Pages(pages, n) \/ (pages = <<>> /\ page = 1)
  PROVE  /\ Pages(WithPage(pages, page, events), n)
         /\ DOMAIN WithPage(pages, page, events) = DOMAIN pages \cup {page}
<1>. DEFINE more == WithPage(pages, page, events)
<1>1. more = [p \in DOMAIN pages \cup {page} |-> IF p = page THEN events ELSE pages[p]]
  BY DEF WithPage
<1>. HIDE DEF more
<1>2. DOMAIN more = DOMAIN pages \cup {page} /\ 1 \in DOMAIN more
  BY <1>1 DEF Pages
<1>3. DOMAIN pages \in SUBSET Positive /\ IsFiniteSet(DOMAIN pages)
  <2>1. CASE pages = <<>>
    <3>1. DOMAIN pages = {}
      BY <2>1
    <3>. QED  BY <3>1, FS_EmptySet
  <2>. QED  BY <2>1 DEF Pages
<1>4. DOMAIN more \in SUBSET Positive /\ IsFiniteSet(DOMAIN more)
  BY <1>2, <1>3, FS_AddElement
<1>5. \A p \in DOMAIN more : more[p] \in Seq(1 .. n)
  <2>1. CASE pages = <<>>
    <3>1. DOMAIN pages = {}
      BY <2>1
    <3>. QED  BY <1>1, <3>1
  <2>2. CASE Pages(pages, n)
    <3>1. \A p \in DOMAIN pages : pages[p] \in Seq(1 .. n)
      BY <2>2 DEF Pages
    <3>. QED  BY <1>1, <3>1
  <2>. QED  BY <2>1, <2>2
<1>6. Pages(more, n)
  BY <1>2, <1>4, <1>5 DEF Pages
<1>. QED  BY <1>2, <1>6 DEF more

\* A set of pages has a largest and, above any number, a smallest one.
LEMMA PagesBounded ==
  ASSUME NEW S \in SUBSET Nat, IsFiniteSet(S), S # {}
  PROVE  /\ Max(S) \in S /\ \A p \in S : Max(S) >= p
         /\ \E q \in S : \A p \in S : q <= p
<1>. DEFINE s == Sorted(S)
            n == Cardinality(S)
<1>1. /\ s \in Seq(S) /\ Len(s) = n /\ Range(s) = S
      /\ \A i, j \in DOMAIN s : i < j <=> s[i] < s[j]
  BY SortedRight
<1>. HIDE DEF s
<1>2. n \in Nat /\ n # 0
  BY FS_CardinalityType, FS_EmptySet
<1>. HIDE DEF n
<1>3. DOMAIN s = 1 .. n /\ 1 \in 1 .. n /\ n \in 1 .. n
  BY <1>1, <1>2
<1>4. \A i \in 1 .. n : s[i] \in S
  BY <1>1, <1>3
<1>5. \A p \in S : \E i \in 1 .. n : s[i] = p
  BY <1>1, <1>3 DEF Range
<1>6. \A i \in 1 .. n : s[i] <= s[n] /\ s[1] <= s[i]
  <2>. SUFFICES ASSUME NEW i \in 1 .. n  PROVE s[i] <= s[n] /\ s[1] <= s[i]
    OBVIOUS
  <2>1. (i < n <=> s[i] < s[n]) /\ (1 < i <=> s[1] < s[i])
    BY <1>1, <1>3
  <2>2. s[i] \in Nat /\ s[n] \in Nat /\ s[1] \in Nat
    BY <1>3, <1>4
  <2>3. (i = n \/ i < n) /\ (i = 1 \/ 1 < i)
    BY <1>2
  <2>. QED  BY <2>1, <2>2, <2>3
<1>7. \A p \in S : p <= s[n] /\ s[1] <= p
  BY <1>5, <1>6
<1>8. s[n] \in S /\ s[1] \in S
  BY <1>3, <1>4
<1>9. Max(S) \in S /\ \A p \in S : Max(S) >= p
  <2>1. \A p \in S : s[n] >= p
    BY <1>4, <1>7, <1>8
  <2>. QED  BY <1>8, <2>1 DEF Max
<1>. QED  BY <1>7, <1>8, <1>9

-----------------------------------------------------------------------------
(* Steps that leave the store or parts of it alone. *)

LEMMA Numbers ==
  ASSUME ViewRight, ViewAssumption
  PROVE  /\ opened \in Nat /\ posted \in Nat /\ MaxPosts \in Nat /\ faults \in Nat
         /\ MaxFaults \in Nat /\ Size \in Nat \ {0}
         /\ totalHits \in Nat
BY DEF ViewRight, ServiceRight, SubmitRight, ViewAssumption

\* When there are more events, what was loaded, asked for and got stays right.
LEMMA MoreEvents ==
  ASSUME ViewRight, ViewAssumption, ServiceRight', posted <= posted', found \subseteq found',
         UNCHANGED <<hits, pageNumbers, initialLoading, initial, gets>>
  PROVE  HitsRight' /\ CallsRight' /\ InitialRight'
<1>1. posted \in Nat /\ posted' \in Nat
  BY Numbers DEF ServiceRight, ViewAssumption
<1>2. HitsRight'
  <2>1. hits = <<>> \/ Pages(hits, posted')
    BY <1>1, MorePosted DEF ViewRight, HitsRight
  <2>. QED  BY <2>1 DEF ViewRight, HitsRight
<1>3. CallsRight'
  <2>1. \A s \in Slots : gets[s] \in {Free} \cup Asked \cup Answered(posted')
    BY <1>1, MorePosted DEF ViewRight, CallsRight
  <2>. QED  BY <2>1 DEF ViewRight, CallsRight
<1>4. InitialRight'
  <2>. SUFFICES ASSUME initial # Free  PROVE InitialRight'
    BY DEF ViewRight, InitialRight
  <2>1. initial.focus \in {0} \cup found'
    BY DEF ViewRight, InitialRight
  <2>2. initial.total \in 0 .. posted'
    BY <1>1 DEF ViewRight, InitialRight
  <2>3. IF initial.phase = "first" THEN initial.pages = <<>>
        ELSE Pages(initial.pages, posted')
    BY <1>1, MorePosted DEF ViewRight, InitialRight
  <2>. QED  BY <2>1, <2>2, <2>3 DEF ViewRight, InitialRight, CeilDiv
<1>. QED  BY <1>2, <1>3, <1>4

\* Others post, searches find.
LEMMA ServiceKeeps ==
  ASSUME ViewRight, ViewAssumption, Post \/ \E e \in Events : Find(e)
  PROVE  ViewRight'
<1>1. /\ UNCHANGED <<opened, faults, store, timer, initial, gets, submit, edited>>
      /\ \/ posted' = posted + 1 /\ found' = found /\ posted < opened + MaxPosts
         \/ posted' = posted /\ \E e \in 1 .. posted : found' = found \cup {e}
  BY DEF Post, Find
<1>2. posted \in Nat /\ opened \in Nat /\ MaxPosts \in Nat /\ totalHits \in Nat
  BY Numbers
<1>3. posted' \in opened .. opened + MaxPosts /\ posted <= posted'
  BY <1>1, <1>2 DEF ViewRight, ServiceRight
<1>4. found' \subseteq 1 .. posted' /\ found \subseteq found'
  <2>1. 1 .. posted \subseteq 1 .. posted'
    BY <1>2, <1>3
  <2>2. found \subseteq 1 .. posted
    BY DEF ViewRight, ServiceRight
  <2>3. found' = found \/ \E e \in 1 .. posted : found' = found \cup {e}
    BY <1>1
  <2>. QED  BY <2>1, <2>2, <2>3, Zenon
<1>5. ServiceRight'
  BY <1>1, <1>3, <1>4 DEF ViewRight, ServiceRight
<1>6. HitsRight' /\ CallsRight' /\ InitialRight'
  BY <1>1, <1>3, <1>4, <1>5, MoreEvents DEF store
<1>7. FlagsRight' /\ LoadedFirst'
  BY <1>1 DEF ViewRight, FlagsRight, LoadedFirst, store
<1>8. SubmitRight'
  <2>1. 1 .. posted \subseteq 1 .. posted'
    BY <1>2, <1>3
  <2>2. totalHits + (IF submit.phase = "answered" THEN 1 ELSE 0) <= posted'
    BY <1>2, <1>3 DEF ViewRight, SubmitRight
  <2>. QED  BY <1>1, <2>1, <2>2 DEF ViewRight, SubmitRight, store
<1>. QED  BY <1>5, <1>6, <1>7, <1>8 DEF ViewRight

\* A comment is submitted, and the service answers or not.
LEMMA SubmitKeeps ==
  ASSUME ViewRight, ViewAssumption, Submit \/ AnswerSubmit \/ LoseSubmit
  PROVE  ViewRight'
<1>1. posted \in Nat /\ opened \in Nat /\ MaxPosts \in Nat /\ totalHits \in Nat
      /\ faults \in Nat /\ MaxFaults \in Nat
  BY Numbers
<1>2. /\ UNCHANGED <<opened, found, hits, pageNumbers, totalHits, initialLoading,
                     lastPageRefreshing, error, initial, gets, edited>>
      /\ posted' \in {posted, posted + 1}
      /\ faults' \in 0 .. MaxFaults
      /\ posted' = posted + 1 => posted < opened + MaxPosts
      /\ timer' \in BOOLEAN /\ submitting' \in BOOLEAN
  <2>0. faults \in 0 .. MaxFaults /\ timer \in BOOLEAN /\ submitting \in BOOLEAN
    BY DEF ViewRight, ServiceRight, FlagsRight
  <2>1. CASE Submit
    <3>1. UNCHANGED <<opened, posted, found, faults, hits, pageNumbers, totalHits,
                      initialLoading, lastPageRefreshing, error, initial, gets, edited>>
      BY <2>1 DEF Submit, service
    <3>2. timer' \in BOOLEAN /\ submitting' \in BOOLEAN
      BY <2>1 DEF Submit
    <3>3. posted' # posted + 1
      BY <1>1, <3>1
    <3>. QED  BY <2>0, <3>1, <3>2, <3>3
  <2>2. CASE AnswerSubmit
    BY <1>1, <2>0, <2>2 DEF AnswerSubmit, store
  <2>3. CASE LoseSubmit
    <3>1. faults' \in 0 .. MaxFaults
      BY <1>1, <2>0, <2>3 DEF LoseSubmit
    <3>. QED  BY <1>1, <2>0, <2>3, <3>1 DEF LoseSubmit, store
  <2>. QED  BY <2>1, <2>2, <2>3
<1>3. posted' \in opened .. opened + MaxPosts /\ posted <= posted'
  BY <1>1, <1>2 DEF ViewRight, ServiceRight
<1>4. ServiceRight'
  <2>1. 1 .. posted \subseteq 1 .. posted'
    BY <1>1, <1>2
  <2>. QED  BY <1>2, <1>3, <2>1 DEF ViewRight, ServiceRight
<1>5. HitsRight' /\ CallsRight' /\ InitialRight'
  BY <1>2, <1>3, <1>4, MoreEvents
<1>6. FlagsRight'
  BY <1>2 DEF ViewRight, FlagsRight
<1>7. LoadedFirst'
  <2>1. hits # <<>>
    BY DEF Submit, AnswerSubmit, LoseSubmit, ViewRight, LoadedFirst, Free
  <2>. QED  BY <1>2, <2>1 DEF ViewRight, LoadedFirst
<1>8. SubmitRight'
  <2>1. CASE Submit
    BY <1>1, <2>1 DEF Submit, ViewRight, SubmitRight, service, Free
  <2>2. CASE AnswerSubmit
    BY <1>1, <2>2 DEF AnswerSubmit, ViewRight, SubmitRight, store
  <2>3. CASE LoseSubmit
    BY <1>1, <2>3 DEF LoseSubmit, ViewRight, SubmitRight, store
  <2>. QED  BY <2>1, <2>2, <2>3
<1>. QED  BY <1>4, <1>5, <1>6, <1>7, <1>8 DEF ViewRight

\* An edit, a submission that failed and a step that does nothing.
LEMMA FlagsKeep ==
  ASSUME ViewRight, EditComment \/ NotSubmitted \/ UNCHANGED vars
  PROVE  ViewRight'
<1>1. UNCHANGED <<opened, posted, found, faults, hits, pageNumbers, totalHits,
                  initialLoading, error, initial, gets>>
  BY DEF EditComment, NotSubmitted, vars, service, store
<1>2. ServiceRight' /\ HitsRight' /\ CallsRight'
  BY <1>1 DEF ViewRight, ServiceRight, HitsRight, CallsRight
<1>3. InitialRight'
  BY <1>1 DEF ViewRight, InitialRight, CeilDiv
<1>4. FlagsRight'
  BY DEF ViewRight, FlagsRight, EditComment, NotSubmitted, vars, store, service
<1>5. submit' \in {submit, Free}
  BY DEF EditComment, NotSubmitted, vars
<1>6. LoadedFirst'
  BY <1>1, <1>5 DEF ViewRight, LoadedFirst
<1>7. SubmitRight'
  <2>1. posted \in Nat /\ totalHits \in Nat /\ totalHits <= posted
    BY DEF ViewRight, SubmitRight, ServiceRight
  <2>. QED  BY <1>1, <1>5, <2>1 DEF ViewRight, SubmitRight, Free
<1>. QED  BY <1>2, <1>3, <1>4, <1>6, <1>7 DEF ViewRight

-----------------------------------------------------------------------------
(* The first load. *)

LEMMA InitRight ==
  ASSUME Init, ViewAssumption
  PROVE  ViewRight /\ Ascending
<1>1. opened \in Nat /\ MaxPosts \in Nat /\ posted = opened
  BY DEF Init, ViewAssumption
<1>2. posted \in opened .. opened + MaxPosts /\ faults \in 0 .. MaxFaults
  BY <1>1 DEF Init, ViewAssumption
<1>3. ServiceRight
  BY <1>2 DEF Init, ServiceRight
<1>4. FlagsRight
  BY DEF Init, FlagsRight
<1>5. HitsRight
  BY DEF Init, HitsRight, Range, IsInjective
<1>6. LoadedFirst /\ CallsRight
  BY DEF Init, LoadedFirst, CallsRight
<1>7. SubmitRight
  BY <1>1 DEF Init, SubmitRight, Free
<1>8. InitialRight
  <2>1. PICK focus \in {0} \cup 1 .. posted :
          initial = [phase |-> "first", focus |-> focus, pages |-> <<>>, total |-> 0]
    BY DEF Init
  <2>2. initial.phase = "first" /\ initial.focus = focus /\ initial.pages = <<>> /\ initial.total = 0
    BY <2>1
  <2>3. initial # Free
    BY <2>2 DEF Free
  <2>4. 0 \in 0 .. posted
    BY <1>1
  <2>5. initial.focus \in {0} \cup found
    BY <2>2 DEF Init
  <2>. QED  BY <2>1, <2>2, <2>3, <2>4, <2>5 DEF Init, InitialRight
<1>9. Ascending
  BY DEF Init, Ascending
<1>. QED  BY <1>3, <1>4, <1>5, <1>6, <1>7, <1>8, <1>9 DEF ViewRight

\* What the first load holds once it has some pages.
Got(got) ==
  /\ got = [phase |-> got.phase, focus |-> got.focus, pages |-> got.pages, total |-> got.total]
  /\ got.focus \in {0} \cup found
  /\ got.total \in 0 .. posted
  /\ Pages(got.pages, posted)

\* The pages that the first load got are dispatched.
LEMMA LoadedKeeps ==
  ASSUME ViewRight, ViewAssumption, initialLoading, NEW got, Got(got), Loaded(got)
  PROVE  ViewRight' /\ Ascending'
<1>1. /\ UNCHANGED <<opened, posted, found, faults, lastPageRefreshing, submitting, error,
                     gets, submit, edited>>
      /\ hits' = got.pages /\ pageNumbers' = Sorted(DOMAIN got.pages)
      /\ totalHits' = got.total /\ initialLoading' = FALSE /\ timer' = TRUE
      /\ initial' = Free
  BY DEF Loaded, service
<1>2. Pages(got.pages, posted) /\ got.total \in 0 .. posted
  BY DEF Got
<1>3. hits = <<>> /\ submit = Free /\ \A s \in Slots : gets[s] = Free
  BY DEF ViewRight, LoadedFirst
<1>4. hits' # <<>>
  BY <1>1, <1>2 DEF Pages
<1>5. DOMAIN got.pages \in SUBSET Nat /\ IsFiniteSet(DOMAIN got.pages)
  BY <1>2 DEF Pages, Positive
<1>6. /\ pageNumbers' \in Seq(DOMAIN hits') /\ Range(pageNumbers') = DOMAIN hits'
      /\ IsInjective(pageNumbers')
      /\ \A i, j \in DOMAIN pageNumbers' : i < j <=> pageNumbers'[i] < pageNumbers'[j]
  <2>. DEFINE s == Sorted(DOMAIN got.pages)
  <2>1. /\ s \in Seq(DOMAIN got.pages) \/ s \in Seq(Nat)
        /\ Range(s) = DOMAIN got.pages /\ IsInjective(s)
        /\ \A i, j \in DOMAIN s : i < j <=> s[i] < s[j]
        /\ s \in Seq(DOMAIN got.pages)
    BY <1>5, SortedRight
  <2>. HIDE DEF s
  <2>2. pageNumbers' = s
    BY <1>1 DEF s
  <2>. QED  BY <1>1, <2>1, <2>2
<1>7. ServiceRight' /\ CallsRight'
  BY <1>1 DEF ViewRight, ServiceRight, CallsRight
<1>8. FlagsRight'
  BY <1>1 DEF ViewRight, FlagsRight
<1>9. HitsRight'
  BY <1>1, <1>2, <1>6 DEF HitsRight
<1>10. LoadedFirst'
  BY <1>1, <1>4 DEF LoadedFirst
<1>11. SubmitRight'
  <2>1. posted \in Nat /\ got.total \in Nat /\ got.total <= posted
    BY <1>2 DEF ViewRight, ServiceRight, ViewAssumption
  <2>. QED  BY <1>1, <1>3, <2>1 DEF SubmitRight, Free
<1>12. InitialRight'
  BY <1>1 DEF InitialRight
<1>13. Ascending'
  BY <1>6 DEF Ascending
<1>. QED  BY <1>7, <1>8, <1>9, <1>10, <1>11, <1>12, <1>13 DEF ViewRight

\* The first load goes on to its next call.
LEMMA ProceedKeeps ==
  ASSUME ViewRight, Ascending, initialLoading, NEW got, Got(got), Proceed(got),
         got.phase \in {"last", "focus"},
         got.phase = "last" => CeilDiv(got.total) > 1,
         got.phase = "focus" => got.focus # 0
  PROVE  ViewRight' /\ Ascending'
<1>1. /\ UNCHANGED <<opened, posted, found, faults, hits, pageNumbers, totalHits,
                     initialLoading, lastPageRefreshing, submitting, error, timer, gets,
                     submit, edited>>
      /\ initial' = got
  BY DEF Proceed, service, store
<1>2. ServiceRight' /\ HitsRight' /\ CallsRight' /\ LoadedFirst' /\ SubmitRight'
  BY <1>1 DEF ViewRight, ServiceRight, HitsRight, CallsRight, LoadedFirst, SubmitRight
<1>3. FlagsRight'
  BY <1>1 DEF ViewRight, FlagsRight
<1>4. InitialRight'
  <2>1. got # Free /\ got.phase # "first"
    BY DEF Free
  <2>2. /\ initial' = [phase |-> initial'.phase, focus |-> initial'.focus,
                       pages |-> initial'.pages, total |-> initial'.total]
        /\ initial'.focus \in {0} \cup found' /\ initial'.total \in 0 .. posted'
        /\ Pages(initial'.pages, posted')
    BY <1>1 DEF Got
  <2>3. initial'.phase = "last" => CeilDiv(initial'.total) > 1
    BY <1>1
  <2>4. /\ initialLoading' /\ initial' # Free
        /\ initial'.phase \in {"first", "last", "focus"}
        /\ initial'.phase # "first"
        /\ initial'.phase = "focus" => initial'.focus # 0
    BY <1>1, <2>1
  <2>. QED  BY <2>2, <2>3, <2>4 DEF InitialRight, CeilDiv
<1>5. Ascending'
  BY <1>1 DEF Ascending, OneDigit
<1>. QED  BY <1>2, <1>3, <1>4, <1>5 DEF ViewRight

LEMMA FirstLoadKeeps ==
  ASSUME ViewRight, Ascending, ViewAssumption, FirstLoad
  PROVE  ViewRight' /\ Ascending'
<1>1. posted \in Nat /\ found \subseteq 1 .. posted
  BY Numbers DEF ViewRight, ServiceRight
<1>2. CASE FetchFirst
  <2>. DEFINE got == [initial EXCEPT !.pages = WithPage(<<>>, 1, Answer(1)),
                                     !.total = Cardinality(found)]
  <2>1. initial.phase = "first" /\ initial # Free /\ initialLoading
    BY <1>2 DEF FetchFirst, ViewRight, InitialRight, Free
  <2>2. Answer(1) \in Seq(1 .. posted) /\ 1 \in Positive
    BY <1>1, AnswerRight DEF Positive
  <2>3. Pages(WithPage(<<>>, 1, Answer(1)), posted)
    BY <1>1, <2>2, WithPageRight
  <2>4. Cardinality(found) \in 0 .. posted
    BY <1>1, PlacesTaken
  <2>5. /\ initial = [phase |-> initial.phase, focus |-> initial.focus,
                      pages |-> initial.pages, total |-> initial.total]
        /\ initial.focus \in {0} \cup found
    BY <2>1 DEF ViewRight, InitialRight
  <2>6. got = [phase |-> "first", focus |-> initial.focus,
               pages |-> WithPage(<<>>, 1, Answer(1)), total |-> Cardinality(found)]
    <3>. DEFINE pages == WithPage(<<>>, 1, Answer(1))
                total == Cardinality(found)
    <3>1. got = [initial EXCEPT !.pages = pages, !.total = total]
      OBVIOUS
    <3>. HIDE DEF got, pages, total
    <3>2. got = [phase |-> "first", focus |-> initial.focus, pages |-> pages, total |-> total]
      BY <2>1, <2>5, <3>1
    <3>. QED  BY <3>2 DEF pages, total
  <2>7. /\ got.focus = initial.focus /\ got.total = Cardinality(found)
        /\ got.pages = WithPage(<<>>, 1, Answer(1))
    BY <2>6
  <2>8. \/ CeilDiv(got.total) > 1 /\ Proceed([got EXCEPT !.phase = "last"])
        \/ Sought(got) /\ Proceed([got EXCEPT !.phase = "focus"])
        \/ Loaded(got)
    BY <1>2 DEF FetchFirst
  <2>9. Got(got)
    BY <2>3, <2>4, <2>5, <2>6, <2>7 DEF Got
  <2>. HIDE DEF got
  <2>10. \A f : /\ Got([got EXCEPT !.phase = f])
                /\ [got EXCEPT !.phase = f].phase = f
                /\ [got EXCEPT !.phase = f].focus = got.focus
                /\ [got EXCEPT !.phase = f].total = got.total
    BY <2>9 DEF Got
  <2>11. CASE CeilDiv(got.total) > 1 /\ Proceed([got EXCEPT !.phase = "last"])
    <3>. DEFINE next == [got EXCEPT !.phase = "last"]
    <3>1. /\ Got(next) /\ next.phase = "last" /\ next.total = got.total
      BY <2>10
    <3>2. CeilDiv(next.total) > 1 /\ Proceed(next)
      BY <2>11, <3>1
    <3>. HIDE DEF next
    <3>. QED  BY <2>1, <3>1, <3>2, ProceedKeeps
  <2>12. CASE Sought(got) /\ Proceed([got EXCEPT !.phase = "focus"])
    <3>. DEFINE next == [got EXCEPT !.phase = "focus"]
    <3>1. /\ Got(next) /\ next.phase = "focus" /\ next.focus = got.focus
      BY <2>10
    <3>2. next.focus # 0 /\ Proceed(next)
      BY <2>12, <3>1 DEF Sought
    <3>. HIDE DEF next
    <3>. QED  BY <2>1, <3>1, <3>2, ProceedKeeps
  <2>13. CASE Loaded(got)
    BY <2>1, <2>9, <2>13, LoadedKeeps
  <2>. QED  BY <2>8, <2>11, <2>12, <2>13
<1>3. CASE FetchLast
  <2>. DEFINE last == CeilDiv(initial.total)
              pages == WithPage(initial.pages, last, Answer(last))
              got  == [initial EXCEPT !.pages = pages]
  <2>1. initial.phase = "last" /\ initial # Free /\ initialLoading
    BY <1>3 DEF FetchLast, ViewRight, InitialRight, Free
  <2>2. /\ initial = [phase |-> initial.phase, focus |-> initial.focus,
                      pages |-> initial.pages, total |-> initial.total]
        /\ initial.focus \in {0} \cup found /\ initial.total \in 0 .. posted
        /\ Pages(initial.pages, posted) /\ CeilDiv(initial.total) > 1
    BY <2>1 DEF ViewRight, InitialRight
  <2>3. last \in Positive
    <3>1. initial.total \in Nat
      BY <1>1, <2>2
    <3>2. last \in Nat
      BY <3>1, CeilDivRight
    <3>. QED  BY <2>2, <3>2 DEF Positive
  <2>. HIDE DEF last
  <2>4. Answer(last) \in Seq(1 .. posted)
    BY <1>1, <2>3, AnswerRight DEF Positive
  <2>5. Pages(pages, posted)
    BY <1>1, <2>2, <2>3, <2>4, WithPageRight
  <2>6. (Sought(got) /\ Proceed([got EXCEPT !.phase = "focus"])) \/ Loaded(got)
    BY <1>3 DEF FetchLast, last
  <2>. HIDE DEF pages
  <2>7. Got(got) /\ got.focus = initial.focus
    BY <2>2, <2>5 DEF Got
  <2>. HIDE DEF got
  <2>8. CASE Sought(got) /\ Proceed([got EXCEPT !.phase = "focus"])
    <3>. DEFINE next == [got EXCEPT !.phase = "focus"]
    <3>1. /\ Got(next) /\ next.phase = "focus" /\ next.focus = got.focus
      BY <2>7 DEF Got
    <3>2. next.focus # 0 /\ Proceed(next)
      BY <2>8, <3>1 DEF Sought
    <3>. HIDE DEF next
    <3>. QED  BY <2>1, <3>1, <3>2, ProceedKeeps
  <2>9. CASE Loaded(got)
    BY <2>1, <2>7, <2>9, LoadedKeeps
  <2>. QED  BY <2>6, <2>8, <2>9
<1>4. CASE FetchFocused
  <2>. DEFINE page == PageNumberOf(initial.focus)
              pages == IF page \in DOMAIN initial.pages \ {1} THEN initial.pages
                       ELSE WithPage(initial.pages, page, Answer(page))
              got == [initial EXCEPT !.pages = pages]
  <2>1. initial.phase = "focus" /\ initial # Free /\ initialLoading
    BY <1>4 DEF FetchFocused, ViewRight, InitialRight, Free
  <2>2. /\ initial = [phase |-> initial.phase, focus |-> initial.focus,
                      pages |-> initial.pages, total |-> initial.total]
        /\ initial.focus \in found /\ initial.total \in 0 .. posted
        /\ Pages(initial.pages, posted)
    BY <2>1 DEF ViewRight, InitialRight
  <2>3. page \in Positive
    <3>1. Place(initial.focus) \in Nat \ {0}
      <4>1. Cardinality(found) \in Nat /\ Place(initial.focus) \in 1 .. Cardinality(found)
        BY <1>1, <2>2, PlacesTaken
      <4>. QED  BY <4>1
    <3>. QED  BY <3>1, CeilDivRight DEF PageNumberOf, Positive
  <2>4. Loaded(got)
    BY <1>4 DEF FetchFocused
  <2>. HIDE DEF page
  <2>5. Answer(page) \in Seq(1 .. posted)
    BY <1>1, <2>3, AnswerRight DEF Positive
  <2>6. Pages(pages, posted)
    BY <1>1, <2>2, <2>3, <2>5, WithPageRight
  <2>. HIDE DEF pages
  <2>7. Got(got)
    BY <2>2, <2>6 DEF Got
  <2>. HIDE DEF got
  <2>. QED  BY <2>1, <2>4, <2>7, LoadedKeeps
<1>5. CASE FailFirstLoad
  <2>1. /\ UNCHANGED <<opened, posted, found, hits, pageNumbers, totalHits,
                       lastPageRefreshing, submitting, gets, submit, edited>>
        /\ error' = TRUE /\ initialLoading' = FALSE /\ timer' = TRUE /\ initial' = Free
        /\ faults < MaxFaults /\ faults' = faults + 1
    BY <1>5 DEF FailFirstLoad
  <2>2. faults' \in 0 .. MaxFaults
    BY <2>1, Numbers
  <2>3. ServiceRight' /\ HitsRight' /\ CallsRight' /\ SubmitRight'
    BY <2>1, <2>2 DEF ViewRight, ServiceRight, HitsRight, CallsRight, SubmitRight
  <2>4. FlagsRight'
    BY <2>1 DEF ViewRight, FlagsRight
  <2>5. LoadedFirst' /\ InitialRight'
    BY <2>1 DEF ViewRight, LoadedFirst, InitialRight
  <2>6. Ascending'
    BY <2>1 DEF Ascending, OneDigit
  <2>. QED  BY <2>3, <2>4, <2>5, <2>6 DEF ViewRight
<1>. QED  BY <1>2, <1>3, <1>4, <1>5 DEF FirstLoad

-----------------------------------------------------------------------------
(* Calls for pages, and the comment that is put on the last one. *)

\* A call more or less changes nothing but itself.
LEMMA CallsKeep ==
  ASSUME ViewRight, Ascending, hits # <<>>,
         UNCHANGED <<opened, posted, found, hits, pageNumbers, totalHits,
                     initialLoading, submitting, error, initial, submit, edited>>,
         faults' \in 0 .. MaxFaults, timer' \in BOOLEAN, lastPageRefreshing' \in BOOLEAN,
         CallsRight'
  PROVE  ViewRight' /\ Ascending'
<1>1. ServiceRight' /\ HitsRight' /\ SubmitRight' /\ LoadedFirst'
  BY DEF ViewRight, ServiceRight, HitsRight, SubmitRight, LoadedFirst
<1>2. FlagsRight' /\ InitialRight'
  BY DEF ViewRight, FlagsRight, InitialRight, CeilDiv
<1>3. Ascending'
  BY DEF Ascending, OneDigit
<1>. QED  BY <1>1, <1>2, <1>3 DEF ViewRight

\* A slot that is free takes the call.
LEMMA AskRight ==
  ASSUME ViewRight, NEW for \in {"refresh", "more"}, NEW page \in Positive, AskPage(for, page),
         posted' = posted
  PROVE  CallsRight'
<1>. DEFINE free == {s \in Slots : gets[s] = Free}
            call == [phase |-> "asked", for |-> for, page |-> page]
<1>1. gets' = [gets EXCEPT ![Min(free)] = call]
  BY DEF AskPage
<1>2. call \in Asked
  BY DEF Asked
<1>3. gets \in [Slots -> {Free} \cup Asked \cup Answered(posted)]
  BY DEF ViewRight, CallsRight
<1>. HIDE DEF call
<1>4. gets' \in [Slots -> {Free} \cup Asked \cup Answered(posted)]
  BY <1>1, <1>2, <1>3
<1>. QED  BY <1>4 DEF CallsRight, Answered

LEMMA TickRight ==
  ASSUME ViewRight, Ascending, ViewAssumption, Tick
  PROVE  ViewRight' /\ Ascending'
<1>1. CASE MayRefresh
  <2>1. /\ hits # <<>> /\ AskPage("refresh", Last(pageNumbers)) /\ lastPageRefreshing' = TRUE
        /\ timer' = ~error
        /\ UNCHANGED <<opened, posted, found, faults, hits, pageNumbers, totalHits,
                       initialLoading, submitting, error, initial, submit, edited>>
    BY <1>1 DEF Tick, MayRefresh, service
  <2>2. Last(pageNumbers) \in Positive
    <3>1. Pages(hits, posted) /\ pageNumbers \in Seq(DOMAIN hits) /\ Range(pageNumbers) = DOMAIN hits
      BY <2>1 DEF ViewRight, HitsRight
    <3>2. Len(pageNumbers) \in DOMAIN pageNumbers
      <4>1. \E i \in DOMAIN pageNumbers : pageNumbers[i] = 1
        BY <3>1 DEF Pages, Range
      <4>. QED  BY <3>1, <4>1
    <3>3. Last(pageNumbers) \in DOMAIN hits
      BY <3>1, <3>2 DEF Last
    <3>. QED  BY <3>1, <3>3 DEF Pages
  <2>3. CallsRight'
    BY <2>1, <2>2, AskRight
  <2>4. faults' \in 0 .. MaxFaults /\ timer' \in BOOLEAN /\ lastPageRefreshing' \in BOOLEAN
    BY <2>1 DEF ViewRight, ServiceRight, FlagsRight
  <2>. QED  BY <2>1, <2>3, <2>4, CallsKeep
<1>2. CASE ~MayRefresh
  <2>1. /\ timer' = ~error
        /\ UNCHANGED <<opened, posted, found, faults, hits, pageNumbers, totalHits, gets,
                       initialLoading, lastPageRefreshing, submitting, error, initial, submit, edited>>
    BY <1>2 DEF Tick, service
  <2>2. /\ ServiceRight' /\ HitsRight' /\ SubmitRight' /\ LoadedFirst' /\ CallsRight'
    BY <2>1 DEF ViewRight, ServiceRight, HitsRight, SubmitRight, LoadedFirst, CallsRight
  <2>3. FlagsRight' /\ InitialRight'
    BY <2>1 DEF ViewRight, FlagsRight, InitialRight, CeilDiv
  <2>4. Ascending'
    BY <2>1 DEF Ascending, OneDigit
  <2>. QED  BY <2>2, <2>3, <2>4 DEF ViewRight
<1>. QED  BY <1>1, <1>2

\* A button is above a page, and loads a page before it.
LEMMA ButtonsRight ==
  ASSUME ViewRight, NEW page \in Buttons
  PROVE  page \in Positive /\ hits # <<>>
<1>1. PICK i \in DOMAIN pageNumbers :
         /\ page = pageNumbers[i] - 1
         /\ IF i = 1 THEN pageNumbers[i] > 1 ELSE pageNumbers[i] > pageNumbers[i - 1] + 1
  BY DEF Buttons
<1>2. pageNumbers \in Seq(DOMAIN hits) /\ Range(pageNumbers) = DOMAIN hits
  BY DEF ViewRight, HitsRight
<1>3. pageNumbers[i] \in DOMAIN hits
  BY <1>2
<1>4. hits # <<>> /\ DOMAIN hits \in SUBSET Positive
  BY <1>3 DEF ViewRight, HitsRight, Pages
<1>5. pageNumbers[i] \in Nat /\ pageNumbers[i] > 1
  <2>1. CASE i = 1
    BY <1>1, <1>3, <1>4, <2>1 DEF Positive
  <2>2. CASE i # 1
    <3>1. i - 1 \in DOMAIN pageNumbers
      BY <1>2, <2>2
    <3>2. pageNumbers[i - 1] \in Positive /\ pageNumbers[i] \in Positive
      BY <1>2, <1>4, <3>1
    <3>. QED  BY <1>1, <2>2, <3>2 DEF Positive
  <2>. QED  BY <2>1, <2>2
<1>. QED  BY <1>1, <1>4, <1>5 DEF Positive

LEMMA LoadMoreRight ==
  ASSUME ViewRight, Ascending, NEW page \in Buttons, LoadMore(page)
  PROVE  ViewRight' /\ Ascending'
<1>1. /\ AskPage("more", page)
      /\ UNCHANGED <<opened, posted, found, faults, hits, pageNumbers, totalHits, timer,
                     initialLoading, lastPageRefreshing, submitting, error, initial, submit,
                     edited>>
  BY DEF LoadMore, service, store
<1>2. page \in Positive /\ hits # <<>>
  BY ButtonsRight
<1>3. CallsRight'
  BY <1>1, <1>2, AskRight
<1>4. faults' \in 0 .. MaxFaults /\ timer' \in BOOLEAN /\ lastPageRefreshing' \in BOOLEAN
  BY <1>1 DEF ViewRight, ServiceRight, FlagsRight
<1>. QED  BY <1>1, <1>2, <1>3, <1>4, CallsKeep

\* A call that is under way is for a page, for the interval or a button, and
\* there is one only once pages are loaded.
LEMMA CallRight ==
  ASSUME ViewRight, NEW s \in Slots, gets[s].phase # "none"
  PROVE  /\ gets[s] \in Asked \cup Answered(posted) /\ hits # <<>>
         /\ gets[s].phase \in {"asked", "failed"} => gets[s] \in Asked
         /\ gets[s].phase = "answered" => gets[s] \in Answered(posted)
<1>1. gets[s] # Free
  BY DEF Free
<1>2. gets[s] \in Asked \cup Answered(posted) /\ hits # <<>>
  BY <1>1 DEF ViewRight, CallsRight, LoadedFirst
<1>3. /\ gets[s] \in Asked => gets[s].phase \in {"asked", "failed"}
      /\ gets[s] \in Answered(posted) => gets[s].phase = "answered"
  BY DEF Asked, Answered
<1>. QED  BY <1>2, <1>3

LEMMA AnswerPageRight ==
  ASSUME ViewRight, Ascending, ViewAssumption, NEW s \in Slots, AnswerPage(s) \/ LosePage(s)
  PROVE  ViewRight' /\ Ascending'
<1>1. gets[s].phase = "asked"
  BY DEF AnswerPage, LosePage
<1>2. gets[s] \in Asked /\ hits # <<>>
  BY <1>1, CallRight
<1>3. gets[s] = [phase |-> "asked", for |-> gets[s].for, page |-> gets[s].page]
      /\ gets[s].for \in {"refresh", "more"} /\ gets[s].page \in Positive
  BY <1>1, <1>2 DEF Asked
<1>4. /\ UNCHANGED <<opened, posted, found, hits, pageNumbers, totalHits, timer,
                     initialLoading, lastPageRefreshing, submitting, error, initial, submit,
                     edited>>
      /\ \/ faults' = faults
         \/ faults' = faults + 1 /\ faults < MaxFaults
      /\ \E get : gets' = [gets EXCEPT ![s] = get] /\ get \in Asked \cup Answered(posted)
  <2>1. CASE AnswerPage(s)
    <3>. DEFINE get == [phase |-> "answered", for |-> gets[s].for, page |-> gets[s].page,
                        hits |-> Answer(gets[s].page)]
    <3>1. gets' = [gets EXCEPT ![s] = get]
      BY <2>1 DEF AnswerPage
    <3>2. Answer(gets[s].page) \in Seq(1 .. posted)
      BY <1>3, Numbers, AnswerRight DEF ViewRight, ServiceRight, Positive
    <3>3. get \in Answered(posted)
      BY <1>3, <3>2 DEF Answered
    <3>4. UNCHANGED <<opened, posted, found, faults, hits, pageNumbers, totalHits, timer,
                     initialLoading, lastPageRefreshing, submitting, error, initial, submit,
                     edited>>
      BY <2>1 DEF AnswerPage, service, store
    <3>. HIDE DEF get
    <3>. QED  BY <3>1, <3>3, <3>4
  <2>2. CASE LosePage(s)
    <3>. DEFINE get == [gets[s] EXCEPT !.phase = "failed"]
    <3>1. get = [phase |-> "failed", for |-> gets[s].for, page |-> gets[s].page]
      BY <1>3
    <3>2. get \in Asked
      BY <1>3, <3>1 DEF Asked
    <3>3. gets' = [gets EXCEPT ![s] = get]
      BY <2>2, <3>1 DEF LosePage
    <3>4. /\ UNCHANGED <<opened, posted, found, hits, pageNumbers, totalHits, timer,
                     initialLoading, lastPageRefreshing, submitting, error, initial, submit,
                     edited>>
          /\ faults < MaxFaults /\ faults' = faults + 1
      BY <2>2 DEF LosePage, store
    <3>. HIDE DEF get
    <3>. QED  BY <3>2, <3>3, <3>4
  <2>. QED  BY <2>1, <2>2
<1>5. CallsRight'
  <2>1. PICK get : gets' = [gets EXCEPT ![s] = get] /\ get \in Asked \cup Answered(posted)
    BY <1>4
  <2>2. gets \in [Slots -> {Free} \cup Asked \cup Answered(posted)]
    BY DEF ViewRight, CallsRight
  <2>3. gets' \in [Slots -> {Free} \cup Asked \cup Answered(posted)]
    BY <2>1, <2>2
  <2>. QED  BY <1>4, <2>3 DEF CallsRight, Answered
<1>6. faults' \in 0 .. MaxFaults
  <2>1. faults \in 0 .. MaxFaults
    BY DEF ViewRight, ServiceRight
  <2>2. faults \in Nat /\ MaxFaults \in Nat
    BY Numbers
  <2>. QED  BY <1>4, <2>1, <2>2
<1>7. timer' \in BOOLEAN /\ lastPageRefreshing' \in BOOLEAN
  BY <1>4 DEF ViewRight, FlagsRight
<1>. QED  BY <1>2, <1>4, <1>5, <1>6, <1>7, CallsKeep

\* The callback of a call.
LEMMA ReceiveRight ==
  ASSUME ViewRight, Ascending, NEW s \in Slots, Receive(s)
  PROVE  ViewRight' /\ Ascending'
<1>1. /\ UNCHANGED <<opened, posted, found, faults, totalHits, initialLoading, submitting,
                     timer, initial, submit, edited>>
      /\ lastPageRefreshing' \in BOOLEAN
      /\ gets' = [gets EXCEPT ![s] = Free]
      /\ gets[s].phase \in {"answered", "failed"}
      /\ \/ gets[s].phase = "answered" /\ SetPage(gets[s].page, gets[s].hits) /\ error' = error
         \/ UNCHANGED <<hits, pageNumbers>> /\ error' = TRUE
  <2>1. lastPageRefreshing' \in BOOLEAN
    BY DEF Receive, ViewRight, FlagsRight
  <2>. QED  BY <2>1 DEF Receive, service
<1>2. hits # <<>> /\ Pages(hits, posted) /\ Range(pageNumbers) = DOMAIN hits
  BY <1>1, CallRight DEF ViewRight, HitsRight
<1>3. Pages(hits', posted) /\ HitsRight' /\ Ascending'
  <2>1. CASE gets[s].phase = "answered" /\ SetPage(gets[s].page, gets[s].hits)
    <3>. DEFINE page == gets[s].page
                events == gets[s].hits
                S == DOMAIN hits \cup {page}
    <3>1. page \in Positive /\ events \in Seq(1 .. posted)
      BY <2>1, CallRight DEF Answered
    <3>2. hits' = WithPage(hits, page, events) /\ pageNumbers' = Sorted(S)
      BY <1>2, <2>1 DEF SetPage
    <3>. HIDE DEF page, events
    <3>3. Pages(hits', posted) /\ DOMAIN hits' = S
      <4>1. posted \in Nat
        BY DEF ViewRight, ServiceRight, SubmitRight
      <4>. DEFINE pages == WithPage(hits, page, events)
      <4>2. Pages(pages, posted) /\ DOMAIN pages = DOMAIN hits \cup {page}
        <5>1. Pages(pages, posted)
          BY <1>2, <3>1, <4>1, WithPageRight
        <5>2. DOMAIN pages = DOMAIN hits \cup {page}
          BY DEF WithPage
        <5>. QED  BY <5>1, <5>2
      <4>. HIDE DEF pages
      <4>3. hits' = pages
        BY <3>2 DEF pages
      <4>. QED  BY <4>2, <4>3
    <3>4. S \in SUBSET Nat /\ IsFiniteSet(S)
      BY <3>3 DEF Pages, Positive
    <3>. DEFINE t == Sorted(S)
    <3>5. /\ t \in Seq(S) /\ Range(t) = S /\ IsInjective(t)
          /\ \A i, j \in DOMAIN t : i < j <=> t[i] < t[j]
      BY <3>4, SortedRight
    <3>. HIDE DEF S, t
    <3>6. pageNumbers' = t /\ posted' = posted
      BY <1>1, <3>2 DEF t
    <3>. QED  BY <3>3, <3>5, <3>6 DEF HitsRight, Ascending, Pages
  <2>2. CASE UNCHANGED <<hits, pageNumbers>>
    BY <1>1, <1>2, <2>2 DEF ViewRight, HitsRight, Ascending, OneDigit, Pages
  <2>. QED  BY <1>1, <2>1, <2>2
<1>4. hits' # <<>>
  BY <1>3 DEF Pages
<1>5. ServiceRight' /\ SubmitRight'
  BY <1>1 DEF ViewRight, ServiceRight, SubmitRight
<1>6. CallsRight'
  BY <1>1 DEF ViewRight, CallsRight, Answered
<1>7. FlagsRight'
  BY <1>1 DEF ViewRight, FlagsRight
<1>8. LoadedFirst'
  BY <1>1, <1>2, <1>4 DEF ViewRight, LoadedFirst
<1>9. InitialRight'
  BY <1>1 DEF ViewRight, InitialRight, CeilDiv
<1>. QED  BY <1>3, <1>5, <1>6, <1>7, <1>8, <1>9 DEF ViewRight

\* The user's own comment on the last page, or on a page of its own.
LEMMA SubmittedRight ==
  ASSUME ViewRight, Ascending, ViewAssumption, Submitted
  PROVE  ViewRight' /\ Ascending'
<1>. DEFINE last == Max(Range(pageNumbers))
            e == submit.event
<1>1. /\ UNCHANGED <<opened, posted, found, faults, initialLoading, lastPageRefreshing, error,
                     initial, gets, edited>>
      /\ totalHits' = totalHits + 1 /\ submitting' = FALSE /\ timer' = TRUE /\ submit' = Free
      /\ submit.phase = "answered"
      /\ \/ /\ Len(hits[last]) >= Size
            /\ hits' = WithPage(hits, last + 1, <<e>>)
            /\ pageNumbers' = SortedAsStrings(Range(pageNumbers) \cup {last + 1})
         \/ hits' = [hits EXCEPT ![last] = Append(@, e)] /\ pageNumbers' = pageNumbers
  BY DEF Submitted, AppendToLastOrNewPage, service
<1>2. e \in 1 .. posted
  BY <1>1 DEF ViewRight, SubmitRight, Free
<1>3. hits # <<>> /\ Pages(hits, posted) /\ Range(pageNumbers) = DOMAIN hits
  BY <1>1 DEF ViewRight, HitsRight, LoadedFirst, Free
<1>4. last \in DOMAIN hits /\ last \in Positive /\ last + 1 \in Positive
  <2>1. DOMAIN hits \in SUBSET Positive /\ DOMAIN hits \in SUBSET Nat /\ IsFiniteSet(DOMAIN hits)
        /\ DOMAIN hits # {}
    BY <1>3 DEF Pages, Positive
  <2>2. Max(DOMAIN hits) \in DOMAIN hits
    BY <2>1, PagesBounded
  <2>. HIDE DEF last
  <2>3. last \in DOMAIN hits /\ last \in Positive
    BY <1>3, <2>1, <2>2 DEF last
  <2>. QED  BY <2>3 DEF Positive
<1>5. posted \in Nat /\ totalHits \in Nat
  BY Numbers
<1>. HIDE DEF last, e
<1>6. Pages(hits', posted) /\ HitsRight' /\ Ascending'
  <2>1. CASE /\ hits' = WithPage(hits, last + 1, <<e>>)
             /\ pageNumbers' = SortedAsStrings(Range(pageNumbers) \cup {last + 1})
    <3>. DEFINE S == DOMAIN hits \cup {last + 1}
                t == SortedAsStrings(S)
    <3>1. <<e>> \in Seq(1 .. posted)
      BY <1>2
    <3>2. Pages(hits', posted) /\ DOMAIN hits' = S
      <4>. DEFINE page == last + 1
                  events == <<e>>
                  pages == WithPage(hits, page, events)
      <4>1. page \in Positive /\ events \in Seq(1 .. posted)
        BY <1>4, <3>1
      <4>. HIDE DEF page, events
      <4>2. Pages(pages, posted) /\ DOMAIN pages = DOMAIN hits \cup {page}
        <5>1. Pages(pages, posted)
          BY <1>3, <1>5, <4>1, WithPageRight
        <5>2. DOMAIN pages = DOMAIN hits \cup {page}
          BY DEF WithPage
        <5>. QED  BY <5>1, <5>2
      <4>. HIDE DEF pages
      <4>3. hits' = pages
        BY <2>1 DEF pages, page, events
      <4>. QED  BY <4>2, <4>3 DEF page
    <3>3. S \in SUBSET Nat /\ IsFiniteSet(S)
      BY <3>2 DEF Pages, Positive
    <3>4. /\ t \in Seq(S) /\ Range(t) = S /\ IsInjective(t)
          /\ (\A p \in S : p < 10) => \A i, j \in DOMAIN t : i < j <=> t[i] < t[j]
      BY <3>3, SortedAsStringsRight
    <3>5. pageNumbers' = t /\ posted' = posted
      BY <1>1, <1>3, <2>1
    <3>. HIDE DEF S, t
    <3>. QED  BY <3>2, <3>4, <3>5 DEF HitsRight, Ascending, OneDigit, Pages
  <2>2. CASE hits' = [hits EXCEPT ![last] = Append(@, e)] /\ pageNumbers' = pageNumbers
    <3>1. DOMAIN hits' = DOMAIN hits
      BY <2>2
    <3>2. \A p \in DOMAIN hits : hits[p] \in Seq(1 .. posted)
      BY <1>3 DEF Pages
    <3>3. Append(hits[last], e) \in Seq(1 .. posted)
      BY <1>2, <1>4, <3>2
    <3>4. \A p \in DOMAIN hits' : hits'[p] \in Seq(1 .. posted)
      BY <2>2, <3>1, <3>2, <3>3
    <3>5. Pages(hits', posted)
      BY <1>3, <3>1, <3>4 DEF Pages
    <3>6. HitsRight'
      BY <1>1, <2>2, <3>1, <3>5 DEF ViewRight, HitsRight, Pages
    <3>7. Ascending'
      BY <2>2, <3>1 DEF Ascending, OneDigit
    <3>. QED  BY <3>5, <3>6, <3>7
  <2>. QED  BY <1>1, <2>1, <2>2
<1>7. hits' # <<>>
  BY <1>6 DEF Pages
<1>8. ServiceRight' /\ CallsRight'
  BY <1>1 DEF ViewRight, ServiceRight, CallsRight, Answered
<1>9. SubmitRight'
  <2>1. totalHits + 1 <= posted
    BY <1>1, <1>5 DEF ViewRight, SubmitRight
  <2>2. totalHits' \in Nat /\ totalHits' <= posted' /\ submit' = Free /\ posted' \in Nat
    BY <1>1, <1>5, <2>1
  <2>3. submit'.phase # "answered"
    BY <2>2 DEF Free
  <2>4. totalHits' + (IF submit'.phase = "answered" THEN 1 ELSE 0) <= posted'
    <3>1. (IF submit'.phase = "answered" THEN 1 ELSE 0) = 0
      BY <2>3, Zenon
    <3>2. (totalHits + 1) + 0 <= posted
      BY <1>5, <2>1
    <3>3. totalHits' = totalHits + 1 /\ posted' = posted
      BY <1>1
    <3>. QED  BY <3>1, <3>2, <3>3, Zenon
  <2>. QED  BY <2>2, <2>4 DEF SubmitRight
<1>10. FlagsRight'
  BY <1>1 DEF ViewRight, FlagsRight
<1>11. LoadedFirst'
  BY <1>1, <1>3, <1>7 DEF ViewRight, LoadedFirst
<1>12. InitialRight'
  BY <1>1 DEF ViewRight, InitialRight, CeilDiv
<1>. QED  BY <1>6, <1>8, <1>9, <1>10, <1>11, <1>12 DEF ViewRight

LEMMA ViewKept ==
  ASSUME ViewRight, Ascending, ViewAssumption, [Next]_vars
  PROVE  ViewRight' /\ Ascending'
<1>1. CASE \/ Submit \/ AnswerSubmit \/ LoseSubmit \/ EditComment \/ NotSubmitted
           \/ UNCHANGED vars
           \/ Post \/ \E e \in Events : Find(e)
  <2>1. ViewRight'
    BY <1>1, ServiceKeeps, SubmitKeeps, FlagsKeep
  <2>2. UNCHANGED <<hits, pageNumbers>>
    BY <1>1 DEF Post, Find, Submit, AnswerSubmit, LoseSubmit, EditComment, NotSubmitted,
                vars, store
  <2>3. Ascending'
    BY <2>2 DEF Ascending, OneDigit
  <2>. QED  BY <2>1, <2>3
<1>2. CASE FirstLoad
  BY <1>2, FirstLoadKeeps
<1>3. CASE Tick
  BY <1>3, TickRight
<1>4. CASE \E page \in Buttons : LoadMore(page)
  BY <1>4, LoadMoreRight
<1>5. CASE \E s \in Slots : AnswerPage(s) \/ LosePage(s) \/ Receive(s)
  BY <1>5, AnswerPageRight, ReceiveRight
<1>6. CASE Submitted
  BY <1>6, SubmittedRight
<1>. QED  BY <1>1, <1>2, <1>3, <1>4, <1>5, <1>6 DEF Next

LEMMA ViewTyped ==
  ASSUME ViewRight, ViewAssumption
  PROVE  TypeOK
<1>1. \A p \in DOMAIN hits : p \in Nat \ {0} /\ Range(hits[p]) \subseteq 1 .. posted
  <2>1. CASE hits = <<>>
    BY <2>1
  <2>2. CASE Pages(hits, posted)
    <3>. SUFFICES ASSUME NEW p \in DOMAIN hits
                  PROVE  p \in Nat \ {0} /\ Range(hits[p]) \subseteq 1 .. posted
      OBVIOUS
    <3>1. p \in Positive /\ hits[p] \in Seq(1 .. posted)
      BY <2>2 DEF Pages
    <3>2. Range(hits[p]) \subseteq 1 .. posted
      <4>. DEFINE s == hits[p]
                  T == 1 .. posted
      <4>. HIDE DEF s, T
      <4>1. s \in Seq(T)
        BY <3>1 DEF s, T
      <4>2. \A i \in DOMAIN s : s[i] \in T
        BY <4>1
      <4>3. Range(s) \subseteq T
        BY <4>2, Zenon DEF Range
      <4>. QED  BY <4>3 DEF s, T
    <3>. QED  BY <3>1, <3>2 DEF Positive
  <2>. QED  BY <2>1, <2>2 DEF ViewRight, HitsRight
<1>2. totalHits \in 0 .. posted
  BY Numbers DEF ViewRight, SubmitRight
<1>3. initial.phase \in {"first", "last", "focus", "none"}
  <2>1. Free.phase = "none"
    BY DEF Free
  <2>. QED  BY <2>1 DEF ViewRight, InitialRight
<1>4. \A s \in Slots : gets[s].phase \in {"none", "asked", "answered", "failed"}
  BY DEF ViewRight, CallsRight, Free, Asked, Answered
<1>5. submit.phase \in {"none", "asked", "answered", "failed"}
  BY DEF ViewRight, SubmitRight, Free
<1>6. {initialLoading, lastPageRefreshing, submitting, error, timer, edited} \subseteq BOOLEAN
  BY DEF ViewRight, FlagsRight
<1>. QED  BY <1>1, <1>2, <1>3, <1>4, <1>5, <1>6 DEF TypeOK, ViewRight, ServiceRight, HitsRight

\* The variables hold what they are meant for: the store, pages that the service has
\* answered; the calls, what was asked for.
THEOREM TypeCorrect == Spec => []TypeOK
<1>1. Init => ViewRight /\ Ascending
  BY InitRight, ViewAssumption
<1>2. ViewRight /\ Ascending /\ [Next]_vars => (ViewRight /\ Ascending)'
  BY ViewKept, ViewAssumption
<1>3. ViewRight => TypeOK
  BY ViewTyped, ViewAssumption
<1>. QED  BY <1>1, <1>2, <1>3, PTL DEF Spec

\* Ascending page numbers leave no gap without its button.
LEMMA GapHasButton ==
  ASSUME ViewRight, Ascending
  PROVE  GapsOffered
<1>. SUFFICES ASSUME OneDigit, NEW page \in 1 .. Max(DOMAIN hits \cup {1}) \ DOMAIN hits, hits # <<>>
              PROVE  \E b \in Buttons : page <= b /\ page .. b \cap DOMAIN hits = {}
  BY DEF GapsOffered
<1>1. /\ Pages(hits, posted) /\ Range(pageNumbers) = DOMAIN hits
      /\ pageNumbers \in Seq(DOMAIN hits)
      /\ \A i, j \in DOMAIN pageNumbers : i < j <=> pageNumbers[i] < pageNumbers[j]
  BY DEF ViewRight, HitsRight, Ascending
<1>2. /\ DOMAIN hits \in SUBSET Nat /\ IsFiniteSet(DOMAIN hits) /\ 1 \in DOMAIN hits
      /\ 0 \notin DOMAIN hits
  BY <1>1 DEF Pages, Positive
<1>3. Max(DOMAIN hits) \in DOMAIN hits /\ DOMAIN hits \cup {1} = DOMAIN hits
  BY <1>2, PagesBounded
<1>4. page \in Nat /\ page <= Max(DOMAIN hits) /\ page \notin DOMAIN hits /\ page >= 1
  <2>. DEFINE m == Max(DOMAIN hits)
  <2>1. m \in Nat /\ page \in 1 .. m /\ page \notin DOMAIN hits
    BY <1>2, <1>3
  <2>. HIDE DEF m
  <2>2. page \in Nat /\ page <= m /\ page >= 1
    BY <2>1
  <2>. QED  BY <2>1, <2>2 DEF m
\* The next page that is loaded.
<1>. DEFINE above == {q \in DOMAIN hits : q > page}
<1>5. above \in SUBSET Nat /\ IsFiniteSet(above) /\ above # {}
  <2>1. Max(DOMAIN hits) \in above
    <3>. DEFINE m == Max(DOMAIN hits)
    <3>1. m \in DOMAIN hits /\ m \in Nat /\ page <= m /\ page # m /\ page \in Nat
      BY <1>2, <1>3, <1>4
    <3>. HIDE DEF m
    <3>2. m > page
      BY <3>1
    <3>. QED  BY <3>1, <3>2 DEF m
  <2>. QED  BY <1>2, <2>1, FS_Subset
<1>6. PICK q \in above : \A p \in above : q <= p
  BY <1>5, PagesBounded
<1>7. q \in DOMAIN hits /\ q \in Nat /\ q > page
  BY <1>2, <1>6
<1>8. \A p \in DOMAIN hits : p > page => q <= p
  BY <1>6
<1>. HIDE DEF above
<1>9. PICK i \in DOMAIN pageNumbers : pageNumbers[i] = q
  BY <1>1, <1>7 DEF Range
<1>10. q - 1 \in Buttons
  <2>1. IF i = 1 THEN pageNumbers[i] > 1 ELSE pageNumbers[i] > pageNumbers[i - 1] + 1
    <3>1. CASE i = 1
      BY <1>4, <1>7, <1>9, <3>1
    <3>2. CASE i # 1
      <4>1. i - 1 \in DOMAIN pageNumbers /\ i - 1 < i
        BY <1>1, <3>2
      <4>2. pageNumbers[i - 1] \in DOMAIN hits /\ pageNumbers[i - 1] < q
        BY <1>1, <1>9, <4>1
      <4>3. pageNumbers[i - 1] \in Nat /\ ~(pageNumbers[i - 1] > page)
            /\ pageNumbers[i - 1] # page
        BY <1>2, <1>4, <1>7, <1>8, <4>2
      <4>4. q > pageNumbers[i - 1] + 1
        BY <1>4, <1>7, <4>3
      <4>. QED  BY <1>9, <3>2, <4>4
    <3>. QED  BY <3>1, <3>2
  <2>. QED  BY <1>9, <2>1 DEF Buttons
<1>11. page <= q - 1 /\ page .. (q - 1) \cap DOMAIN hits = {}
  <2>1. page <= q - 1
    BY <1>4, <1>7
  <2>2. ASSUME NEW p \in page .. (q - 1), p \in DOMAIN hits  PROVE FALSE
    <3>1. p \in Nat /\ p >= page /\ p < q /\ p # page
      BY <1>2, <1>4, <1>7, <2>2
    <3>2. p > page /\ ~(q <= p)
      BY <1>4, <1>7, <3>1
    <3>. QED  BY <1>8, <2>2, <3>2
  <2>. QED  BY <2>1, <2>2
<1>. QED  BY <1>10, <1>11

\* Every page below the last loaded one, of those with one digit, is loaded or has
\* a button above it, whatever was loaded out of order, opened by an own comment or
\* named by the address (TimelineFeedElements).
THEOREM GapsAreOffered == Spec => []GapsOffered
<1>1. Init => ViewRight /\ Ascending
  BY InitRight, ViewAssumption
<1>2. ViewRight /\ Ascending /\ [Next]_vars => (ViewRight /\ Ascending)'
  BY ViewKept, ViewAssumption
<1>3. ViewRight /\ Ascending => GapsOffered
  BY GapHasButton
<1>. QED  BY <1>1, <1>2, <1>3, PTL DEF Spec

=============================================================================
