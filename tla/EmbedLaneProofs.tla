--------------------------- MODULE EmbedLaneProofs --------------------------
(***************************************************************************)
(* Proofs about EmbedLane, for any jobs, items, costs, budgets and lanes.  *)
(* The argument has two halves.  What the plan computes, by induction on   *)
(* the sequences it folds: it cuts the items of a claim into requests that *)
(* keep to the budget and lose none, each naming every job it speaks for.  *)
(* And how the lane uses it: a task is judged only when every call of its  *)
(* claim has ended, a failed call is remembered by each of its jobs, so a  *)
(* task with no failed call has bought all it called for; and a task that  *)
(* shares its requests is one the ladder will still retry.                 *)
(***************************************************************************)
EXTENDS EmbedLane, JobRunnerProofs, RecursionTheorems, FiniteSetTheorems, SequenceTheorems, TLAPS

-----------------------------------------------------------------------------
(* What the operators of the plan compute.                                 *)

\* The sum's function, value by value.
LEMMA SumUnfolds ==
  ASSUME NEW m \in Nat, NEW cost, NEW f,
         f = [n \in 0..m |-> IF n = 0 THEN 0 ELSE f[n - 1] + cost[n]]
  PROVE  f[0] = 0 /\ \A n \in 1..m : f[n] = f[n - 1] + cost[n]
OBVIOUS

LEMMA SumExists ==
  ASSUME NEW m \in Nat, NEW cost \in [1..m -> Nat]
  PROVE  \E f : f = [n \in 0..m |-> IF n = 0 THEN 0 ELSE f[n - 1] + cost[n]]
<1>1. PICK step : step = [p \in Nat \X Nat |-> p[2] + IF p[1] \in 1..m THEN cost[p[1]] ELSE 0]
  OBVIOUS
<1>2. step \in [Nat \X Nat -> Nat]
  BY <1>1
<1>3. PICK f : Solves(f, Nat, 0, step, m)
  BY <1>2, RecursionDefines
<1>4. ASSUME NEW n \in 1..m
      PROVE  f[n] = f[n - 1] + cost[n]
  <2>1. n \in Nat /\ n - 1 \in 0..m /\ f[n - 1] \in Nat /\ f[n] = step[<<n, f[n - 1]>>]
    BY <1>3 DEF Solves
  <2> QED BY <1>1, <2>1
<1>5. f = [n \in 0..m |-> IF n = 0 THEN 0 ELSE f[n - 1] + cost[n]]
  <2>1. f \in [0..m -> Nat] /\ f[0] = 0
    BY <1>3 DEF Solves
  <2>2. ASSUME NEW n \in 0..m
        PROVE  f[n] = IF n = 0 THEN 0 ELSE f[n - 1] + cost[n]
    BY <1>4, <2>1
  <2> QED BY <2>1, <2>2
<1> QED BY <1>5

\* f takes the sums of the prefixes of the items.
Sums(f, items) ==
  /\ f[0] = 0 /\ \A n \in 1..Len(items) : f[n] = f[n - 1] + Cost[items[n]]
  /\ \A n \in 0..Len(items) : f[n] \in Nat

LEMMA TokensDefined ==
  ASSUME LaneAssumption, NEW items \in Seq(Item)
  PROVE  \E f : Sums(f, items) /\ Tokens(items) = f[Len(items)]
<1>1. PICK m \in Nat : m = Len(items)
  OBVIOUS
<1>2. PICK cost : cost = [n \in 1..m |-> Cost[items[n]]]
  OBVIOUS
<1>3. cost \in [1..m -> Nat]
  <2>1. \A n \in 1..m : items[n] \in Item
    BY <1>1
  <2> QED BY <1>2, <2>1 DEF LaneAssumption
<1> DEFINE Is(f) == f = [n \in 0..m |-> IF n = 0 THEN 0 ELSE f[n - 1] + Cost[items[n]]]
           IsToo(f) == f = [n \in 0..m |-> IF n = 0 THEN 0 ELSE f[n - 1] + cost[n]]
<1>4. ASSUME NEW f PROVE Is(f) <=> IsToo(f)
  <2>1. [n \in 0..m |-> IF n = 0 THEN 0 ELSE f[n - 1] + Cost[items[n]]]
        = [n \in 0..m |-> IF n = 0 THEN 0 ELSE f[n - 1] + cost[n]]
    BY <1>2
  <2> QED BY <2>1
<1>5. PICK f : f = CHOOSE g : Is(g)
  OBVIOUS
<1>6. Tokens(items) = f[m]
  BY <1>1, <1>5 DEF Tokens
<1>7. IsToo(f)
  <2>1. \E g : Is(g)
    <3>1. \E g : IsToo(g)
      BY <1>3, SumExists
    <3> HIDE DEF Is, IsToo
    <3> QED BY <1>4, <3>1
  <2> HIDE DEF Is, IsToo
  <2> QED BY <1>4, <1>5, <2>1
<1>8. f[0] = 0 /\ \A n \in 1..m : f[n] = f[n - 1] + cost[n]
  BY <1>7, SumUnfolds
<1>9. \A n \in 0..m : f[n] \in Nat
  <2>1. \A n \in 1..m : f[n - 1] \in Nat => f[n] \in Nat
    BY <1>3, <1>8
  <2>2. f[0] \in Nat
    BY <1>8
  <2> QED BY <2>1, <2>2, StaysIn, Zenon
<1> QED BY <1>1, <1>2, <1>6, <1>8, <1>9 DEF Sums

\* One more item adds its tokens.
LEMMA TokensAppend ==
  ASSUME LaneAssumption, NEW items \in Seq(Item), NEW item \in Item
  PROVE  /\ Tokens(items) \in Nat
         /\ Tokens(Append(items, item)) = Tokens(items) + Cost[item]
<1>1. PICK more : more = Append(items, item)
  OBVIOUS
<1>2. PICK m \in Nat : m = Len(items)
  OBVIOUS
<1>3. /\ more \in Seq(Item) /\ Len(more) = m + 1 /\ more[m + 1] = item
      /\ \A n \in 1..m : more[n] = items[n]
  BY <1>1, <1>2
<1>4. PICK f : Sums(f, items) /\ Tokens(items) = f[Len(items)]
  BY TokensDefined
<1>5. PICK g : Sums(g, more) /\ Tokens(more) = g[Len(more)]
  BY <1>3, TokensDefined
<1>6. /\ f[0] = 0 /\ \A n \in 1..m : f[n] = f[n - 1] + Cost[items[n]]
      /\ Tokens(items) = f[m] /\ f[m] \in Nat
  BY <1>2, <1>4 DEF Sums
<1>7. /\ g[0] = 0 /\ \A n \in 1..(m + 1) : g[n] = g[n - 1] + Cost[more[n]]
      /\ Tokens(more) = g[m + 1]
  BY <1>3, <1>5 DEF Sums
<1>8. f[m] = g[m]
  <2> DEFINE S == {n \in Nat : n <= m => f[n] = g[n]}
  <2>1. 0 \in S
    BY <1>6, <1>7
  <2>2. ASSUME NEW n \in 0..m, n < m, n \in S PROVE n + 1 \in S
    <3>1. n + 1 \in 1..m /\ n + 1 \in 1..(m + 1) /\ n + 1 - 1 = n /\ f[n] = g[n]
      BY <2>2
    <3>2. f[n + 1] = f[n + 1 - 1] + Cost[items[n + 1]] /\ g[n + 1] = g[n + 1 - 1] + Cost[more[n + 1]]
      BY <1>6, <1>7, <3>1
    <3> QED BY <1>3, <3>1, <3>2
  <2>3. \A n \in 0..m : n \in S
    <3> HIDE DEF S
    <3> QED BY <2>1, <2>2, InductionUpTo
  <2>4. m \in S
    <3> HIDE DEF S
    <3> QED BY <2>3
  <2> QED BY <2>4
<1>9. g[m + 1] = g[m] + Cost[item]
  <2>1. m + 1 \in 1..(m + 1) /\ m + 1 - 1 = m
    OBVIOUS
  <2>2. g[m + 1] = g[m + 1 - 1] + Cost[more[m + 1]]
    BY <1>7, <2>1
  <2> QED BY <1>3, <2>1, <2>2
<1> QED BY <1>1, <1>6, <1>7, <1>8, <1>9

LEMMA NonBlankTyped ==
  ASSUME LaneAssumption, NEW k \in Key
  PROVE  NonBlank(k) \in Seq(Item)
<1>1. PICK items \in Seq(Item) : items = ItemsOf[k]
  BY DEF LaneAssumption
<1>2. PICK m \in Nat : m = Len(items)
  OBVIOUS
<1>3. \A n \in 1..m : items[n] \in Item
  BY <1>2
<1> DEFINE Is(f) == f = [n \in 0..m |->
                           IF n = 0 THEN <<>>
                           ELSE IF Cost[items[n]] > 0 THEN Append(f[n - 1], items[n]) ELSE f[n - 1]]
<1>4. PICK f : Is(f) /\ NonBlank(k) = f[m]
  <2>1. PICK step : step = [p \in Nat \X Seq(Item) |->
                              IF p[1] \in 1..m /\ Cost[items[p[1]]] > 0
                              THEN Append(p[2], items[p[1]]) ELSE p[2]]
    OBVIOUS
  <2>2. ASSUME NEW n \in Nat, NEW s \in Seq(Item)
        PROVE  /\ step[<<n, s>>] = IF n \in 1..m /\ Cost[items[n]] > 0
                                   THEN Append(s, items[n]) ELSE s
               /\ step[<<n, s>>] \in Seq(Item)
    <3>1. step[<<n, s>>] = IF n \in 1..m /\ Cost[items[n]] > 0 THEN Append(s, items[n]) ELSE s
      BY <2>1
    <3> QED BY <1>3, <3>1
  <2>3. step \in [Nat \X Seq(Item) -> Seq(Item)]
    BY <2>1, <2>2
  <2>4. PICK g : Solves(g, Seq(Item), <<>>, step, m)
    <3>1. <<>> \in Seq(Item)
      OBVIOUS
    <3> QED BY <2>3, <3>1, RecursionDefines
  <2>5. ASSUME NEW n \in 0..m
        PROVE  g[n] = IF n = 0 THEN <<>>
                      ELSE IF Cost[items[n]] > 0 THEN Append(g[n - 1], items[n]) ELSE g[n - 1]
    <3>1. CASE n = 0
      BY <2>4, <3>1 DEF Solves
    <3>2. CASE n # 0
      <4>1. n \in 1..m /\ n - 1 \in 0..m /\ g[n - 1] \in Seq(Item)
        BY <2>4, <3>2 DEF Solves
      <4>2. g[n] = step[<<n, g[n - 1]>>]
        BY <2>4, <4>1 DEF Solves
      <4> QED BY <2>2, <3>2, <4>1, <4>2
    <3> QED BY <3>1, <3>2
  <2>6. Is(g)
    BY <2>4, <2>5 DEF Solves
  <2>7. PICK f : f = CHOOSE h : Is(h)
    OBVIOUS
  <2>8. NonBlank(k) = f[m]
    BY <1>1, <1>2, <2>7 DEF NonBlank
  <2>9. Is(f)
    <3> HIDE DEF Is
    <3> QED BY <2>6, <2>7
  <2> QED BY <2>8, <2>9
<1>5. \A n \in 0..m : f[n] = IF n = 0 THEN <<>>
                              ELSE IF Cost[items[n]] > 0 THEN Append(f[n - 1], items[n])
                              ELSE f[n - 1]
  BY <1>4
<1>6. \A n \in 0..m : f[n] \in Seq(Item)
  <2>1. f[0] \in Seq(Item)
    <3>1. 0 \in 0..m
      OBVIOUS
    <3>2. f[0] = <<>>
      BY <1>5, <3>1, Zenon
    <3> QED BY <3>2
  <2>2. ASSUME NEW n \in 1..m, f[n - 1] \in Seq(Item) PROVE f[n] \in Seq(Item)
    <3>1. n \in 0..m /\ n # 0 /\ items[n] \in Item
      BY <1>3
    <3>2. f[n] = IF Cost[items[n]] > 0 THEN Append(f[n - 1], items[n]) ELSE f[n - 1]
      BY <1>5, <3>1
    <3> QED BY <2>2, <3>1, <3>2
  <2> QED BY <2>1, <2>2, StaysIn
<1> QED BY <1>4, <1>6

\* The requests that split_to_budget has cut, and the one it is filling.
Parts == [out : SUBSET Seq(Item), current : Seq(Item)]

PartsOf(parts) == parts.out \union {parts.current}

\* No request of several items is over the budget.
KeepsBudget(ps) == \A part \in ps : Len(part) > 1 => Tokens(part) <= TokenBudget

Carries(ps, item) == \E part \in ps : item \in Range(part)

LEMMA FillKeeps ==
  ASSUME LaneAssumption, NEW parts \in Parts, NEW item \in Item
  PROVE  /\ Fill(parts, item) \in Parts
         /\ Carries(PartsOf(Fill(parts, item)), item)
         /\ \A other : Carries(PartsOf(parts), other) => Carries(PartsOf(Fill(parts, item)), other)
         /\ KeepsBudget(PartsOf(parts)) => KeepsBudget(PartsOf(Fill(parts, item)))
<1>1. PICK current \in Seq(Item) : current = parts.current
  BY DEF Parts
<1>2. PICK out \in SUBSET Seq(Item) : out = parts.out
  BY DEF Parts
<1>3. PICK filled : filled = Fill(parts, item)
  OBVIOUS
<1>4. CASE current # <<>> /\ Tokens(current) + Cost[item] > TokenBudget
  <2>1. PICK one : one = <<item>>
    OBVIOUS
  <2>2. one \in Seq(Item) /\ Len(one) = 1 /\ item \in Range(one)
    BY <2>1 DEF Range
  <2>3. filled = [out |-> out \union {current}, current |-> one]
    BY <1>1, <1>2, <1>3, <1>4, <2>1 DEF Fill
  <2>4. filled \in Parts /\ PartsOf(filled) = PartsOf(parts) \union {one}
    BY <1>1, <1>2, <2>2, <2>3 DEF Parts, PartsOf
  <2>5. KeepsBudget(PartsOf(parts)) => KeepsBudget(PartsOf(filled))
    <3>1. ~ (Len(one) > 1)
      BY <2>2
    <3> QED BY <2>4, <3>1, Zenon DEF KeepsBudget
  <2> QED BY <1>3, <2>2, <2>4, <2>5 DEF Carries
<1>5. CASE ~ (current # <<>> /\ Tokens(current) + Cost[item] > TokenBudget)
  <2>1. PICK longer : longer = Append(current, item)
    OBVIOUS
  <2>2. /\ longer \in Seq(Item) /\ Len(longer) = Len(current) + 1
        /\ longer[Len(current) + 1] = item
        /\ \A n \in 1..Len(current) : longer[n] = current[n]
    BY <2>1
  <2>3. item \in Range(longer) /\ Range(current) \subseteq Range(longer)
    <3>1. DOMAIN longer = 1..(Len(current) + 1) /\ DOMAIN current = 1..Len(current)
          /\ Len(current) \in Nat
      BY <2>2
    <3>2. \A n \in DOMAIN current : n \in DOMAIN longer /\ longer[n] = current[n]
      BY <2>2, <3>1
    <3>3. Len(current) + 1 \in DOMAIN longer
      BY <3>1
    <3>4. item \in Range(longer)
      BY <2>2, <3>3, Zenon DEF Range
    <3>5. ASSUME NEW x \in Range(current) PROVE x \in Range(longer)
      <4>1. PICK n \in DOMAIN current : current[n] = x
        BY DEF Range
      <4> QED BY <3>2, <4>1, Zenon DEF Range
    <3> QED BY <3>4, <3>5
  <2>4. filled = [parts EXCEPT !.current = longer]
    BY <1>1, <1>3, <1>5, <2>1 DEF Fill
  <2>5. filled \in Parts /\ filled.out = out /\ filled.current = longer
    BY <1>2, <2>2, <2>4 DEF Parts
  <2>6. PartsOf(filled) = out \union {longer} /\ PartsOf(parts) = out \union {current}
    BY <1>1, <1>2, <2>5 DEF PartsOf
  <2>7. KeepsBudget(PartsOf(parts)) => KeepsBudget(PartsOf(filled))
    <3>1. Len(longer) > 1 => Tokens(longer) <= TokenBudget
      <4>1. Tokens(current) \in Nat /\ Tokens(longer) = Tokens(current) + Cost[item]
        BY <2>1, TokensAppend
      <4>2. Cost[item] \in Nat /\ TokenBudget \in Nat
        BY DEF LaneAssumption
      <4>3. Len(longer) > 1 => current # <<>>
        BY <2>2
      <4> QED BY <1>5, <4>1, <4>2, <4>3
    <3> QED BY <2>6, <3>1 DEF KeepsBudget
  <2>8. \A other : Carries(PartsOf(parts), other) => Carries(PartsOf(filled), other)
    BY <2>3, <2>6 DEF Carries
  <2>9. Carries(PartsOf(filled), item)
    BY <2>3, <2>6 DEF Carries
  <2> QED BY <1>3, <2>5, <2>7, <2>8, <2>9
<1> QED BY <1>4, <1>5

\* The requests carry every item, none of several items is over the budget.
LEMMA SplitKeeps ==
  ASSUME LaneAssumption, NEW items \in Seq(Item)
  PROVE  /\ SplitToBudget(items) \subseteq Seq(Item)
         /\ KeepsBudget(SplitToBudget(items))
         /\ \A item \in Range(items) : Carries(SplitToBudget(items), item)
<1>1. PICK m \in Nat : m = Len(items)
  OBVIOUS
<1>2. (\A n \in 1..m : items[n] \in Item) /\ DOMAIN items = 1..m
  BY <1>1
<1>3. PICK start : start = [out |-> {}, current |-> <<>>]
  OBVIOUS
<1>4. start \in Parts /\ start.out = {} /\ start.current = <<>>
  BY <1>3 DEF Parts
<1> DEFINE Is(f) == f = [n \in 0..m |-> IF n = 0 THEN [out |-> {}, current |-> <<>>]
                                        ELSE Fill(f[n - 1], items[n])]
<1>5. PICK f : Is(f) /\ SplitToBudget(items) = PartsOf(f[m]) \ {<<>>}
  <2>1. PICK step : step = [p \in Nat \X Parts |-> IF p[1] \in 1..m THEN Fill(p[2], items[p[1]])
                                                   ELSE p[2]]
    OBVIOUS
  <2>2. ASSUME NEW n \in Nat, NEW parts \in Parts
        PROVE  /\ step[<<n, parts>>] = IF n \in 1..m THEN Fill(parts, items[n]) ELSE parts
               /\ step[<<n, parts>>] \in Parts
    <3>1. step[<<n, parts>>] = IF n \in 1..m THEN Fill(parts, items[n]) ELSE parts
      BY <2>1
    <3> QED BY <1>2, <3>1, FillKeeps
  <2>3. step \in [Nat \X Parts -> Parts]
    BY <2>1, <2>2
  <2>4. PICK g : Solves(g, Parts, start, step, m)
    BY <1>4, <2>3, RecursionDefines
  <2>5. ASSUME NEW n \in 0..m
        PROVE  g[n] = IF n = 0 THEN [out |-> {}, current |-> <<>>] ELSE Fill(g[n - 1], items[n])
    <3>1. CASE n = 0
      BY <1>3, <2>4, <3>1 DEF Solves
    <3>2. CASE n # 0
      <4>1. n \in 1..m /\ n - 1 \in 0..m /\ g[n - 1] \in Parts
        <5>1. n \in 1..m /\ n - 1 \in 0..m
          BY <3>2
        <5>2. g \in [0..m -> Parts]
          BY <2>4 DEF Solves
        <5> QED BY <5>1, <5>2
      <4>2. g[n] = step[<<n, g[n - 1]>>]
        BY <2>4, <4>1 DEF Solves
      <4> QED BY <2>2, <3>2, <4>1, <4>2
    <3> QED BY <3>1, <3>2
  <2>6. Is(g)
    BY <2>4, <2>5 DEF Solves
  <2>7. PICK f : f = CHOOSE h : Is(h)
    OBVIOUS
  <2>8. SplitToBudget(items) = PartsOf(f[m]) \ {<<>>}
    BY <1>1, <2>7 DEF SplitToBudget, PartsOf
  <2>9. Is(f)
    <3> HIDE DEF Is
    <3> QED BY <2>6, <2>7
  <2> QED BY <2>8, <2>9
<1>6. \A n \in 0..m : f[n] = IF n = 0 THEN [out |-> {}, current |-> <<>>]
                             ELSE Fill(f[n - 1], items[n])
  BY <1>5
<1>7. f[0] = start
  <2>1. 0 \in 0..m
    OBVIOUS
  <2> QED BY <1>3, <1>6, <2>1, Zenon
<1>8. \A n \in 1..m : f[n] = Fill(f[n - 1], items[n])
  <2>1. \A n \in 1..m : n \in 0..m /\ n # 0
    OBVIOUS
  <2> QED BY <1>6, <2>1, Zenon
<1> DEFINE S == {n \in Nat : n <= m =>
                   /\ f[n] \in Parts /\ KeepsBudget(PartsOf(f[n]))
                   /\ \A k \in 1..n : Carries(PartsOf(f[n]), items[k])}
<1>9. 0 \in S
  <2>1. KeepsBudget(PartsOf(start))
    <3>1. PartsOf(start) = {<<>>}
      BY <1>4 DEF PartsOf
    <3>2. ~ (Len(<<>>) > 1)
      OBVIOUS
    <3> QED BY <3>1, <3>2, Zenon DEF KeepsBudget
  <2> QED BY <1>4, <1>7, <2>1
<1>10. ASSUME NEW n \in 0..m, n < m, n \in S PROVE n + 1 \in S
  <2>1. n + 1 \in 1..m /\ n + 1 - 1 = n /\ f[n] \in Parts /\ KeepsBudget(PartsOf(f[n]))
        /\ \A k \in 1..n : Carries(PartsOf(f[n]), items[k])
    BY <1>10
  <2>2. f[n + 1] = Fill(f[n], items[n + 1])
    BY <1>8, <2>1
  <2>3. /\ f[n + 1] \in Parts
        /\ Carries(PartsOf(f[n + 1]), items[n + 1])
        /\ \A other : Carries(PartsOf(f[n]), other) => Carries(PartsOf(f[n + 1]), other)
        /\ KeepsBudget(PartsOf(f[n + 1]))
    BY <1>2, <2>1, <2>2, FillKeeps
  <2>4. \A k \in 1..(n + 1) : Carries(PartsOf(f[n + 1]), items[k])
    <3>1. \A k \in 1..(n + 1) : k \in 1..n \/ k = n + 1
      OBVIOUS
    <3> QED BY <2>1, <2>3, <3>1
  <2> QED BY <2>3, <2>4
<1>11. m \in S
  <2>1. m \in 0..m
    OBVIOUS
  <2> HIDE DEF S
  <2> QED BY <1>9, <1>10, <2>1, InductionUpTo
<1>12. /\ f[m] \in Parts /\ KeepsBudget(PartsOf(f[m]))
       /\ \A k \in 1..m : Carries(PartsOf(f[m]), items[k])
  BY <1>11
<1>13. SplitToBudget(items) \subseteq Seq(Item) /\ KeepsBudget(SplitToBudget(items))
  BY <1>5, <1>12 DEF Parts, PartsOf, KeepsBudget
<1>14. ASSUME NEW item \in Range(items) PROVE Carries(SplitToBudget(items), item)
  <2>1. PICK k \in 1..m : items[k] = item
    BY <1>2 DEF Range
  <2>2. PICK part \in PartsOf(f[m]) : item \in Range(part)
    BY <1>12, <2>1 DEF Carries
  <2>3. part # <<>>
    BY <2>2 DEF Range
  <2> QED BY <1>5, <2>2, <2>3 DEF Carries
<1> QED BY <1>13, <1>14

LEMMA RangeOfConcat ==
  ASSUME NEW V, NEW s \in Seq(V), NEW t \in Seq(V)
  PROVE  s \o t \in Seq(V) /\ Range(s) \subseteq Range(s \o t) /\ Range(t) \subseteq Range(s \o t)
<1>1. PICK u : u = s \o t
  OBVIOUS
<1>2. PICK m \in Nat, n \in Nat : m = Len(s) /\ n = Len(t)
  OBVIOUS
<1>3. /\ DOMAIN s = 1..m /\ DOMAIN t = 1..n /\ DOMAIN u = 1..(m + n) /\ u \in Seq(V)
      /\ \A k \in 1..m : u[k] = s[k]
      /\ \A k \in 1..n : u[m + k] = t[k]
  BY <1>1, <1>2
<1>4. ASSUME NEW x \in Range(s) PROVE x \in Range(u)
  <2>1. PICK k \in DOMAIN s : s[k] = x
    BY DEF Range
  <2>2. k \in DOMAIN u /\ u[k] = x
    BY <1>3, <2>1
  <2> QED BY <2>2, Zenon DEF Range
<1>5. ASSUME NEW x \in Range(t) PROVE x \in Range(u)
  <2>1. PICK k \in DOMAIN t : t[k] = x
    BY DEF Range
  <2>2. m + k \in DOMAIN u /\ u[m + k] = x
    BY <1>3, <2>1
  <2> QED BY <2>2, Zenon DEF Range
<1> QED BY <1>1, <1>3, <1>4, <1>5

\* The claimed jobs: what plan is given.
Claimed(held, S) == S \subseteq JobId /\ held \in [S -> Snapshot]

LEMMA MergedKeeps ==
  ASSUME StoreAssumption, LaneAssumption, NEW S, NEW held, Claimed(held, S), NEW riders \in SUBSET S
  PROVE  /\ Merged(held, riders) \in Seq(Item)
         /\ \A i \in riders : Range(NonBlank(held[i].key)) \subseteq Range(Merged(held, riders))
<1>1. /\ MaxJobs \in Nat /\ S \subseteq 1..MaxJobs
      /\ \A i \in riders : NonBlank(held[i].key) \in Seq(Item)
  BY NonBlankTyped DEF StoreAssumption, JobId, Claimed, Snapshot
<1> DEFINE Is(f) == f = [n \in 0..MaxJobs |->
                           IF n = 0 THEN <<>>
                           ELSE IF n \in riders THEN NonBlank(held[n].key) \o f[n - 1] ELSE f[n - 1]]
<1>2. PICK f : Is(f) /\ Merged(held, riders) = f[MaxJobs]
  <2>1. PICK step : step = [p \in Nat \X Seq(Item) |->
                              IF p[1] \in riders THEN NonBlank(held[p[1]].key) \o p[2] ELSE p[2]]
    OBVIOUS
  <2>2. ASSUME NEW n \in Nat, NEW s \in Seq(Item)
        PROVE  /\ step[<<n, s>>] = IF n \in riders THEN NonBlank(held[n].key) \o s ELSE s
               /\ step[<<n, s>>] \in Seq(Item)
    <3>1. step[<<n, s>>] = IF n \in riders THEN NonBlank(held[n].key) \o s ELSE s
      BY <2>1
    <3>2. CASE n \in riders
      <4>1. NonBlank(held[n].key) \o s \in Seq(Item)
        BY <1>1, <3>2
      <4> QED BY <3>1, <3>2, <4>1
    <3> QED BY <3>1, <3>2
  <2>3. step \in [Nat \X Seq(Item) -> Seq(Item)]
    BY <2>1, <2>2
  <2>4. PICK g : Solves(g, Seq(Item), <<>>, step, MaxJobs)
    <3>1. <<>> \in Seq(Item)
      OBVIOUS
    <3> QED BY <1>1, <2>3, <3>1, RecursionDefines
  <2>5. ASSUME NEW n \in 0..MaxJobs
        PROVE  g[n] = IF n = 0 THEN <<>>
                      ELSE IF n \in riders THEN NonBlank(held[n].key) \o g[n - 1] ELSE g[n - 1]
    <3>1. CASE n = 0
      BY <2>4, <3>1 DEF Solves
    <3>2. CASE n # 0
      <4>1. n \in 1..MaxJobs /\ n - 1 \in 0..MaxJobs
        BY <1>1, <3>2
      <4>2. g[n] = step[<<n, g[n - 1]>>] /\ g[n - 1] \in Seq(Item)
        BY <2>4, <4>1 DEF Solves
      <4> QED BY <2>2, <3>2, <4>1, <4>2
    <3> QED BY <3>1, <3>2
  <2>6. Is(g)
    BY <2>4, <2>5 DEF Solves
  <2>7. PICK f : f = CHOOSE h : Is(h)
    OBVIOUS
  <2>8. Merged(held, riders) = f[MaxJobs]
    BY <2>7 DEF Merged
  <2>9. Is(f)
    <3> HIDE DEF Is
    <3> QED BY <2>6, <2>7
  <2> QED BY <2>8, <2>9
<1>3. \A n \in 0..MaxJobs : f[n] = IF n = 0 THEN <<>>
                                   ELSE IF n \in riders THEN NonBlank(held[n].key) \o f[n - 1]
                                   ELSE f[n - 1]
  BY <1>2
<1> DEFINE Good(n) == /\ f[n] \in Seq(Item)
                      /\ \A i \in riders : i <= n => Range(NonBlank(held[i].key)) \subseteq Range(f[n])
           T == {n \in Nat : n <= MaxJobs => Good(n)}
<1>4. Good(0)
  <2>1. 0 \in 0..MaxJobs
    BY <1>1
  <2>2. f[0] = <<>>
    BY <1>3, <2>1, Zenon
  <2>3. \A i \in riders : ~ (i <= 0)
    BY <1>1
  <2>4. <<>> \in Seq(Item)
    OBVIOUS
  <2> QED BY <2>2, <2>3, <2>4, Zenon
<1>5. ASSUME NEW n \in 0..MaxJobs, n < MaxJobs, Good(n) PROVE Good(n + 1)
  <2>1. /\ n + 1 \in 0..MaxJobs /\ n + 1 # 0 /\ n + 1 - 1 = n
        /\ \A i \in riders : i <= n + 1 => i <= n \/ i = n + 1
    BY <1>1, <1>5
  <2>2. f[n + 1] = IF n + 1 \in riders THEN NonBlank(held[n + 1].key) \o f[n] ELSE f[n]
    <3>1. PICK k \in 0..MaxJobs : k = n + 1 /\ k # 0 /\ k - 1 = n
      BY <2>1
    <3>2. f[k] = IF k \in riders THEN NonBlank(held[k].key) \o f[k - 1] ELSE f[k - 1]
      BY <1>3, <3>1, Zenon
    <3> QED BY <3>1, <3>2, Zenon
  <2>3. CASE n + 1 \in riders
    <3>1. PICK s \in Seq(Item) : s = NonBlank(held[n + 1].key)
      BY <1>1, <2>3
    <3>2. f[n + 1] = s \o f[n]
      BY <2>2, <2>3, <3>1
    <3>3. f[n + 1] \in Seq(Item) /\ Range(s) \subseteq Range(f[n + 1]) /\ Range(f[n]) \subseteq Range(f[n + 1])
      BY <1>5, <3>2, RangeOfConcat
    <3>4. ASSUME NEW i \in riders, i <= n + 1
          PROVE  Range(NonBlank(held[i].key)) \subseteq Range(f[n + 1])
      <4>1. CASE i <= n
        BY <1>5, <3>3, <4>1
      <4>2. CASE i = n + 1
        BY <3>1, <3>3, <4>2
      <4> QED BY <2>1, <3>4, <4>1, <4>2
    <3> QED BY <3>3, <3>4
  <2>4. CASE n + 1 \notin riders
    <3>1. f[n + 1] = f[n] /\ \A i \in riders : i <= n + 1 => i <= n
      BY <2>1, <2>2, <2>4
    <3> QED BY <1>5, <3>1
  <2> QED BY <2>3, <2>4
<1>6. Good(MaxJobs)
  <2>1. MaxJobs \in 0..MaxJobs /\ 0 <= MaxJobs
    BY <1>1
  <2> HIDE DEF Good
  <2>2. 0 \in T
    BY <1>4
  <2>3. ASSUME NEW n \in 0..MaxJobs, n < MaxJobs, n \in T PROVE n + 1 \in T
    BY <1>1, <1>5, <2>3
  <2>4. MaxJobs \in T
    <3> HIDE DEF T
    <3> QED BY <1>1, <2>1, <2>2, <2>3, InductionUpTo
  <2> QED BY <2>1, <2>4
<1>7. \A i \in riders : i <= MaxJobs
  BY <1>1
<1> QED BY <1>2, <1>6, <1>7

-----------------------------------------------------------------------------
(* The plan.                                                               *)

Readable(held, S) == {i \in S : held[i].key \notin Unreadable}

\* What the code that runs the batches relies on, of one batch: its jobs are
\* readable, they are one or all on their first attempts, and what several send
\* keeps to the budget.
BatchIsFair(b, held, S) ==
  /\ b \in Batch
  /\ b.jobs \subseteq Readable(held, S)
  /\ \A i \in b.jobs : b.jobs = {i} \/ held[i].attempts < SoloFromAttempt
  /\ Cardinality(b.jobs) > 1 /\ Len(b.items) > 1 => Tokens(b.items) <= TokenBudget

\* A readable job is in the plan with all that it would send.
JobIsPlanned(i, held, plan) ==
  /\ \E b \in plan : i \in b.jobs
  /\ \A item \in Range(NonBlank(held[i].key)) :
       \E b \in plan : i \in b.jobs /\ b.group = GroupOf[held[i].key] /\ item \in Range(b.items)

\* A suspect, or a job with nothing to send.
SoloBatch(held, i) ==
  [group |-> GroupOf[held[i].key], jobs |-> {i}, items |-> NonBlank(held[i].key)]

Solo(held, S) == {i \in Readable(held, S) : Alone(held[i])}

Riders(held, S, g) == {i \in Readable(held, S) \ Solo(held, S) : GroupOf[held[i].key] = g}

LEMMA PlanIs ==
  ASSUME NEW S, NEW held, Claimed(held, S)
  PROVE  Plan(held) =
           {SoloBatch(held, i) : i \in Solo(held, S)}
           \union
           UNION {{[group |-> g, jobs |-> Riders(held, S, g), items |-> part] :
                     part \in SplitToBudget(Merged(held, Riders(held, S, g)))} : g \in Group}
<1>1. DOMAIN held = S
  BY DEF Claimed
<1> QED BY <1>1 DEF Plan, Solo, Riders, Readable, SoloBatch

LEMMA SoloBatchIsFair ==
  ASSUME LaneAssumption, NEW S, NEW held, Claimed(held, S), NEW i \in Solo(held, S)
  PROVE  BatchIsFair(SoloBatch(held, i), held, S)
<1>1. i \in Readable(held, S) /\ i \in JobId /\ held[i].key \in Key
  BY DEF Solo, Readable, Claimed, Snapshot
<1>2. NonBlank(held[i].key) \in Seq(Item) /\ GroupOf[held[i].key] \in Group
  BY <1>1, NonBlankTyped DEF LaneAssumption
<1>3. PICK b : b = SoloBatch(held, i)
  OBVIOUS
<1>4. b.jobs = {i} /\ b \in Batch
  BY <1>1, <1>2, <1>3 DEF SoloBatch, Batch
<1>5. Cardinality({i}) = 1
  BY FS_Singleton
<1>6. ~ (Cardinality(b.jobs) > 1)
  BY <1>4, <1>5
<1>7. \A j \in b.jobs : b.jobs = {j}
  BY <1>4
<1> QED BY <1>1, <1>3, <1>4, <1>6, <1>7 DEF BatchIsFair

LEMMA MergedBatchIsFair ==
  ASSUME StoreAssumption, RunnerAssumption, LaneAssumption, NEW S, NEW held, Claimed(held, S),
         NEW g \in Group, NEW part \in SplitToBudget(Merged(held, Riders(held, S, g)))
  PROVE  BatchIsFair([group |-> g, jobs |-> Riders(held, S, g), items |-> part], held, S)
<1>1. PICK riders : riders = Riders(held, S, g)
  OBVIOUS
<1>2. riders \in SUBSET S /\ riders \subseteq Readable(held, S) /\ riders \in SUBSET JobId
  BY <1>1 DEF Riders, Readable, Claimed
<1>3. Merged(held, riders) \in Seq(Item)
  BY <1>2, MergedKeeps
<1>4. part \in Seq(Item) /\ (Len(part) > 1 => Tokens(part) <= TokenBudget)
  BY <1>1, <1>3, SplitKeeps DEF KeepsBudget
<1>5. PICK b : b = [group |-> g, jobs |-> riders, items |-> part]
  OBVIOUS
<1>6. b \in Batch /\ b.jobs = riders /\ b.items = part
  BY <1>2, <1>4, <1>5 DEF Batch
<1>7. \A i \in riders : held[i].attempts < SoloFromAttempt
  <2> SUFFICES ASSUME NEW i \in riders PROVE held[i].attempts < SoloFromAttempt
    OBVIOUS
  <2>1. ~ Alone(held[i]) /\ held[i] \in Snapshot
    BY <1>1, <1>2 DEF Riders, Solo, Claimed
  <2>2. held[i].attempts \in Nat /\ SoloFromAttempt \in Nat
    BY <2>1 DEF Snapshot, LaneAssumption, RunnerAssumption
  <2> QED BY <2>1, <2>2 DEF Alone
<1> QED BY <1>1, <1>2, <1>4, <1>5, <1>6, <1>7 DEF BatchIsFair

\* What the plan leaves out is what cannot be read.
LEMMA PlanKeeps ==
  ASSUME StoreAssumption, RunnerAssumption, LaneAssumption, NEW S, NEW held, Claimed(held, S)
  PROVE  /\ \A b \in Plan(held) : BatchIsFair(b, held, S)
         /\ \A i \in Readable(held, S) : JobIsPlanned(i, held, Plan(held))
<1>1. PICK plan : plan = Plan(held)
  OBVIOUS
<1>2. \A b \in plan :
        \/ \E i \in Solo(held, S) : b = SoloBatch(held, i)
        \/ \E g \in Group : \E part \in SplitToBudget(Merged(held, Riders(held, S, g))) :
             b = [group |-> g, jobs |-> Riders(held, S, g), items |-> part]
  BY <1>1, PlanIs
<1>3. \A i \in Solo(held, S) : SoloBatch(held, i) \in plan
  BY <1>1, PlanIs
<1>4. \A g \in Group : \A part \in SplitToBudget(Merged(held, Riders(held, S, g))) :
        [group |-> g, jobs |-> Riders(held, S, g), items |-> part] \in plan
  BY <1>1, PlanIs
<1>5. ASSUME NEW b \in plan PROVE BatchIsFair(b, held, S)
  <2>1. ASSUME NEW i \in Solo(held, S), b = SoloBatch(held, i) PROVE BatchIsFair(b, held, S)
    BY <2>1, SoloBatchIsFair
  <2>2. ASSUME NEW g \in Group, NEW part \in SplitToBudget(Merged(held, Riders(held, S, g))),
               b = [group |-> g, jobs |-> Riders(held, S, g), items |-> part]
        PROVE  BatchIsFair(b, held, S)
    BY <2>2, MergedBatchIsFair
  <2> QED BY <1>2, <2>1, <2>2
<1>6. ASSUME NEW i \in Solo(held, S) PROVE JobIsPlanned(i, held, plan)
  <2>1. PICK b \in plan : b = SoloBatch(held, i)
    BY <1>3
  <2>2. i \in b.jobs /\ b.group = GroupOf[held[i].key] /\ b.items = NonBlank(held[i].key)
    BY <2>1 DEF SoloBatch
  <2> QED BY <2>2 DEF JobIsPlanned
<1>7. ASSUME NEW i \in Readable(held, S) \ Solo(held, S) PROVE JobIsPlanned(i, held, plan)
  <2>1. held[i].key \in Key /\ ~ Alone(held[i])
    BY <1>7 DEF Solo, Readable, Claimed, Snapshot
  <2>2. PICK g \in Group : g = GroupOf[held[i].key]
    BY <2>1 DEF LaneAssumption
  <2>3. PICK riders : riders = Riders(held, S, g)
    OBVIOUS
  <2>4. i \in riders /\ riders \in SUBSET S
    BY <1>7, <2>2, <2>3 DEF Riders, Readable
  <2>5. PICK items \in Seq(Item) : items = Merged(held, riders)
    BY <2>4, MergedKeeps
  <2>6. Range(NonBlank(held[i].key)) \subseteq Range(items)
    BY <2>4, <2>5, MergedKeeps
  <2>7. ASSUME NEW item \in Range(NonBlank(held[i].key))
        PROVE  \E b \in plan : i \in b.jobs /\ b.group = GroupOf[held[i].key] /\ item \in Range(b.items)
    <3>1. PICK part \in SplitToBudget(items) : item \in Range(part)
      BY <2>5, <2>6, SplitKeeps DEF Carries
    <3>2. PICK b \in plan : b = [group |-> g, jobs |-> riders, items |-> part]
      BY <1>4, <2>3, <2>5, <3>1
    <3> QED BY <2>2, <2>4, <3>1, <3>2
  <2>8. \E item : item \in Range(NonBlank(held[i].key))
    <3>1. PICK s \in Seq(Item) : s = NonBlank(held[i].key)
      BY <2>1, NonBlankTyped
    <3>2. s # <<>>
      BY <2>1, <3>1 DEF Alone
    <3>3. 1 \in DOMAIN s
      BY <3>2
    <3>4. s[1] \in Range(s)
      BY <3>3, Zenon DEF Range
    <3> QED BY <3>1, <3>4, Zenon
  <2> QED BY <2>7, <2>8 DEF JobIsPlanned
<1> QED BY <1>1, <1>5, <1>6, <1>7

-----------------------------------------------------------------------------
(* The invariant.                                                          *)

\* The lane works embed jobs alone.
EmbedsOnly == \A d \in Daemon : \A i \in Held(d) : KindOf[claim[d][i].key] = "embed"

\* No batch carries a job that cannot be read.
CarriedAreReadable == \A d \in Daemon : \A i \in Misread(d) : i \notin Touched

\* A job that shares its requests is no suspect yet.
SharersAreFresh ==
  \A d \in Daemon : \A i \in Held(d) : \A b \in DOMAIN calls :
    i \in b.jobs => b.jobs = {i} \/ claim[d][i].attempts < SoloFromAttempt

\* A call that landed bought its vectors; one that failed is remembered by each
\* of its jobs.
CallsAccount ==
  \A b \in DOMAIN calls :
    /\ calls[b] # "panicked"
    /\ calls[b] = "ok" => Bought(b) \subseteq stored
    /\ calls[b] \in Fault => \A i \in b.jobs : broken[i] # NoBatch

BrokenAccounts ==
  \A i \in JobId : broken[i] # NoBatch =>
    broken[i] \in DOMAIN calls /\ i \in broken[i].jobs /\ calls[broken[i]] \in Fault

LaneInv ==
  /\ IInv
  /\ PlanAccounts
  /\ EmbedsOnly
  /\ CarriedAreReadable
  /\ SharersAreFresh
  /\ CallsAccount
  /\ BrokenAccounts
  /\ DoneMeansBought


-----------------------------------------------------------------------------
(* What a step of the lane does to the rows.                               *)

\* Rows keep their keys, and none outside S comes to an end.
EndsOnly(S) ==
  /\ DOMAIN jobs' = DOMAIN jobs
  /\ \A i \in DOMAIN jobs :
       /\ jobs'[i].key = jobs[i].key
       /\ i \notin S /\ jobs'[i].state \in {"done", "failed"} => jobs'[i].state = jobs[i].state

LEMMA TameEndsNothing ==
  ASSUME NEW S, Tame(S), SupersededIsTerminal, DOMAIN jobs' = DOMAIN jobs
  PROVE  EndsOnly({})
BY DEF Tame, NoNewOwner, NoNewOutcome, SupersededIsTerminal, OpenFailure, EndsOnly

LEMMA SameRowsEndNothing == ASSUME jobs' = jobs PROVE EndsOnly({})
BY DEF EndsOnly

LEMMA ClaimEndsNothing ==
  ASSUME IInv, NEW kinds, NEW S \in SUBSET Ready(kinds), ClaimJobs(S)
  PROVE  EndsOnly({})
<1>1. DOMAIN jobs' = DOMAIN jobs
  BY Zenon DEF ClaimJobs, Update
<1> QED BY <1>1, ClaimIsTame, TameEndsNothing, IInvStore

Hopeless(task, outcome) == Verdict(outcome, task.attempts, task.parks) = "fail"

LEMMA SettleEnds ==
  ASSUME IInv, NEW d \in Daemon, NEW id \in JobId, NEW outcome \in Outcome,
         Settle(d, id, outcome)
  PROVE  /\ EndsOnly({id})
         /\ id \in DOMAIN jobs =>
              /\ jobs'[id].state = "done" => outcome = "ok"
              /\ jobs'[id].state = "failed" => Hopeless(claim[d][id], outcome)
<1>1. PICK verdict \in {"complete", "park", "retry", "fail"} :
        /\ verdict = Verdict(outcome, claim[d][id].attempts, claim[d][id].parks)
        /\ Write(id, verdict, outcome)
  BY VerdictIsOne DEF Settle
<1>2. \A i \in DOMAIN jobs : jobs[i] \in Row
  BY RowsTyped, IInvStore
<1>3. CASE verdict = "complete"
  <2>1. CompleteJob(id) /\ outcome = "ok"
    BY <1>1, <1>3 DEF Write, Verdict
  <2> DEFINE Done(r) == [r EXCEPT !.state = "done", !.terminal = FALSE, !.superseded_by = 0]
             Superseded(r) == [r EXCEPT !.superseded_by = id]
             Open(i) == /\ id \in DOMAIN jobs
                        /\ jobs[i].key = jobs[id].key
                        /\ jobs[i].state = "failed"
                        /\ jobs[i].superseded_by = 0
  <2>2. jobs' = [i \in DOMAIN jobs |-> IF i = id THEN Done(jobs[i])
                                      ELSE IF Open(i) THEN Superseded(jobs[i]) ELSE jobs[i]]
    BY <2>1, Zenon DEF CompleteJob
  <2>3. ASSUME NEW r \in Row
        PROVE  /\ Done(r).state = "done" /\ Done(r).key = r.key
               /\ Superseded(r).state = r.state /\ Superseded(r).key = r.key
    BY DEF Row
  <2> HIDE DEF Done, Superseded, Open
  <2>4. EndsOnly({id}) /\ (id \in DOMAIN jobs => jobs'[id].state = "done")
    BY <1>2, <2>2, <2>3 DEF EndsOnly
  <2> QED BY <2>1, <2>4
<1>4. CASE verdict = "park"
  <2>1. ParkJob(id)
    BY <1>1, <1>4 DEF Write
  <2> DEFINE New(r) == [r EXCEPT !.state = "pending", !.due = FALSE,
                                 !.attempts = Refunded(@), !.parks = @ + 1]
  <2>2. jobs' = [i \in DOMAIN jobs |-> IF i \in {id} THEN New(jobs[i]) ELSE jobs[i]]
    BY <2>1, Zenon DEF ParkJob, Update
  <2>3. ASSUME NEW r \in Row PROVE New(r).state = "pending" /\ New(r).key = r.key
    BY DEF Row
  <2> HIDE DEF New
  <2>4. EndsOnly({id}) /\ (id \in DOMAIN jobs => jobs'[id].state = "pending")
    BY <1>2, <2>2, <2>3 DEF EndsOnly
  <2> QED BY <2>4
<1>5. CASE verdict = "retry"
  <2>1. RetryJob(id)
    BY <1>1, <1>5 DEF Write
  <2> DEFINE New(r) == [r EXCEPT !.state = "pending", !.due = FALSE]
  <2>2. jobs' = [i \in DOMAIN jobs |-> IF i \in {id} THEN New(jobs[i]) ELSE jobs[i]]
    BY <2>1, Zenon DEF RetryJob, Update
  <2>3. ASSUME NEW r \in Row PROVE New(r).state = "pending" /\ New(r).key = r.key
    BY DEF Row
  <2> HIDE DEF New
  <2>4. EndsOnly({id}) /\ (id \in DOMAIN jobs => jobs'[id].state = "pending")
    BY <1>2, <2>2, <2>3 DEF EndsOnly
  <2> QED BY <2>4
<1>6. CASE verdict = "fail"
  <2>1. FailJob(id, ~ Retryable(outcome))
    BY <1>1, <1>6 DEF Write
  <2> DEFINE New(r) == [r EXCEPT !.state = "failed", !.terminal = ~ Retryable(outcome),
                                 !.superseded_by = 0]
  <2>2. jobs' = [i \in DOMAIN jobs |-> IF i \in {id} THEN New(jobs[i]) ELSE jobs[i]]
    BY <2>1, Zenon DEF FailJob, Update
  <2>3. ASSUME NEW r \in Row PROVE New(r).state = "failed" /\ New(r).key = r.key
    BY DEF Row
  <2> HIDE DEF New
  <2>4. EndsOnly({id}) /\ (id \in DOMAIN jobs => jobs'[id].state = "failed")
    BY <1>2, <2>2, <2>3 DEF EndsOnly
  <2> QED BY <1>1, <1>6, <2>4 DEF Hopeless
<1> QED BY <1>3, <1>4, <1>5, <1>6

LEMMA BootEndsNothing ==
  ASSUME IInv, NEW d \in Daemon, Boot(d)
  PROVE  EndsOnly({}) /\ DropsOnly({})
<1>1. claim' = claim
  BY DEF Boot, TakeDaemonLock, SweepRunning, RetireEmpty, ReviveFailed, Serve, BootFails,
         daemonVars
<1>2. \/ jobs' = jobs
      \/ RequeueRunning \/ RetireEmptyEmbedJobs \/ RequeueFailed(Enrichment)
  BY DEF Boot, TakeDaemonLock, SweepRunning, RetireEmpty, ReviveFailed, Serve, BootFails
<1>3. jobs' # jobs => DOMAIN jobs' = DOMAIN jobs
  <2>1. CASE RequeueRunning
    BY <2>1, Zenon DEF RequeueRunning, Update
  <2>2. CASE RetireEmptyEmbedJobs
    BY <2>2, Zenon DEF RetireEmptyEmbedJobs, Update
  <2>3. CASE RequeueFailed(Enrichment)
    BY <2>3, Zenon DEF RequeueFailed, Update
  <2> QED BY <1>2, <2>1, <2>2, <2>3
<1>4. EndsOnly({})
  BY <1>2, <1>3, SameRowsEndNothing, TameEndsNothing, RequeueIsTame, RetireIsTame,
     ReviveIsTame, IInvStore
<1> QED BY <1>1, <1>4, DropsNothing

LEMMA StopEndsNothing ==
  ASSUME IInv, NEW d \in Daemon, Stop(d)
  PROVE  EndsOnly({}) /\ DropsOnly({})
<1>1. claim' = claim \/ claim' = [claim EXCEPT ![d] = NoClaims]
  BY DEF Stop, Signal, StopRunner, ReleaseClaims, DropLock, Crash
<1>2. jobs' = jobs \/ ReleaseRunning
  BY DEF Stop, Signal, StopRunner, ReleaseClaims, DropLock, Crash
<1>3. jobs' # jobs => DOMAIN jobs' = DOMAIN jobs
  BY <1>2, Zenon DEF ReleaseRunning, Update
<1>4. EndsOnly({})
  BY <1>2, <1>3, SameRowsEndNothing, TameEndsNothing, ReleaseIsTame, IInvStore
<1> QED BY <1>1, <1>4, DropsNothing, NoClaimsTyped, IInvStore

LEMMA TimeEndsNothing ==
  ASSUME IInv, NEW i \in JobId, TimePasses(i)
  PROVE  EndsOnly({}) /\ DropsOnly({})
<1>1. Elapse(i) /\ claim' = claim
  BY DEF TimePasses, daemonVars
<1>2. DOMAIN jobs' = DOMAIN jobs
  BY <1>1 DEF Elapse, Update
<1> QED BY <1>1, <1>2, ElapseIsTame, TameEndsNothing, DropsNothing, IInvStore

\* The end of a task is born of its claim.
LEMMA ForgetDrops ==
  ASSUME IInv, NEW d \in Daemon, NEW i \in JobId, Forget(d, i)
  PROVE  DropsOnly({})
BY IInvStore DEF DaemonsTyped, Forget, DropsOnly


-----------------------------------------------------------------------------
(* The tasks of a claim, and what they carry.                              *)

IsBought(k) == \A item \in Range(NonBlank(k)) \ Unheld : <<GroupOf[k], item>> \in stored

\* As long as the calls stay the same ones, tasks only leave.
LEMMA CarriedStay ==
  ASSUME PlanAccounts, EmbedsOnly, CarriedAreReadable, SharersAreFresh,
         DropsOnly({}), DOMAIN calls' = DOMAIN calls, LaneTypeOK'
  PROVE  PlanAccounts' /\ EmbedsOnly' /\ CarriedAreReadable' /\ SharersAreFresh'
<1>1. \A d \in Daemon : \A i \in Held(d)' : i \in Held(d) /\ claim'[d][i] = claim[d][i]
  BY DEF DropsOnly, Held
<1>2. \A d \in Daemon : \A i \in Held(d)' : i \in Misread(d)' <=> i \in Misread(d)
  BY <1>1 DEF Misread
<1>3. \A d \in Daemon : Misread(d)' \subseteq Held(d)'
  BY DEF Misread
<1>4. Touched' = Touched
  BY DEF Touched
<1>5. PlanAccounts'
  BY <1>1, <1>2, <1>4 DEF PlanAccounts
<1>6. EmbedsOnly'
  BY <1>1 DEF EmbedsOnly
<1>7. CarriedAreReadable'
  BY <1>2, <1>3, <1>4 DEF CarriedAreReadable
<1>8. SharersAreFresh'
  BY <1>1 DEF SharersAreFresh
<1> QED BY <1>5, <1>6, <1>7, <1>8

LEMMA LaneTyped == ASSUME IInv', LaneTypeOK, UNCHANGED laneVars PROVE LaneTypeOK'
BY DEF LaneTypeOK, laneVars, IInv

\* A step of the rows: what comes to be done has all it calls for.
LEMMA RowStepKeeps ==
  ASSUME LaneInv, IInv', NEW S, EndsOnly(S), DropsOnly({}), UNCHANGED laneVars,
         \A i \in S \intersect DOMAIN jobs :
           jobs'[i].state = "done" => IsBought(jobs[i].key)
  PROVE  LaneInv'
<1>1. calls' = calls /\ broken' = broken /\ stored' = stored
  BY DEF laneVars
<1>2. LaneTypeOK'
  BY LaneTyped DEF LaneInv, PlanAccounts
<1>3. PlanAccounts' /\ EmbedsOnly' /\ CarriedAreReadable' /\ SharersAreFresh'
  BY <1>1, <1>2, CarriedStay DEF LaneInv
<1>4. CallsAccount' /\ BrokenAccounts'
  BY <1>1 DEF LaneInv, CallsAccount, BrokenAccounts, Bought
<1>5. DoneMeansBought'
  <2> SUFFICES ASSUME NEW i \in DOMAIN jobs', jobs'[i].state = "done"
               PROVE  \A item \in Range(NonBlank(jobs'[i].key)) \ Unheld :
                        <<GroupOf[jobs'[i].key], item>> \in stored'
    BY DEF DoneMeansBought
  <2>1. i \in DOMAIN jobs /\ jobs'[i].key = jobs[i].key
    BY DEF EndsOnly
  <2>2. IsBought(jobs[i].key)
    <3>1. CASE i \in S
      BY <2>1, <3>1
    <3>2. CASE i \notin S
      BY <2>1, <3>2 DEF EndsOnly, LaneInv, DoneMeansBought, IsBought
    <3> QED BY <3>1, <3>2
  <2> QED BY <1>1, <2>1, <2>2 DEF IsBought
<1> QED BY <1>3, <1>4, <1>5 DEF LaneInv

\* Once the calls have ended, a task no call has failed has all it calls for.
LEMMA UnbrokenIsBought ==
  ASSUME LaneInv, AllEnded, NEW d \in Daemon, NEW i \in Held(d) \ Misread(d), broken[i] = NoBatch
  PROVE  IsBought(claim[d][i].key)
<1> SUFFICES ASSUME NEW item \in Range(NonBlank(claim[d][i].key)) \ Unheld
             PROVE  <<GroupOf[claim[d][i].key], item>> \in stored
  BY DEF IsBought
<1>1. PICK b \in DOMAIN calls :
        i \in b.jobs /\ b.group = GroupOf[claim[d][i].key] /\ item \in Range(b.items)
  BY DEF LaneInv, PlanAccounts
<1>2. calls[b] \in Outcome
  BY <1>1 DEF LaneInv, PlanAccounts, LaneTypeOK, CallsAccount, AllEnded
<1>3. calls[b] \notin Fault
  BY <1>1 DEF LaneInv, CallsAccount
<1>4. calls[b] = "ok"
  BY <1>2, <1>3 DEF Fault
<1>5. Bought(b) \subseteq stored
  BY <1>4 DEF LaneInv, CallsAccount
<1> QED BY <1>1, <1>5 DEF Bought

LEMMA FateTyped ==
  ASSUME LaneInv, NEW i \in JobId
  PROVE  Fate(i) \in Outcome /\ (Fate(i) = "ok" => broken[i] = NoBatch)
BY DEF LaneInv, BrokenAccounts, Fate, Fault, Outcome

LEMMA FailUnreadableKeeps ==
  ASSUME LaneInv, NEW d \in Daemon, NEW i \in JobId, FailUnreadable(d, i)
  PROVE  LaneInv'
<1>1. IInv /\ UNCHANGED laneVars
  BY DEF LaneInv, FailUnreadable
<1>2. CASE Settle(d, i, "hopeless")
  <2>1. "hopeless" \in Outcome /\ Forget(d, i)
    BY <1>2 DEF Outcome, Settle
  <2>2. IInv' /\ DropsOnly({})
    BY <1>1, <1>2, <2>1, SettleKeeps, ForgetDrops
  <2>3. EndsOnly({i}) /\ (i \in DOMAIN jobs => jobs'[i].state # "done")
    BY <1>1, <1>2, <2>1, SettleEnds
  <2> QED BY <1>1, <2>2, <2>3, RowStepKeeps
<1>3. CASE LeaveRunning(d, i)
  <2>1. Forget(d, i) /\ jobs' = jobs
    BY <1>3 DEF LeaveRunning
  <2>2. IInv' /\ DropsOnly({}) /\ EndsOnly({})
    BY <1>1, <1>3, <2>1, LeaveRunningKeeps, ForgetDrops, SameRowsEndNothing
  <2> QED BY <1>1, <2>2, RowStepKeeps
<1> QED BY <1>2, <1>3 DEF FailUnreadable

LEMMA SettleTouchedKeeps ==
  ASSUME LaneInv, NEW d \in Daemon, NEW i \in JobId, SettleTouched(d, i)
  PROVE  LaneInv'
<1>1. IInv /\ UNCHANGED laneVars /\ AllEnded /\ i \notin Misread(d)
  BY DEF LaneInv, SettleTouched
<1>2. CASE Settle(d, i, Fate(i))
  <2>1. PICK outcome \in Outcome : outcome = Fate(i) /\ (outcome = "ok" => broken[i] = NoBatch)
    BY FateTyped
  <2>2. Settle(d, i, outcome) /\ Forget(d, i) /\ i \in Held(d)
    BY <1>2, <2>1 DEF Settle
  <2>3. IInv' /\ DropsOnly({})
    BY <1>1, <2>2, SettleKeeps, ForgetDrops
  <2>4. EndsOnly({i}) /\ (i \in DOMAIN jobs /\ jobs'[i].state = "done" => outcome = "ok")
    BY <1>1, <2>2, SettleEnds
  <2>5. outcome = "ok" => IsBought(claim[d][i].key)
    BY <1>1, <2>1, <2>2, UnbrokenIsBought
  <2>6. i \in DOMAIN jobs => jobs[i].key = claim[d][i].key
    BY <1>1, <2>2 DEF IInv, HeldIsRunning
  <2>7. i \in DOMAIN jobs /\ jobs'[i].state = "done" => IsBought(jobs[i].key)
    BY <2>4, <2>5, <2>6
  <2> QED BY <1>1, <2>3, <2>4, <2>7, RowStepKeeps
<1>3. CASE LeaveRunning(d, i)
  <2>1. Forget(d, i) /\ jobs' = jobs
    BY <1>3 DEF LeaveRunning
  <2>2. IInv' /\ DropsOnly({}) /\ EndsOnly({})
    BY <1>1, <1>3, <2>1, LeaveRunningKeeps, ForgetDrops, SameRowsEndNothing
  <2> QED BY <1>1, <2>2, RowStepKeeps
<1> QED BY <1>2, <1>3 DEF SettleTouched


-----------------------------------------------------------------------------
(* Calls.                                                                  *)

\* What a step of one call leaves alone.
LEMMA CallStepFrame ==
  ASSUME LaneInv, UNCHANGED vars, NEW b \in DOMAIN calls,
         NEW mark \in {"calling"} \union Outcome, calls' = [calls EXCEPT ![b] = mark],
         stored \subseteq stored', stored' \subseteq Group \X Item,
         broken' \in [JobId -> DOMAIN calls \union {NoBatch}]
  PROVE  /\ IInv' /\ PlanAccounts' /\ EmbedsOnly' /\ CarriedAreReadable' /\ SharersAreFresh'
         /\ DoneMeansBought'
         /\ DOMAIN calls' = DOMAIN calls
         /\ calls'[b] = mark
         /\ \A c \in DOMAIN calls \ {b} : calls'[c] = calls[c]
<1>1. /\ DOMAIN calls' = DOMAIN calls
      /\ calls'[b] = mark
      /\ \A c \in DOMAIN calls \ {b} : calls'[c] = calls[c]
  OBVIOUS
<1>2. IInv'
  BY StutterKeeps DEF LaneInv
<1>3. jobs' = jobs /\ claim' = claim
  BY DEF vars
<1>4. LaneTypeOK'
  <2>1. \A c \in DOMAIN calls' : calls'[c] \in {"waiting", "calling", "panicked"} \union Outcome
    BY <1>1 DEF LaneInv, PlanAccounts, LaneTypeOK
  <2>2. DOMAIN calls' \subseteq Batch
    BY <1>1 DEF LaneInv, PlanAccounts, LaneTypeOK
  <2> QED BY <1>1, <1>2, <2>1, <2>2 DEF LaneTypeOK, IInv
<1>5. PlanAccounts' /\ EmbedsOnly' /\ CarriedAreReadable' /\ SharersAreFresh'
  BY <1>1, <1>3, <1>4, DropsNothing, CarriedStay DEF LaneInv
<1>6. DoneMeansBought'
  BY <1>3 DEF LaneInv, DoneMeansBought
<1> QED BY <1>1, <1>2, <1>5, <1>6

LEMMA BoughtTyped ==
  ASSUME LaneTypeOK, NEW b \in DOMAIN calls
  PROVE  Bought(b) \subseteq Group \X Item
<1>1. b.group \in Group /\ b.items \in Seq(Item)
  BY DEF LaneTypeOK, Batch
<1>2. Range(b.items) \subseteq Item
  BY <1>1 DEF Range
<1> QED BY <1>1, <1>2 DEF Bought

LEMMA StartCallKeeps ==
  ASSUME LaneInv, NEW d \in Daemon, NEW b \in DOMAIN calls, StartCall(d, b)
  PROVE  LaneInv'
<1>1. /\ UNCHANGED vars /\ broken' = broken /\ stored' = stored /\ calls[b] = "waiting"
      /\ calls' = [calls EXCEPT ![b] = "calling"]
  BY DEF StartCall
<1>2. stored \subseteq Group \X Item /\ broken \in [JobId -> DOMAIN calls \union {NoBatch}]
  BY DEF LaneInv, PlanAccounts, LaneTypeOK
<1>3. /\ IInv' /\ PlanAccounts' /\ EmbedsOnly' /\ CarriedAreReadable' /\ SharersAreFresh'
      /\ DoneMeansBought'
      /\ DOMAIN calls' = DOMAIN calls
      /\ calls'[b] = "calling"
      /\ \A c \in DOMAIN calls \ {b} : calls'[c] = calls[c]
  BY <1>1, <1>2, CallStepFrame
<1>4. CallsAccount'
  <2>1. "calling" \notin Fault \union {"panicked", "ok"}
    BY DEF Fault, Outcome
  <2> QED BY <1>1, <1>3, <2>1 DEF LaneInv, CallsAccount, Bought
<1>5. BrokenAccounts'
  <2>1. "waiting" \notin Fault
    BY DEF Fault, Outcome
  <2> QED BY <1>1, <1>3, <2>1 DEF LaneInv, BrokenAccounts
<1> QED BY <1>3, <1>4, <1>5 DEF LaneInv

LEMMA CallSucceedsKeeps ==
  ASSUME LaneInv, NEW d \in Daemon, NEW b \in DOMAIN calls, CallSucceeds(d, b)
  PROVE  LaneInv'
<1>1. /\ UNCHANGED vars /\ broken' = broken /\ calls[b] = "calling"
      /\ stored' = stored \union Bought(b)
      /\ calls' = [calls EXCEPT ![b] = "ok"]
  BY DEF CallSucceeds, Ends
<1>2. stored' \subseteq Group \X Item /\ broken \in [JobId -> DOMAIN calls \union {NoBatch}]
  BY <1>1, BoughtTyped DEF LaneInv, PlanAccounts, LaneTypeOK
<1>3. "ok" \in Outcome /\ "ok" \notin Fault /\ "calling" \notin Fault
  BY DEF Outcome, Fault
<1>4. /\ IInv' /\ PlanAccounts' /\ EmbedsOnly' /\ CarriedAreReadable' /\ SharersAreFresh'
      /\ DoneMeansBought'
      /\ DOMAIN calls' = DOMAIN calls
      /\ calls'[b] = "ok"
      /\ \A c \in DOMAIN calls \ {b} : calls'[c] = calls[c]
  BY <1>1, <1>2, <1>3, CallStepFrame
<1>5. CallsAccount'
  BY <1>1, <1>3, <1>4 DEF LaneInv, CallsAccount, Bought
<1>6. BrokenAccounts'
  BY <1>1, <1>3, <1>4 DEF LaneInv, BrokenAccounts
<1> QED BY <1>4, <1>5, <1>6 DEF LaneInv

LEMMA CallFailsKeeps ==
  ASSUME LaneAssumption, LaneInv, NEW d \in Daemon, NEW b \in DOMAIN calls,
         NEW fault \in Fault, CallFails(d, b, fault)
  PROVE  LaneInv'
<1>1. /\ UNCHANGED vars /\ stored' = stored /\ calls[b] = "calling"
      /\ calls' = [calls EXCEPT ![b] = fault]
      /\ broken' = [i \in JobId |-> IF i \in b.jobs /\ broken[i] = NoBatch THEN b ELSE broken[i]]
  BY DEF CallFails, Ends
<1>2. /\ stored \subseteq Group \X Item
      /\ broken \in [JobId -> DOMAIN calls \union {NoBatch}]
      /\ b \in Batch
  BY DEF LaneInv, PlanAccounts, LaneTypeOK
<1>3. fault \in Outcome /\ fault # "ok" /\ fault # "panicked" /\ "calling" \notin Fault
  BY DEF Fault, Outcome
<1>4. broken' \in [JobId -> DOMAIN calls \union {NoBatch}]
  BY <1>1, <1>2
<1>5. /\ IInv' /\ PlanAccounts' /\ EmbedsOnly' /\ CarriedAreReadable' /\ SharersAreFresh'
      /\ DoneMeansBought'
      /\ DOMAIN calls' = DOMAIN calls
      /\ calls'[b] = fault
      /\ \A c \in DOMAIN calls \ {b} : calls'[c] = calls[c]
  BY <1>1, <1>2, <1>3, <1>4, CallStepFrame
<1>6. b # NoBatch /\ b.jobs \subseteq JobId
  BY <1>2 DEF Batch, LaneAssumption
<1>7. \A i \in JobId : broken[i] # NoBatch => broken'[i] = broken[i]
  BY <1>1
<1>8. \A i \in b.jobs : broken'[i] # NoBatch
  BY <1>1, <1>6
<1>9. CallsAccount'
  <2> SUFFICES ASSUME NEW c \in DOMAIN calls
               PROVE  /\ calls'[c] # "panicked"
                      /\ calls'[c] = "ok" => Bought(c) \subseteq stored
                      /\ calls'[c] \in Fault => \A i \in c.jobs : broken'[i] # NoBatch
    BY <1>1, <1>5 DEF CallsAccount, Bought
  <2>1. CASE c = b
    BY <1>1, <1>3, <1>5, <1>8, <2>1
  <2>2. CASE c # b
    <3>1. c.jobs \subseteq JobId
      BY DEF LaneInv, PlanAccounts, LaneTypeOK, Batch
    <3> QED BY <1>5, <1>7, <2>2, <3>1 DEF LaneInv, CallsAccount
  <2> QED BY <2>1, <2>2
<1>10. BrokenAccounts'
  <2> SUFFICES ASSUME NEW i \in JobId, broken'[i] # NoBatch
               PROVE  /\ broken'[i] \in DOMAIN calls /\ i \in broken'[i].jobs
                      /\ calls'[broken'[i]] \in Fault
    BY <1>5 DEF BrokenAccounts
  <2>1. CASE broken[i] # NoBatch
    <3>1. broken'[i] = broken[i] /\ broken[i] # b
      BY <1>1, <1>3, <1>7, <2>1 DEF LaneInv, BrokenAccounts
    <3> QED BY <1>5, <2>1, <3>1 DEF LaneInv, BrokenAccounts
  <2>2. CASE broken[i] = NoBatch
    <3>1. broken'[i] = b /\ i \in b.jobs
      BY <1>1, <2>2
    <3> QED BY <1>5, <3>1
  <2> QED BY <2>1, <2>2
<1> QED BY <1>5, <1>9, <1>10 DEF LaneInv


-----------------------------------------------------------------------------
(* A claim, and its plan.                                                  *)

\* The embed lane claims with empty hands, embed jobs alone.
LEMMA ClaimedTogether ==
  ASSUME RunnerAssumption, LaneInv, NEW d \in Daemon, Claim(d, "embed")
  PROVE  /\ IInv' /\ EndsOnly({})
         /\ \A c \in Daemon \ {d} : Held(c)' = {}
         /\ \A i \in Held(d)' : /\ claim'[d][i] \in Snapshot
                                /\ KindOf[claim'[d][i].key] = "embed"
<1>1. IInv /\ "embed" \in Lane /\ KindsOf["embed"] = {"embed"}
  BY DEF LaneInv, Lane, KindsOf
<1>2. IInv'
  BY <1>1, ClaimKeeps
<1>3. PICK S \in Best({"embed"}, Limit("embed")) :
        /\ ClaimJobs(S)
        /\ claim' = [claim EXCEPT ![d] =
             [i \in JobId |-> IF i \in S THEN SnapshotOf(jobs[i]) ELSE claim[d][i]]]
  BY <1>1 DEF Claim
<1>4. S \in SUBSET Ready({"embed"})
  BY DEF Best
<1>5. EndsOnly({})
  BY <1>1, <1>3, <1>4, ClaimEndsNothing
<1>6. Held(d) = {} /\ phase[d] # "down"
  BY <1>1 DEF Claim, HasRoom, InLane, LaneInv, EmbedsOnly
<1>7. /\ \A c \in Daemon \ {d} : claim'[c] = claim[c]
      /\ \A i \in JobId : claim'[d][i] = IF i \in S THEN SnapshotOf(jobs[i]) ELSE claim[d][i]
  BY <1>1, <1>3, IInvStore DEF DaemonsTyped
<1>8. \A c \in Daemon \ {d} : Held(c)' = {}
  BY <1>1, <1>6, <1>7, OthersIdle DEF Held
<1>9. ASSUME NEW i \in Held(d)'
      PROVE  claim'[d][i] \in Snapshot /\ KindOf[claim'[d][i].key] = "embed"
  <2>1. i \in JobId /\ i \in S
    BY <1>6, <1>7 DEF Held
  <2>2. claim'[d][i].key = jobs[i].key
    <3>1. claim'[d][i] = SnapshotOf(jobs[i])
      BY <1>7, <2>1
    <3> QED BY <3>1 DEF SnapshotOf
  <2>3. claim'[d][i] \in Snapshot
    BY <1>2, <2>1 DEF IInv, TypeOK, Held
  <2> QED BY <1>4, <2>1, <2>2, <2>3 DEF Ready
<1> QED BY <1>2, <1>5, <1>8, <1>9

LEMMA ClaimBatchKeeps ==
  ASSUME StoreAssumption, RunnerAssumption, LaneAssumption, LaneInv, NEW d \in Daemon,
         ClaimBatch(d)
  PROVE  LaneInv'
<1>1. PICK held : held = [i \in {n \in JobId : claim'[d][n] # NoClaim} |-> claim'[d][i]]
  OBVIOUS
<1>2. PICK plan : plan = Plan(held)
  OBVIOUS
<1>3. /\ Claim(d, "embed") /\ broken' = NoneBroken /\ stored' = stored
      /\ calls' = [b \in plan |-> "waiting"]
  BY <1>1, <1>2 DEF ClaimBatch
<1>4. /\ IInv' /\ EndsOnly({})
      /\ \A c \in Daemon \ {d} : Held(c)' = {}
      /\ \A i \in Held(d)' : claim'[d][i] \in Snapshot /\ KindOf[claim'[d][i].key] = "embed"
  BY <1>3, ClaimedTogether
<1>5. PICK S : S = Held(d)'
  OBVIOUS
<1>6. /\ S \in SUBSET JobId /\ DOMAIN held = S
      /\ \A i \in S : held[i] = claim'[d][i]
  BY <1>1, <1>5 DEF Held
<1>7. Claimed(held, S)
  <2>1. held = [i \in S |-> claim'[d][i]]
    BY <1>1, <1>5 DEF Held
  <2> QED BY <1>4, <1>5, <1>6, <2>1 DEF Claimed
<1>8. /\ \A b \in plan : BatchIsFair(b, held, S)
      /\ \A i \in Readable(held, S) : JobIsPlanned(i, held, plan)
  BY <1>2, <1>7, PlanKeeps
<1>9. DOMAIN calls' = plan /\ \A b \in plan : calls'[b] = "waiting"
  BY <1>3
<1>10. Readable(held, S) = Held(d)' \ Misread(d)'
  BY <1>5, <1>6 DEF Readable, Misread
<1>11. \A i \in JobId : broken'[i] = NoBatch
  BY <1>3 DEF NoneBroken
<1>12. LaneTypeOK'
  <2>1. DOMAIN calls' \subseteq Batch
    BY <1>8, <1>9 DEF BatchIsFair
  <2>2. broken' \in [JobId -> DOMAIN calls' \union {NoBatch}]
    BY <1>3 DEF NoneBroken
  <2>3. stored' \subseteq Group \X Item
    BY <1>3 DEF LaneInv, PlanAccounts, LaneTypeOK
  <2> QED BY <1>4, <1>9, <2>1, <2>2, <2>3 DEF LaneTypeOK, IInv
<1>13. PlanAccounts'
  <2>1. ASSUME NEW c \in Daemon
        PROVE  Held(c)' \subseteq Touched' \union Misread(c)'
    <3>1. \A i \in Held(d)' \ Misread(d)' : \E b \in plan : i \in b.jobs
      BY <1>8, <1>10 DEF JobIsPlanned
    <3>2. Held(d)' \subseteq Touched' \union Misread(d)'
      BY <1>9, <3>1 DEF Touched
    <3> QED BY <1>4, <3>2
  <2>2. ASSUME NEW c \in Daemon, NEW i \in Held(c)' \ Misread(c)'
        PROVE  Range(NonBlank(claim'[c][i].key)) \subseteq
                 UNION {Range(b.items) : b \in {e \in DOMAIN calls' :
                          i \in e.jobs /\ e.group = GroupOf[claim'[c][i].key]}}
    <3>1. c = d
      BY <1>4
    <3>2. JobIsPlanned(i, held, plan) /\ held[i] = claim'[d][i]
      BY <1>5, <1>6, <1>8, <1>10, <3>1
    <3> QED BY <1>9, <3>1, <3>2 DEF JobIsPlanned
  <2>3. ASSUME NEW b \in DOMAIN calls', Cardinality(b.jobs) > 1 /\ Len(b.items) > 1
        PROVE  Tokens(b.items) <= TokenBudget
    BY <1>8, <1>9, <2>3 DEF BatchIsFair
  <2> QED BY <1>12, <2>1, <2>2, <2>3 DEF PlanAccounts
<1>14. EmbedsOnly'
  BY <1>4 DEF EmbedsOnly
<1>15. CarriedAreReadable'
  <2> SUFFICES ASSUME NEW c \in Daemon, NEW i \in Misread(c)' PROVE i \notin Touched'
    BY DEF CarriedAreReadable
  <2>1. c = d /\ i \notin Readable(held, S)
    BY <1>4, <1>10 DEF Misread
  <2> QED BY <1>8, <1>9, <2>1 DEF Touched, BatchIsFair
<1>16. SharersAreFresh'
  <2> SUFFICES ASSUME NEW c \in Daemon, NEW i \in Held(c)', NEW b \in DOMAIN calls', i \in b.jobs
               PROVE  b.jobs = {i} \/ claim'[c][i].attempts < SoloFromAttempt
    BY DEF SharersAreFresh
  <2>1. c = d /\ held[i] = claim'[d][i]
    BY <1>4, <1>5, <1>6
  <2> QED BY <1>8, <1>9, <2>1 DEF BatchIsFair
<1>17. CallsAccount'
  <2>1. "waiting" \notin Fault \union {"ok", "panicked"}
    BY DEF Fault, Outcome
  <2> QED BY <1>9, <2>1 DEF CallsAccount
<1>18. BrokenAccounts'
  BY <1>11 DEF BrokenAccounts
<1>19. DoneMeansBought'
  BY <1>3, <1>4 DEF LaneInv, DoneMeansBought, EndsOnly
<1> QED BY <1>4, <1>13, <1>14, <1>15, <1>16, <1>17, <1>18, <1>19 DEF LaneInv

\* A daemon that is stopped by force drops its calls with its tasks.
LEMMA AbortKeeps ==
  ASSUME RunnerAssumption, LaneInv, NEW d \in Daemon, Abort(d)
  PROVE  LaneInv'
<1>1. IInv /\ Stop(d) /\ phase[d] # "down" /\ claim' = [claim EXCEPT ![d] = NoClaims]
  BY DEF LaneInv, Abort, Stop, StopRunner, Crash, Goes
<1>2. IInv' /\ EndsOnly({}) /\ DropsOnly({})
  BY <1>1, StopKeeps, StopEndsNothing
<1>3. \A c \in Daemon : Held(c)' = {}
  <2>1. Held(d)' = {}
    BY <1>1, NoClaimsTyped, IInvStore
  <2>2. ASSUME NEW c \in Daemon, c # d PROVE Held(c)' = {}
    BY <1>1, <1>2, <2>2, OthersIdle DEF DropsOnly, Held
  <2> QED BY <2>1, <2>2
<1>4. /\ DOMAIN calls' = {} /\ stored' = stored
      /\ broken' = [i \in JobId |-> NoBatch]
  BY DEF Abort, NoCalls, NoneBroken
<1>5. LaneTypeOK'
  BY <1>2, <1>4 DEF LaneInv, PlanAccounts, LaneTypeOK, IInv
<1>6. PlanAccounts'
  BY <1>3, <1>4, <1>5 DEF PlanAccounts
<1>7. EmbedsOnly' /\ CarriedAreReadable' /\ SharersAreFresh'
  BY <1>3, <1>4 DEF EmbedsOnly, CarriedAreReadable, SharersAreFresh, Misread
<1>8. CallsAccount' /\ BrokenAccounts'
  BY <1>4 DEF CallsAccount, BrokenAccounts
<1>9. DoneMeansBought'
  BY <1>2, <1>4 DEF LaneInv, DoneMeansBought, EndsOnly
<1> QED BY <1>2, <1>6, <1>7, <1>8, <1>9 DEF LaneInv


-----------------------------------------------------------------------------
(* Every step.                                                             *)

LEMMA AroundKeeps ==
  ASSUME RunnerAssumption, LaneInv, NEW d \in Daemon, Around(d)
  PROVE  LaneInv' /\ EndsOnly({})
<1>1. IInv /\ UNCHANGED laneVars
  BY DEF LaneInv, Around
<1>2. CASE Boot(d)
  BY <1>1, <1>2, BootKeeps, BootEndsNothing, RowStepKeeps
<1>3. CASE Stop(d)
  BY <1>1, <1>3, StopKeeps, StopEndsNothing, RowStepKeeps
<1> QED BY <1>2, <1>3 DEF Around, Stop

LEMMA LaneNextKeeps ==
  ASSUME StoreAssumption, RunnerAssumption, LaneAssumption, LaneInv, [LaneNext]_allVars
  PROVE  LaneInv'
<1>1. ASSUME NEW d \in Daemon, Drain(d) PROVE LaneInv'
  <2>1. CASE ClaimBatch(d)
    BY <2>1, ClaimBatchKeeps
  <2>2. ASSUME NEW i \in JobId, FailUnreadable(d, i) PROVE LaneInv'
    BY <2>2, FailUnreadableKeeps
  <2>3. ASSUME NEW i \in JobId, SettleTouched(d, i) PROVE LaneInv'
    BY <2>3, SettleTouchedKeeps
  <2>4. ASSUME NEW b \in DOMAIN calls, StartCall(d, b) PROVE LaneInv'
    BY <2>4, StartCallKeeps
  <2>5. ASSUME NEW b \in DOMAIN calls, CallSucceeds(d, b) PROVE LaneInv'
    BY <2>5, CallSucceedsKeeps
  <2>6. ASSUME NEW b \in DOMAIN calls, NEW fault \in Fault, CallFails(d, b, fault) PROVE LaneInv'
    BY <2>6, CallFailsKeeps
  <2> QED BY <1>1, <2>1, <2>2, <2>3, <2>4, <2>5, <2>6 DEF Drain
<1>2. ASSUME NEW d \in Daemon, Abort(d) PROVE LaneInv'
  BY <1>2, AbortKeeps
<1>3. ASSUME NEW d \in Daemon, Around(d) PROVE LaneInv'
  BY <1>3, AroundKeeps
<1>4. CASE SessionEnds /\ UNCHANGED laneVars
  <2>1. IInv' /\ jobs' = jobs /\ claim' = claim
    BY <1>4, SessionEndsKeeps DEF LaneInv, SessionEnds
  <2> QED BY <1>4, <2>1, SameRowsEndNothing, DropsNothing, RowStepKeeps
<1>5. ASSUME NEW i \in JobId, TimePasses(i), UNCHANGED laneVars PROVE LaneInv'
  <2>1. IInv /\ Next
    BY <1>5 DEF LaneInv, Next
  <2> QED BY <1>5, <2>1, NextKeeps, TimeEndsNothing, RowStepKeeps
<1>6. CASE UNCHANGED allVars
  <2>1. UNCHANGED vars /\ UNCHANGED laneVars /\ jobs' = jobs /\ claim' = claim
    BY <1>6 DEF allVars, vars
  <2>2. IInv'
    BY <2>1, StutterKeeps DEF LaneInv
  <2> QED BY <2>1, <2>2, SameRowsEndNothing, DropsNothing, RowStepKeeps
<1> QED BY <1>1, <1>2, <1>3, <1>4, <1>5, <1>6 DEF LaneNext


LEMMA LaneInitHolds ==
  ASSUME StoreAssumption, RunnerAssumption, LaneAssumption, LaneInit
  PROVE  LaneInv
<1>1. PICK keyOf \in [JobId -> Key] :
        /\ \A i, j \in JobId : keyOf[i] = keyOf[j] => i = j
        /\ jobs = [i \in JobId |-> NewRow(keyOf[i], keyOf[i], 0, TRUE)]
  BY DEF LaneInit
<1>2. /\ next_id = MaxJobs + 1 /\ lock = Nobody /\ boots = 0 /\ stored = {}
      /\ phase = [d \in Daemon |-> "down"]
      /\ claim = [d \in Daemon |-> [i \in JobId |-> NoClaim]]
      /\ DOMAIN calls = {}
      /\ broken = [i \in JobId |-> NoBatch]
  BY DEF LaneInit, NoClaims, NoCalls, NoneBroken
<1>3. MaxJobs \in Nat /\ Payload = Key /\ 0 \in Priority
  BY DEF StoreAssumption, LaneAssumption
<1>4. /\ DOMAIN jobs = JobId
      /\ \A i \in JobId : /\ jobs[i].key = keyOf[i]
                          /\ jobs[i].state = "pending"
                          /\ jobs[i].superseded_by = 0
  BY <1>1 DEF NewRow
<1>5. \A d \in Daemon : Held(d) = {} /\ phase[d] = "down"
  BY <1>2 DEF Held
<1>6. TypeOK
  <2>1. ASSUME NEW i \in JobId PROVE NewRow(keyOf[i], keyOf[i], 0, TRUE) \in Row
    BY <1>3, StatesTyped DEF NewRow, Row
  <2>2. jobs \in [JobId -> Row]
    BY <1>1, <2>1
  <2>3. next_id \in 1..MaxJobs + 1 /\ JobId \subseteq {i \in JobId : i < next_id}
    BY <1>2, <1>3 DEF JobId
  <2>4. StoreTypeOK
    BY <1>4, <2>2, <2>3 DEF StoreTypeOK
  <2> QED BY <1>2, <2>4 DEF TypeOK, Phase
<1>7. OwnerIsNewest
  <2>1. \A i, j \in JobId : keyOf[i] = keyOf[j] => i = j
    BY <1>1
  <2>4. ASSUME NEW i \in JobId, NEW j \in JobId, jobs[j].key = jobs[i].key PROVE i = j
    <3>1. jobs[i].key = keyOf[i] /\ jobs[j].key = keyOf[j]
      BY <1>4
    <3> QED BY <2>1, <2>4, <3>1
  <2>2. \A i \in JobId : i <= i
    BY <1>3 DEF JobId
  <2> QED BY <1>4, <2>2, <2>4 DEF OwnerIsNewest
<1>8. IInv
  BY <1>4, <1>5, <1>6, <1>7
  DEF IInv, LockDiscipline, ClaimsAreWorked, HeldIsRunning, LastFailureIsOpen,
      SupersededIsTerminal
<1>9. LaneTypeOK
  BY <1>2, <1>6 DEF LaneTypeOK
<1>10. PlanAccounts
  BY <1>2, <1>5, <1>9 DEF PlanAccounts
<1>11. EmbedsOnly /\ CarriedAreReadable /\ SharersAreFresh
  BY <1>5 DEF EmbedsOnly, CarriedAreReadable, SharersAreFresh, Misread
<1>12. CallsAccount /\ BrokenAccounts
  BY <1>2 DEF CallsAccount, BrokenAccounts
<1>13. DoneMeansBought
  BY <1>4 DEF DoneMeansBought
<1> QED BY <1>8, <1>10, <1>11, <1>12, <1>13 DEF LaneInv

-----------------------------------------------------------------------------
(* Failing on one's own, or with a first request.                          *)

\* A fault that is retried never fails a job that is not yet a suspect.
LEMMA RetriedFaultSpares ==
  ASSUME RunnerAssumption, LaneAssumption, NEW fault \in Fault, fault # "hopeless",
         NEW attempts \in Nat, attempts < SoloFromAttempt, NEW parks \in Nat
  PROVE  Verdict(fault, attempts, parks) # "fail"
<1>1. attempts < MaxAttempts /\ MaxParks \in Nat
  BY DEF LaneAssumption, RunnerAssumption
<1>2. parks < MaxParks \/ parks >= MaxParks
  BY <1>1
<1> QED BY <1>1, <1>2 DEF Verdict, Retryable, Fault, Outcome

OwnFailure(i) ==
  \/ broken[i].jobs = {i}
  \/ jobs[i].attempts < SoloFromAttempt /\ calls[broken[i]] = "hopeless"

\* The job a settlement fails is one whose failing request, if it has one, was
\* its own, or a first one that failed for good.
LEMMA SettlementIsOwn ==
  ASSUME StoreAssumption, RunnerAssumption, LaneAssumption,
         LaneInv, NEW d \in Daemon, NEW id \in JobId, SettleTouched(d, id),
         Settle(d, id, Fate(id)), broken[id] # NoBatch,
         id \in DOMAIN jobs, jobs'[id].state = "failed"
  PROVE  OwnFailure(id)
<1>1. PICK b : b = broken[id]
  OBVIOUS
<1>2. b \in DOMAIN calls /\ id \in b.jobs /\ calls[b] \in Fault /\ calls[b] = Fate(id)
  BY <1>1 DEF LaneInv, BrokenAccounts, Fate
<1>3. PICK outcome \in Outcome : outcome = Fate(id)
  BY FateTyped
<1>4. id \in Held(d) /\ Hopeless(claim[d][id], outcome)
  <2>1. IInv /\ Settle(d, id, outcome)
    BY <1>3 DEF LaneInv
  <2> QED BY <2>1, SettleEnds DEF Settle
<1>5. claim[d][id].attempts \in Nat /\ claim[d][id].parks \in Nat
  BY <1>4 DEF LaneInv, IInv, TypeOK, Held, Snapshot
<1>6. jobs[id].attempts = claim[d][id].attempts
  BY <1>4 DEF LaneInv, IInv, HeldIsRunning
<1> SUFFICES ASSUME b.jobs # {id}
             PROVE  jobs[id].attempts < SoloFromAttempt /\ calls[b] = "hopeless"
  BY <1>1 DEF OwnFailure
<1>7. claim[d][id].attempts < SoloFromAttempt
  BY <1>2, <1>4 DEF LaneInv, SharersAreFresh
<1>8. calls[b] = "hopeless"
  BY <1>2, <1>3, <1>4, <1>5, <1>7, RetriedFaultSpares DEF Hopeless
<1> QED BY <1>6, <1>7, <1>8

OwnFailures ==
  \A i \in InState("running") :
    jobs'[i].state = "failed" /\ broken[i] # NoBatch => OwnFailure(i)

LEMMA NothingEndedIsOwn == ASSUME EndsOnly({}) PROVE OwnFailures
BY DEF EndsOnly, OwnFailures, InState

LEMMA UnreadableIsUnbroken ==
  ASSUME LaneInv, NEW d \in Daemon, NEW i \in Misread(d)
  PROVE  broken[i] = NoBatch
BY DEF LaneInv, BrokenAccounts, CarriedAreReadable, Misread, Held, Touched

LEMMA LaneNextIsOwn ==
  ASSUME StoreAssumption, RunnerAssumption, LaneAssumption, LaneInv, LaneNext
  PROVE  OwnFailures
<1>1. IInv
  BY DEF LaneInv
<1>2. ASSUME NEW d \in Daemon, ClaimBatch(d) PROVE OwnFailures
  BY <1>2, ClaimedTogether, NothingEndedIsOwn DEF ClaimBatch
<1>3. ASSUME NEW d \in Daemon, NEW i \in JobId, LeaveRunning(d, i) PROVE OwnFailures
  BY <1>3, SameRowsEndNothing, NothingEndedIsOwn DEF LeaveRunning
<1>4. ASSUME NEW d \in Daemon, NEW i \in JobId, FailUnreadable(d, i) PROVE OwnFailures
  <2>1. CASE Settle(d, i, "hopeless")
    <3>1. EndsOnly({i})
      BY <1>1, <2>1, SettleEnds DEF Outcome
    <3>2. broken[i] = NoBatch
      BY <1>4, UnreadableIsUnbroken DEF FailUnreadable
    <3> QED BY <3>1, <3>2 DEF OwnFailures, EndsOnly, InState
  <2> QED BY <1>3, <1>4, <2>1 DEF FailUnreadable
<1>5. ASSUME NEW d \in Daemon, NEW i \in JobId, SettleTouched(d, i) PROVE OwnFailures
  <2>1. CASE Settle(d, i, Fate(i))
    <3>1. EndsOnly({i})
      BY <1>1, <2>1, FateTyped, SettleEnds
    <3>2. i \in DOMAIN jobs /\ jobs'[i].state = "failed" /\ broken[i] # NoBatch
            => OwnFailure(i)
      BY <1>5, <2>1, SettlementIsOwn
    <3> QED BY <3>1, <3>2 DEF OwnFailures, EndsOnly, InState
  <2> QED BY <1>3, <1>5, <2>1 DEF SettleTouched
<1>6. ASSUME jobs' = jobs PROVE OwnFailures
  BY <1>6, SameRowsEndNothing, NothingEndedIsOwn
<1>7. ASSUME NEW d \in Daemon, NEW b \in DOMAIN calls,
             \/ StartCall(d, b)
             \/ CallSucceeds(d, b)
             \/ \E fault \in Fault : CallFails(d, b, fault)
      PROVE  OwnFailures
  BY <1>6, <1>7 DEF StartCall, CallSucceeds, CallFails, Ends, vars
<1>8. ASSUME NEW d \in Daemon, Abort(d) \/ Around(d) PROVE OwnFailures
  BY <1>1, <1>8, BootEndsNothing, StopEndsNothing, NothingEndedIsOwn DEF Abort, Around, Stop
<1>9. ASSUME SessionEnds PROVE OwnFailures
  BY <1>6, <1>9 DEF SessionEnds
<1>10. ASSUME NEW i \in JobId, TimePasses(i) PROVE OwnFailures
  BY <1>1, <1>10, TimeEndsNothing, NothingEndedIsOwn
<1>11. ASSUME NEW d \in Daemon, Drain(d) PROVE OwnFailures
  BY <1>2, <1>4, <1>5, <1>7, <1>11 DEF Drain
<1> QED BY <1>8, <1>9, <1>10, <1>11 DEF LaneNext

-----------------------------------------------------------------------------
(* The theorems.                                                           *)

\* The strengthened invariant: the batches of the claim in hand account for
\* each of its tasks, and the outcomes seen so far for each batch.
THEOREM LaneInvariance ==
  ASSUME StoreAssumption, RunnerAssumption, LaneAssumption
  PROVE  LaneSpec => []LaneInv
<1>1. LaneInit => LaneInv
  BY LaneInitHolds
<1>2. LaneInv /\ [LaneNext]_allVars => LaneInv'
  BY LaneNextKeeps
<1> QED BY <1>1, <1>2, PTL DEF LaneSpec

\* Whatever was merged and split (batch.rs, plan): a claimed job is bound to be
\* settled, each of its items rides in a batch of its group that names it, and
\* a shared request of several items keeps to the budget.
THEOREM PlanAccounted ==
  ASSUME StoreAssumption, RunnerAssumption, LaneAssumption
  PROVE  LaneSpec => []PlanAccounts
<1>1. LaneInv => PlanAccounts
  BY DEF LaneInv
<1> QED BY <1>1, LaneInvariance, PTL

\* A done job has every vector it calls for, whatever requests its items were
\* cut into, in whatever order they ended, and however often its daemon died.
THEOREM DoneIsBought ==
  ASSUME StoreAssumption, RunnerAssumption, LaneAssumption
  PROVE  LaneSpec => []DoneMeansBought
<1>1. LaneInv => DoneMeansBought
  BY DEF LaneInv
<1> QED BY <1>1, LaneInvariance, PTL

\* A suspect rides alone, early enough (batch.rs, SOLO_FROM_ATTEMPT): a job is
\* failed by a request it shared only while it is no suspect, and only by one
\* that failed for good.
THEOREM SuspectsAlone ==
  ASSUME StoreAssumption, RunnerAssumption, LaneAssumption
  PROVE  LaneSpec => SuspectsFailAlone
<1>1. LaneInv /\ [LaneNext]_allVars =>
        [\A i \in InState("running") :
           jobs'[i].state = "failed" /\ broken[i] # NoBatch =>
             \/ broken[i].jobs = {i}
             \/ jobs[i].attempts < SoloFromAttempt /\ calls[broken[i]] = "hopeless"]_allVars
  BY LaneNextIsOwn DEF OwnFailures, OwnFailure
<1> QED BY <1>1, LaneInvariance, PTL DEF LaneSpec, SuspectsFailAlone
=============================================================================
