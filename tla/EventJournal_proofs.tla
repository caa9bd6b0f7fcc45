------------------------- MODULE EventJournal_proofs -------------------------
(***************************************************************************)
(* Proofs about EventJournal, for every number of processes, of calls in   *)
(* flight, of events, strings and crashes, and every size of a batch.      *)
(***************************************************************************)
EXTENDS EventJournal, Integers, FiniteSets, Functions, FiniteSetTheorems,
        WellFoundedInduction, TLAPS

-----------------------------------------------------------------------------
(***************************************************************************)
(* Sums.  The counters are compared with SumFunctionOnSet, the sum of a    *)
(* function over a finite set.  It is computed by recursion on the set,    *)
(* and an induction is not available as a schema: every induction below is *)
(* on a counterexample, least among the numbers or smallest among the      *)
(* subsets of a finite set, which the well-foundedness of the two orders   *)
(* gives.                                                                  *)
(***************************************************************************)

\* The element the sum takes off a set.
Chosen(s) == CHOOSE x \in s : TRUE

\* g maps every subset of t to the sum of f over it.
IsSum(f, t, g) ==
  g = [s \in SUBSET t |-> IF s = {} THEN 0 ELSE f[Chosen(s)] + g[s \ {Chosen(s)}]]

\* Numbers: a nonempty set of naturals has a least element.
THEOREM SmallestNumber ==
  ASSUME NEW T \in SUBSET Nat, T # {}
  PROVE  \E x \in T : \A y \in T : x <= y
<1>1. \E x \in T : \A y \in T : <<y, x>> \notin OpToRel(<, Nat)
  BY NatLessThanWellFounded, WFMin, Zenon
<1>2. OpToRel(<, Nat) = {ss \in Nat \X Nat : ss[1] < ss[2]}
  BY Zenon DEF OpToRel
<1>3. \E x \in T : \A y \in T : <<y, x>> \notin {ss \in Nat \X Nat : ss[1] < ss[2]}
  BY <1>1, <1>2, Zenon
<1>4. \A x, y \in Nat : y < x => <<y, x>> \in {ss \in Nat \X Nat : ss[1] < ss[2]}
  OBVIOUS
<1>5. \E x \in T : \A y \in T : ~(y < x)
  BY <1>3, <1>4, Zenon
<1>6. QED
  BY <1>5

\* Sets: a nonempty set of subsets of a finite set has a smallest one.
THEOREM SmallestSubset ==
  ASSUME NEW S, IsFiniteSet(S), NEW T \in SUBSET SUBSET S, T # {}
  PROVE  \E s \in T : \A t \in T : t \subseteq s => t = s
<1>1. T \subseteq FiniteSubsetsOf(S)
  BY FS_Subset DEF FiniteSubsetsOf
<1>2. \E x \in T : \A y \in T : <<y, x>> \notin StrictSubsetOrdering(S)
  BY <1>1, FS_StrictSubsetOrderingWellFounded, WFMin, Zenon
<1>3. QED
  BY <1>2 DEF StrictSubsetOrdering

\* Two functions of sums agree where both are defined.
LEMMA SumsAgree ==
  ASSUME NEW f, NEW t, IsFiniteSet(t), NEW u, NEW g, NEW h,
         IsSum(f, t, g), IsSum(f, u, h)
  PROVE  \A s \in SUBSET t : s \subseteq u => g[s] = h[s]
<1> DEFINE Bad == {s \in SUBSET t : s \subseteq u /\ g[s] # h[s]}
<1> SUFFICES ASSUME Bad # {} PROVE FALSE
  OBVIOUS
<1>1. PICK s \in Bad : \A r \in Bad : r \subseteq s => r = s
  <2>1. Bad \in SUBSET SUBSET t
    OBVIOUS
  <2> HIDE DEF Bad
  <2>2. QED
    BY <2>1, SmallestSubset
<1>2. s # {}
  BY <1>1 DEF IsSum
<1>3. Chosen(s) \in s
  BY <1>2 DEF Chosen
<1>4. g[s \ {Chosen(s)}] = h[s \ {Chosen(s)}]
  BY <1>1, <1>3
<1>5. /\ g[s] = f[Chosen(s)] + g[s \ {Chosen(s)}]
      /\ h[s] = f[Chosen(s)] + h[s \ {Chosen(s)}]
  BY <1>1, <1>2 DEF IsSum
<1>6. QED
  BY <1>1, <1>4, <1>5

\* Every finite set has a function of the sums over its subsets.
LEMMA SumExists ==
  ASSUME NEW f, NEW S, IsFiniteSet(S)
  PROVE  \E g : IsSum(f, S, g)
<1> DEFINE Bad == {s \in SUBSET S : ~ \E g : IsSum(f, s, g)}
           G(s) == CHOOSE g : IsSum(f, s, g)
<1> SUFFICES ASSUME Bad # {} PROVE FALSE
  OBVIOUS
<1>1. PICK s \in Bad : \A r \in Bad : r \subseteq s => r = s
  <2>1. Bad \in SUBSET SUBSET S
    OBVIOUS
  <2> HIDE DEF Bad
  <2>2. QED
    BY <2>1, SmallestSubset
<1>2. \A r \in SUBSET s : r # s => IsSum(f, r, G(r))
  BY <1>1
<1>3. \A r \in SUBSET S : IsFiniteSet(r)
  BY FS_Subset
<1> DEFINE F(r) == IF r = {} THEN 0 ELSE f[Chosen(r)] + G(r \ {Chosen(r)})[r \ {Chosen(r)}]
           g == [r \in SUBSET s |-> F(r)]
<1> HIDE DEF G
<1>4. \A r \in SUBSET s : r # {} => g[r \ {Chosen(r)}] = G(r \ {Chosen(r)})[r \ {Chosen(r)}]
  <2> SUFFICES ASSUME NEW r \in SUBSET s, r # {}
               PROVE  g[r \ {Chosen(r)}] = G(r \ {Chosen(r)})[r \ {Chosen(r)}]
    OBVIOUS
  <2> DEFINE q == r \ {Chosen(r)}
  <2>1. Chosen(r) \in r
    BY DEF Chosen
  <2>2. q # s /\ q \in SUBSET s
    BY <2>1
  <2>3. IsSum(f, q, G(q))
    BY <2>2, <1>2
  <2>4. g[q] = F(q)
    BY <2>2
  <2>5. CASE q = {}
    BY <2>3, <2>4, <2>5 DEF IsSum
  <2>6. CASE q # {}
    <3> DEFINE p == q \ {Chosen(q)}
    <3>1. Chosen(q) \in q
      BY <2>6 DEF Chosen
    <3>2. p # s /\ p \in SUBSET s /\ p \in SUBSET q
      BY <3>1, <2>2
    <3>3. IsSum(f, p, G(p))
      BY <3>2, <1>2
    <3>4. IsFiniteSet(p)
      BY <3>2, <1>3
    <3>5. G(p)[p] = G(q)[p]
      <4> HIDE DEF p, q
      <4>1. QED
      BY <2>3, <3>3, <3>4, <3>2, SumsAgree
    <3>6. G(q)[q] = f[Chosen(q)] + G(q)[p]
      BY <2>3, <2>6 DEF IsSum
    <3>7. QED
      BY <2>4, <2>6, <3>5, <3>6
  <2>7. QED
    BY <2>5, <2>6
<1>5. g = [r \in SUBSET s |-> IF r = {} THEN 0 ELSE f[Chosen(r)] + g[r \ {Chosen(r)}]]
  BY <1>4
<1>6. IsSum(f, s, g)
  BY <1>5 DEF IsSum
<1>7. QED
  BY <1>6, <1>1

\* SumFunctionOnSet is such a function, at the whole set.
LEMMA SumDef ==
  ASSUME NEW f, NEW S
  PROVE  SumFunctionOnSet(f, S) = (CHOOSE g : IsSum(f, S, g))[S]
BY Zenon DEF SumFunctionOnSet, FoldFunctionOnSet, MapThenFoldSet, IsSum, Chosen

\* The recursion itself: an element, and the sum over the others.
LEMMA SumStep ==
  ASSUME NEW f, NEW S, IsFiniteSet(S)
  PROVE  SumFunctionOnSet(f, S) =
           IF S = {} THEN 0
           ELSE f[Chosen(S)] + SumFunctionOnSet(f, S \ {Chosen(S)})
<1> DEFINE g == CHOOSE h : IsSum(f, S, h)
           R == S \ {Chosen(S)}
           k == CHOOSE h : IsSum(f, R, h)
<1>1. IsSum(f, S, g)
  BY SumExists
<1>2. IsFiniteSet(R)
  BY FS_Subset
<1>3. IsSum(f, R, k)
  BY <1>2, SumExists
<1>4. g[R] = k[R]
  <2> HIDE DEF g, k
  <2>1. R \in SUBSET R /\ R \subseteq S
    OBVIOUS
  <2> HIDE DEF R
  <2>2. QED
    BY <1>1, <1>2, <1>3, <2>1, SumsAgree
<1>5. SumFunctionOnSet(f, S) = g[S] /\ SumFunctionOnSet(f, R) = k[R]
  BY SumDef
<1>6. g[S] = IF S = {} THEN 0 ELSE f[Chosen(S)] + g[R]
  BY <1>1 DEF IsSum
<1>7. QED
  BY <1>4, <1>5, <1>6

\* The sum over the empty set.
THEOREM SumOfNone ==
  ASSUME NEW f
  PROVE  SumFunctionOnSet(f, {}) = 0
BY SumStep, FS_EmptySet

\* A sum of naturals over a finite set is a natural.
THEOREM SumIsNat ==
  ASSUME NEW f, NEW S, IsFiniteSet(S), \A x \in S : f[x] \in Nat
  PROVE  SumFunctionOnSet(f, S) \in Nat
<1> DEFINE Bad == {s \in SUBSET S : SumFunctionOnSet(f, s) \notin Nat}
<1> SUFFICES ASSUME Bad # {} PROVE FALSE
  OBVIOUS
<1>1. PICK s \in Bad : \A r \in Bad : r \subseteq s => r = s
  <2>1. Bad \in SUBSET SUBSET S
    OBVIOUS
  <2> HIDE DEF Bad
  <2>2. QED
    BY <2>1, SmallestSubset
<1>2. s # {}
  <2>1. SumFunctionOnSet(f, {}) \in Nat
    BY SumOfNone
  <2>2. QED
    BY <1>1, <2>1
<1>3. Chosen(s) \in s
  BY <1>2 DEF Chosen
<1>4. SumFunctionOnSet(f, s) = f[Chosen(s)] + SumFunctionOnSet(f, s \ {Chosen(s)})
  BY <1>1, <1>2, SumStep, FS_Subset
<1>5. SumFunctionOnSet(f, s \ {Chosen(s)}) \in Nat
  BY <1>1, <1>3
<1>6. QED
  BY <1>1, <1>3, <1>4, <1>5

\* Any element may be taken off first, whichever the recursion takes.
THEOREM SumSplit ==
  ASSUME NEW f, NEW S, IsFiniteSet(S), \A x \in S : f[x] \in Nat, NEW e \in S
  PROVE  SumFunctionOnSet(f, S) = f[e] + SumFunctionOnSet(f, S \ {e})
<1> DEFINE Sum(s) == SumFunctionOnSet(f, s)
           Bad == {s \in SUBSET S : \E x \in s : Sum(s) # f[x] + Sum(s \ {x})}
<1> SUFFICES ASSUME Bad # {} PROVE FALSE
  OBVIOUS
<1>1. PICK s \in Bad : \A r \in Bad : r \subseteq s => r = s
  <2>1. Bad \in SUBSET SUBSET S
    OBVIOUS
  <2> HIDE DEF Bad
  <2>2. QED
    BY <2>1, SmallestSubset
<1>2. PICK x \in s : Sum(s) # f[x] + Sum(s \ {x})
  BY <1>1
<1> DEFINE c == Chosen(s)
<1>3. c \in s
  BY <1>2 DEF Chosen
<1>s. \A r \in SUBSET s : r # s => \A y \in r : Sum(r) = f[y] + Sum(r \ {y})
  BY <1>1
<1>4. \A r \in SUBSET S : IsFiniteSet(r)
  BY FS_Subset
<1>5. \A r \in SUBSET S : Sum(r) \in Nat
  BY <1>4, SumIsNat
<1>6. Sum(s) = f[c] + Sum(s \ {c})
  BY <1>1, <1>2, <1>4, SumStep
<1>7. x # c
  BY <1>2, <1>6
<1>8. Sum(s \ {c}) = f[x] + Sum((s \ {c}) \ {x})
  <2>1. s \ {c} \in SUBSET s /\ s \ {c} # s /\ x \in s \ {c}
    BY <1>3, <1>7
  <2> HIDE DEF Sum, c
  <2>2. QED
    BY <1>s, <2>1
<1>9. Sum(s \ {x}) = f[c] + Sum((s \ {x}) \ {c})
  <2>1. s \ {x} \in SUBSET s /\ s \ {x} # s /\ c \in s \ {x}
    BY <1>3, <1>7
  <2> HIDE DEF Sum, c
  <2>2. QED
    BY <1>s, <2>1
<1>10. (s \ {c}) \ {x} = (s \ {x}) \ {c}
  OBVIOUS
<1>11. /\ f[c] \in Nat /\ f[x] \in Nat
       /\ Sum((s \ {x}) \ {c}) \in Nat
  BY <1>1, <1>3, <1>5
<1>12. QED
  <2> HIDE DEF Sum, c
  <2>1. QED
    BY <1>2, <1>6, <1>8, <1>9, <1>10, <1>11

\* The sum depends on the function only over the set.
THEOREM SumOfSame ==
  ASSUME NEW f, NEW g, NEW S, IsFiniteSet(S), \A x \in S : f[x] = g[x]
  PROVE  SumFunctionOnSet(f, S) = SumFunctionOnSet(g, S)
<1> DEFINE Bad == {s \in SUBSET S : SumFunctionOnSet(f, s) # SumFunctionOnSet(g, s)}
<1> SUFFICES ASSUME Bad # {} PROVE FALSE
  OBVIOUS
<1>1. PICK s \in Bad : \A r \in Bad : r \subseteq s => r = s
  <2>1. Bad \in SUBSET SUBSET S
    OBVIOUS
  <2> HIDE DEF Bad
  <2>2. QED
    BY <2>1, SmallestSubset
<1>2. s # {}
  BY <1>1, SumOfNone
<1>3. Chosen(s) \in s
  BY <1>2 DEF Chosen
<1>4. /\ SumFunctionOnSet(f, s) = f[Chosen(s)] + SumFunctionOnSet(f, s \ {Chosen(s)})
      /\ SumFunctionOnSet(g, s) = g[Chosen(s)] + SumFunctionOnSet(g, s \ {Chosen(s)})
  BY <1>1, <1>2, SumStep, FS_Subset
<1>5. SumFunctionOnSet(f, s \ {Chosen(s)}) = SumFunctionOnSet(g, s \ {Chosen(s)})
  BY <1>1, <1>3
<1>6. QED
  BY <1>1, <1>3, <1>4, <1>5

\* One element joins the set (or, read from right to left, leaves it).
THEOREM SumJoined ==
  ASSUME NEW f, NEW g, NEW S, NEW T, NEW e \in T, IsFiniteSet(T), S = T \ {e},
         \A x \in S : f[x] = g[x], \A x \in T : g[x] \in Nat
  PROVE  SumFunctionOnSet(g, T) = g[e] + SumFunctionOnSet(f, S)
<1>1. IsFiniteSet(S)
  BY FS_Subset
<1>2. SumFunctionOnSet(g, T) = g[e] + SumFunctionOnSet(g, S)
  BY SumSplit
<1>3. SumFunctionOnSet(f, S) = SumFunctionOnSet(g, S)
  BY <1>1, SumOfSame
<1>4. QED
  BY <1>2, <1>3

\* The function changes at one element of the set.
THEOREM SumChanged ==
  ASSUME NEW f, NEW g, NEW S, NEW e \in S, IsFiniteSet(S),
         \A x \in S \ {e} : f[x] = g[x],
         \A x \in S : f[x] \in Nat, \A x \in S : g[x] \in Nat
  PROVE  SumFunctionOnSet(g, S) + f[e] = SumFunctionOnSet(f, S) + g[e]
<1> DEFINE R == S \ {e}
<1>1. IsFiniteSet(R)
  BY FS_Subset
<1>2. SumFunctionOnSet(g, S) = g[e] + SumFunctionOnSet(g, R)
  BY SumSplit
<1>3. SumFunctionOnSet(f, S) = f[e] + SumFunctionOnSet(f, R)
  BY SumSplit
<1>4. SumFunctionOnSet(f, R) = SumFunctionOnSet(g, R)
  BY <1>1, SumOfSame
<1>5. SumFunctionOnSet(f, R) \in Nat
  BY <1>1, SumIsNat
<1>6. QED
  BY <1>2, <1>3, <1>4, <1>5

\* Only e may join the set, leave it or change its value.
THEOREM SumMoved ==
  ASSUME NEW U, IsFiniteSet(U), NEW e \in U, NEW S \in SUBSET U, NEW T \in SUBSET U,
         NEW f, NEW g, \A x \in U : f[x] \in Nat, \A x \in U : g[x] \in Nat,
         \A x \in U : x # e => f[x] = g[x] /\ (x \in S <=> x \in T)
  PROVE  /\ e \in S /\ e \in T /\ f[e] = g[e]
              => SumFunctionOnSet(g, T) = SumFunctionOnSet(f, S)
         /\ e \notin S /\ e \notin T => SumFunctionOnSet(g, T) = SumFunctionOnSet(f, S)
         /\ e \notin S /\ e \in T
              => SumFunctionOnSet(g, T) = g[e] + SumFunctionOnSet(f, S)
         /\ e \in S /\ e \notin T
              => SumFunctionOnSet(f, S) = f[e] + SumFunctionOnSet(g, T)
<1>0. IsFiniteSet(S) /\ IsFiniteSet(T)
  BY FS_Subset
<1>1. ASSUME e \in S, e \in T, f[e] = g[e]
      PROVE  SumFunctionOnSet(g, T) = SumFunctionOnSet(f, S)
  <2>1. S = T /\ \A x \in S : f[x] = g[x]
    BY <1>1
  <2>2. SumFunctionOnSet(g, S) = SumFunctionOnSet(f, S)
    BY <1>0, <2>1, SumOfSame
  <2>3. QED
    BY <2>1, <2>2
<1>2. ASSUME e \notin S, e \notin T
      PROVE  SumFunctionOnSet(g, T) = SumFunctionOnSet(f, S)
  <2>1. S = T /\ \A x \in S : f[x] = g[x]
    BY <1>2
  <2>2. SumFunctionOnSet(g, S) = SumFunctionOnSet(f, S)
    BY <1>0, <2>1, SumOfSame
  <2>3. QED
    BY <2>1, <2>2
<1>3. ASSUME e \notin S, e \in T
      PROVE  SumFunctionOnSet(g, T) = g[e] + SumFunctionOnSet(f, S)
  <2>1. S = T \ {e}
    BY <1>3
  <2>2. QED
    BY <1>0, <1>3, <2>1, SumJoined
<1>4. ASSUME e \in S, e \notin T
      PROVE  SumFunctionOnSet(f, S) = f[e] + SumFunctionOnSet(g, T)
  <2>1. T = S \ {e}
    BY <1>4
  <2>2. QED
    BY <1>0, <1>4, <2>1, SumJoined
<1>5. QED
  BY <1>1, <1>2, <1>3, <1>4

\* A sum of zeros.
THEOREM SumOfZeros ==
  ASSUME NEW f, NEW S, IsFiniteSet(S), \A x \in S : f[x] = 0
  PROVE  SumFunctionOnSet(f, S) = 0
<1> DEFINE Bad == {s \in SUBSET S : SumFunctionOnSet(f, s) # 0}
<1> SUFFICES ASSUME Bad # {} PROVE FALSE
  OBVIOUS
<1>1. PICK s \in Bad : \A r \in Bad : r \subseteq s => r = s
  <2>1. Bad \in SUBSET SUBSET S
    OBVIOUS
  <2> HIDE DEF Bad
  <2>2. QED
    BY <2>1, SmallestSubset
<1>2. s # {}
  BY <1>1, SumOfNone
<1>3. Chosen(s) \in s
  BY <1>2 DEF Chosen
<1>4. SumFunctionOnSet(f, s) = f[Chosen(s)] + SumFunctionOnSet(f, s \ {Chosen(s)})
  BY <1>1, <1>2, SumStep, FS_Subset
<1>5. SumFunctionOnSet(f, s \ {Chosen(s)}) = 0
  BY <1>1, <1>3
<1>6. QED
  BY <1>1, <1>3, <1>4, <1>5

-----------------------------------------------------------------------------
(***************************************************************************)
(* The inductive invariant, part by part.                                  *)
(***************************************************************************)

\* Every pair is a string with an id of the dictionary d that stands for it.
Names(pairs, d) ==
  \A pair \in pairs : pair[2] \in 1..Len(d) /\ d[pair[2]] = pair[1]

\* Every row's id stands in d for the string its writer offered.
RowsNamed(rows, d) ==
  \A i \in 1..Len(rows) : rows[i].sid \in 1..Len(d) /\ d[rows[i].sid] = rows[i].str

Distinct(rows) ==
  \A i, j \in 1..Len(rows) : rows[i].event = rows[j].event => i = j

Extends(t, s) == Len(s) <= Len(t) /\ \A i \in 1..Len(s) : t[i] = s[i]

\* At most one call of a process holds its thread, and its handle is open.
ThreadInv ==
  \A p \in Proc : \A s \in Slot :
    call[p][s].pc \in OnThread =>
      conn[p] = "open" /\ \A r \in Slot : call[p][r].pc \in OnThread => r = s

\* The call that inserts owns the transaction, and what it counted is what
\* the transaction holds beyond the table.
InsertingInv ==
  \A p \in Proc : \A s \in Slot :
    LET c == call[p][s] IN
    c.pc = "inserting" =>
      /\ tx.proc = p
      /\ c.pos \in 1..(Len(c.rows) + 1)
      /\ c.written + c.duplicates = c.pos - 1
      /\ Len(tx.events) = Len(events) + c.written
      /\ Names(c.fresh, tx.dict)

\* A committed call counted every row of its batch, and remembers only
\* strings that are in the table.
CommittedInv ==
  \A p \in Proc : \A s \in Slot :
    LET c == call[p][s] IN
    c.pc = "committed" =>
      c.written + c.duplicates = Len(c.rows) /\ Names(c.fresh, dict)

BatchInv == \A p \in Proc : \A s \in Slot : Len(call[p][s].rows) <= MaxBatch

\* The open transaction is an extension of the tables that could be committed.
TxInv ==
  tx.proc # None =>
    /\ Extends(tx.events, events) /\ Extends(tx.dict, dict)
    /\ RowsNamed(tx.events, tx.dict) /\ Distinct(tx.events)

TableInv == RowsNamed(events, dict) /\ Distinct(events)

CacheInv == \A p \in Proc : Names(cache[p], dict)

DueInv == \A p \in Proc : due[p] => conn[p] = "open"

IInv ==
  /\ TypeOK /\ ThreadInv /\ InsertingInv /\ CommittedInv /\ BatchInv
  /\ TxInv /\ TableInv /\ CacheInv

-----------------------------------------------------------------------------
(***************************************************************************)
(* planAppend's rows.                                                      *)
(***************************************************************************)

\* g maps n to what the first n events of batch b leave of them.
IsKept(b, m, g) ==
  g = [n \in 0..m |-> IF n = 0 THEN <<>>
                      ELSE IF Valid(b[n]) THEN Append(g[n - 1], b[n])
                      ELSE g[n - 1]]

\* There is a sequence that keeps the rows of a batch that are accepted.
LEMMA KeptExists ==
  ASSUME NEW b, NEW m \in Nat
  PROVE  \E g : IsKept(b, m, g)
<1> DEFINE Bad == {n \in Nat : ~ \E g : IsKept(b, n, g)}
<1> SUFFICES ASSUME Bad # {} PROVE FALSE
  OBVIOUS
<1>1. PICK k \in Bad : \A n \in Bad : k <= n
  <2>1. Bad \in SUBSET Nat
    OBVIOUS
  <2> HIDE DEF Bad
  <2>2. QED
    BY <2>1, SmallestNumber
<1>2. k # 0
  <2>1. IsKept(b, 0, [n \in 0..0 |-> <<>>])
    BY DEF IsKept
  <2>2. QED
    BY <1>1, <2>1
<1>3. k - 1 \in Nat /\ k - 1 \notin Bad
  BY <1>1, <1>2
<1>4. PICK g : IsKept(b, k - 1, g)
  BY <1>3
<1> DEFINE last == IF Valid(b[k]) THEN Append(g[k - 1], b[k]) ELSE g[k - 1]
           h == [n \in 0..k |-> IF n = k THEN last ELSE g[n]]
<1>5. \A n \in 0..k : h[n] = IF n = 0 THEN <<>>
                            ELSE IF Valid(b[n]) THEN Append(h[n - 1], b[n])
                            ELSE h[n - 1]
  <2> SUFFICES ASSUME NEW n \in 0..k
               PROVE  h[n] = IF n = 0 THEN <<>>
                             ELSE IF Valid(b[n]) THEN Append(h[n - 1], b[n])
                             ELSE h[n - 1]
    OBVIOUS
  <2>1. CASE n = k
    BY <1>2, <1>3, <2>1
  <2>2. CASE n # k
    <3>1. n \in 0..(k - 1) /\ k \in Nat
      BY <1>1, <2>2
    <3>2. h[n] = g[n] /\ (n # 0 => h[n - 1] = g[n - 1])
      BY <3>1
    <3>3. g[n] = IF n = 0 THEN <<>>
                 ELSE IF Valid(b[n]) THEN Append(g[n - 1], b[n])
                 ELSE g[n - 1]
      BY <1>4, <3>1 DEF IsKept
    <3>4. QED
      BY <3>2, <3>3, Zenon
  <2>3. QED
    BY <2>1, <2>2
<1>6. IsKept(b, k, h)
  <2> HIDE DEF last
  <2>1. QED
    BY <1>5 DEF IsKept
<1>7. QED
  BY <1>1, <1>6

\* What planAppend keeps of a batch are offered events, no more than it got.
LEMMA AcceptedRows ==
  ASSUME NEW batch \in Batches
  PROVE  /\ Accepted(batch) \in Seq(Offered)
         /\ Len(Accepted(batch)) <= Len(batch)
         /\ Len(batch) \in Nat /\ Len(batch) <= MaxBatch
<1>1. PICK m \in 1..MaxBatch : batch \in [1..m -> Offered]
  BY DEF Batches
<1>2. Len(batch) = m /\ m \in Nat /\ m <= MaxBatch
  BY <1>1, JournalAssumption
<1> DEFINE g == CHOOSE f : IsKept(batch, m, f)
<1>3. IsKept(batch, m, g)
  BY <1>2, KeptExists
<1>4. Accepted(batch) = g[m]
  BY <1>2, Zenon DEF Accepted, IsKept
<1> HIDE DEF g
<1> DEFINE Bad == {n \in 0..m : ~ (g[n] \in Seq(Offered) /\ Len(g[n]) <= n)}
<1>5. Bad = {}
  <2> SUFFICES ASSUME Bad # {} PROVE FALSE
    OBVIOUS
  <2>1. PICK k \in Bad : \A n \in Bad : k <= n
    <3>1. Bad \in SUBSET Nat
      BY <1>2
    <3> HIDE DEF Bad
    <3>2. QED
      BY <3>1, SmallestNumber
  <2>2. g[0] = <<>>
    BY <1>2, <1>3 DEF IsKept
  <2>3. k # 0
    <3>1. g[0] \in Seq(Offered) /\ Len(g[0]) <= 0
      BY <2>2
    <3>2. QED
      BY <2>1, <3>1
  <2>4. g[k - 1] \in Seq(Offered) /\ Len(g[k - 1]) <= k - 1
    BY <1>2, <2>1, <2>3
  <2>5. batch[k] \in Offered
    BY <1>1, <1>2, <2>1, <2>3
  <2>6. g[k] = IF Valid(batch[k]) THEN Append(g[k - 1], batch[k]) ELSE g[k - 1]
    BY <1>2, <1>3, <2>1, <2>3 DEF IsKept
  <2>7. g[k] \in Seq(Offered) /\ Len(g[k]) <= k
    BY <1>2, <2>1, <2>4, <2>5, <2>6
  <2>8. QED
    BY <2>1, <2>7
<1>6. QED
  BY <1>2, <1>4, <1>5

-----------------------------------------------------------------------------
(***************************************************************************)
(* Types.                                                                  *)
(***************************************************************************)

LEMMA PutCall ==
  ASSUME TypeOK, NEW p \in Proc, NEW s \in Slot, NEW c \in CallType,
         SetCall(p, s, c)
  PROVE  /\ call' \in [Proc -> [Slot -> CallType]]
         /\ call'[p][s] = c
         /\ \A q \in Proc : \A r \in Slot :
              q # p \/ r # s => call'[q][r] = call[q][r]
BY DEF TypeOK, SetCall

\* The parts of a call.
LEMMA CallFields ==
  ASSUME TypeOK, NEW p \in Proc, NEW s \in Slot
  PROVE  /\ call[p][s] \in CallType
         /\ call[p][s].rows \in Seq(Offered) /\ Len(call[p][s].rows) \in Nat
         /\ call[p][s].tries \in Nat /\ call[p][s].retry \in BOOLEAN
         /\ call[p][s].pos \in Nat /\ call[p][s].fresh \subseteq Pair
         /\ call[p][s].written \in Nat /\ call[p][s].duplicates \in Nat
<1>1. call[p][s] \in CallType
  BY DEF TypeOK
<1>2. QED
  BY <1>1 DEF CallType

\* Count changes the counters of one process and nothing else of the counters.
LEMMA PutCount ==
  ASSUME TypeOK, NEW p \in Proc, NEW c \in CountersType, Count(p, c)
  PROVE  /\ counters' \in [Proc -> CountersType]
         /\ counters'[p] = c
         /\ \A q \in Proc : q # p => counters'[q] = counters[q]
BY DEF TypeOK, Count

\* The parts of the counters.
LEMMA CounterFields ==
  ASSUME TypeOK, NEW p \in Proc
  PROVE  /\ counters[p] \in CountersType
         /\ counters[p].offered \in Nat /\ counters[p].written \in Nat
         /\ counters[p].duplicates \in Nat /\ counters[p].rejected \in Nat
         /\ counters[p].dropped \in Nat
<1>1. counters[p] \in CountersType
  BY DEF TypeOK
<1>2. QED
  BY <1>1 DEF CountersType

\* The sums an answered call adds to its counters are numbers.
LEMMA CountsAdd ==
  ASSUME TypeOK, NEW p \in Proc, NEW s \in Slot
  PROVE  /\ counters[p].written + call[p][s].written \in Nat
         /\ counters[p].duplicates + call[p][s].duplicates \in Nat
         /\ counters[p].dropped + Len(call[p][s].rows) \in Nat
<1>1. call[p][s].written \in Nat /\ call[p][s].duplicates \in Nat
      /\ Len(call[p][s].rows) \in Nat
  BY CallFields
<1>2. counters[p].written \in Nat /\ counters[p].duplicates \in Nat
      /\ counters[p].dropped \in Nat
  BY CounterFields
<1>3. counters[p].written + call[p][s].written \in Nat
  BY <1>1, <1>2
<1>4. counters[p].duplicates + call[p][s].duplicates \in Nat
  BY <1>1, <1>2
<1>5. counters[p].dropped + Len(call[p][s].rows) \in Nat
  BY <1>1, <1>2
<1>6. QED
  BY <1>3, <1>4, <1>5

\* A call nobody makes is a call.
LEMMA IdleType == Idle \in CallType
BY DEF Idle, CallType

\* The tables and what a transaction makes of them.
LEMMA TxTypes ==
  ASSUME TypeOK
  PROVE  /\ events \in Seq(Row) /\ dict \in Seq(Str)
         /\ tx.events \in Seq(Row) /\ tx.dict \in Seq(Str)
         /\ Len(events) \in Nat /\ Len(dict) \in Nat
         /\ Len(tx.events) \in Nat /\ Len(tx.dict) \in Nat
         /\ NoTx \in [proc : Proc \cup {None}, events : Seq(Row), dict : Seq(Str)]
         /\ NoTx.proc = None
BY DEF TypeOK, NoTx

\* intern(): the row at c.pos goes in with an id that stands for its string
\* in the dictionary the transaction is left with.
LEMMA InsertEffect ==
  ASSUME IInv, NEW p \in Proc, NEW s \in Slot, InsertRow(p, s)
  PROVE  \E id, fresh, d :
           /\ Insert(p, s, id, fresh, d)
           /\ call[p][s].rows[call[p][s].pos] \in [event : Event, str : Str]
           /\ d \in Seq(Str) /\ Extends(d, tx.dict)
           /\ id \in 1..Len(d) /\ d[id] = call[p][s].rows[call[p][s].pos].str
           /\ fresh \subseteq Pair /\ Names(fresh, d)
<1> DEFINE c == call[p][s]
           o == c.rows[c.pos]
           n == Len(tx.dict) + 1
<1>1. /\ c.pc = "inserting" /\ tx.proc = p /\ tx.proc # None
      /\ c.pos \in 1..Len(c.rows) /\ Names(c.fresh, tx.dict)
  <2>1. /\ c.rows \in Seq(Offered) /\ Len(c.rows) \in Nat /\ c.pos \in Nat
        /\ c.pc = "inserting" /\ c.pos <= Len(c.rows)
    BY CallFields DEF IInv, InsertRow
  <2>2. tx.proc = p /\ c.pos \in 1..(Len(c.rows) + 1) /\ Names(c.fresh, tx.dict)
    BY <2>1 DEF IInv, InsertingInv
  <2>3. QED
    BY <2>1, <2>2, JournalAssumption
<1>2. o \in [event : Event, str : Str]
  <2>1. c.rows \in Seq(Offered)
    BY CallFields DEF IInv
  <2>2. o \in Offered
    BY <1>1, <2>1
  <2>3. QED
    BY <2>2, JournalAssumption
<1>3. /\ tx.dict \in Seq(Str) /\ Len(tx.dict) \in Nat /\ Len(dict) \in Nat
      /\ Extends(tx.dict, tx.dict) /\ c.fresh \subseteq Pair
  BY CallFields, TxTypes DEF IInv, Extends
<1>4. Names(cache[p], tx.dict)
  BY <1>1, <1>3 DEF IInv, CacheInv, TxInv, Names, Extends
<1>5. ASSUME NEW pair \in Remembered(p, s, o.str)
      PROVE  pair[2] \in 1..Len(tx.dict) /\ tx.dict[pair[2]] = o.str
  BY <1>1, <1>4, <1>5 DEF Remembered, Names
<1>6. ASSUME NEW id \in Stored(o.str)
      PROVE  /\ id \in 1..Len(tx.dict) /\ tx.dict[id] = o.str
             /\ c.fresh \cup {<<o.str, id>>} \subseteq Pair
             /\ Names(c.fresh \cup {<<o.str, id>>}, tx.dict)
  <2>1. id \in 1..Len(tx.dict) /\ tx.dict[id] = o.str
    BY <1>6 DEF Stored
  <2>2. <<o.str, id>> \in Pair
    BY <1>2, <1>3, <2>1 DEF Pair
  <2>3. Names(c.fresh \cup {<<o.str, id>>}, tx.dict)
    BY <1>1, <2>1 DEF Names
  <2>4. QED
    BY <1>3, <2>1, <2>2, <2>3
<1> DEFINE d1 == Append(tx.dict, o.str)
           f1 == c.fresh \cup {<<o.str, n>>}
<1>7. /\ d1 \in Seq(Str) /\ Extends(d1, tx.dict)
      /\ n \in 1..Len(d1) /\ d1[n] = o.str
      /\ f1 \subseteq Pair /\ Names(f1, d1)
  <2>1. /\ d1 \in Seq(Str) /\ Len(d1) = n /\ d1[n] = o.str /\ n \in Nat \ {0}
        /\ \A i \in 1..Len(tx.dict) : d1[i] = tx.dict[i]
    BY <1>2, <1>3
  <2>2. <<o.str, n>> \in Pair
    BY <1>2, <2>1 DEF Pair
  <2>3. Names(f1, d1)
    <3> SUFFICES ASSUME NEW pair \in f1
                 PROVE  pair[2] \in 1..Len(d1) /\ d1[pair[2]] = pair[1]
      BY DEF Names
    <3> HIDE DEF d1
    <3>1. CASE pair \in c.fresh
      BY <1>1, <1>3, <2>1, <3>1 DEF Names
    <3>2. CASE pair = <<o.str, n>>
      BY <2>1, <3>2
    <3>3. QED
      BY <3>1, <3>2
  <2>4. Extends(d1, tx.dict)
    <3> HIDE DEF d1
    <3>1. QED
      BY <1>3, <2>1 DEF Extends
  <2>5. f1 \subseteq Pair
    BY <1>3, <2>2
  <2>6. n \in 1..Len(d1)
    BY <2>1
  <2> HIDE DEF d1, f1
  <2>7. QED
    BY <2>1, <2>3, <2>4, <2>5, <2>6
<1>8. \/ \E pair \in Remembered(p, s, o.str) :
           Insert(p, s, pair[2], c.fresh, tx.dict)
      \/ \E id \in Stored(o.str) :
           Insert(p, s, id, c.fresh \cup {<<o.str, id>>}, tx.dict)
      \/ Insert(p, s, n, f1, d1)
  BY DEF InsertRow
<1>9. QED
  <2> HIDE DEF o, n, c, d1, f1
  <2>1. CASE \E pair \in Remembered(p, s, o.str) :
               Insert(p, s, pair[2], c.fresh, tx.dict)
    BY <1>1, <1>2, <1>3, <1>5, <2>1, Zenon DEF o, c
  <2>2. CASE \E id \in Stored(o.str) :
               Insert(p, s, id, c.fresh \cup {<<o.str, id>>}, tx.dict)
    BY <1>2, <1>3, <1>6, <2>2, Zenon DEF o, c
  <2>3. CASE Insert(p, s, n, f1, d1)
    BY <1>2, <1>7, <2>3, Zenon DEF o, c
  <2>4. QED
    BY <1>8, <2>1, <2>2, <2>3

\* The row that goes in, and the call after it, are of their types.
LEMMA InsertType ==
  ASSUME TypeOK, NEW p \in Proc, NEW s \in Slot, NEW id, NEW fresh, NEW d,
         Insert(p, s, id, fresh, d), d \in Seq(Str), id \in 1..Len(d),
         fresh \subseteq Pair,
         call[p][s].rows[call[p][s].pos] \in [event : Event, str : Str]
  PROVE  /\ tx' \in [proc : Proc \cup {None}, events : Seq(Row), dict : Seq(Str)]
         /\ call' \in [Proc -> [Slot -> CallType]]
<1> DEFINE c == call[p][s]
           o == c.rows[c.pos]
           dup == Present(tx.events, o.event)
           row == [event |-> o.event, sid |-> id, str |-> o.str]
           k == [c EXCEPT !.pos = @ + 1, !.fresh = fresh,
                          !.written = @ + IF dup THEN 0 ELSE 1,
                          !.duplicates = @ + IF dup THEN 1 ELSE 0]
<1>1. row \in Row
  BY DEF Row
<1>2. tx' \in [proc : Proc \cup {None}, events : Seq(Row), dict : Seq(Str)]
  <2>1. tx' = [tx EXCEPT !.dict = d,
                         !.events = IF dup THEN @ ELSE Append(@, row)]
    BY DEF Insert
  <2>2. tx \in [proc : Proc \cup {None}, events : Seq(Row), dict : Seq(Str)]
    BY DEF TypeOK
  <2> HIDE DEF dup, row
  <2>3. CASE dup
    <3>1. tx' = [tx EXCEPT !.dict = d, !.events = tx.events]
      BY <2>1, <2>3
    <3>2. QED
      BY <2>2, <3>1
  <2>4. CASE ~dup
    <3> DEFINE es == Append(tx.events, row)
    <3>1. tx' = [tx EXCEPT !.dict = d, !.events = es]
      BY <2>1, <2>4
    <3>2. es \in Seq(Row)
      BY <1>1, <2>2
    <3> HIDE DEF es
    <3>3. QED
      BY <2>2, <3>1, <3>2
  <2>5. QED
    BY <2>3, <2>4
<1>3. k \in CallType
  <2>1. /\ c \in CallType /\ c.pos + 1 \in Nat
        /\ c.written + (IF dup THEN 0 ELSE 1) \in Nat
        /\ c.duplicates + (IF dup THEN 1 ELSE 0) \in Nat
    BY CallFields
  <2> HIDE DEF dup, c
  <2>2. QED
    BY <2>1 DEF CallType
<1>4. SetCall(p, s, k)
  BY DEF Insert
<1>5. QED
  <2> HIDE DEF k
  <2>1. QED
    BY <1>2, <1>3, <1>4, PutCall

\* Every step keeps the types.
LEMMA TypeStep == IInv /\ [Next]_vars => TypeOK'
<1> SUFFICES ASSUME IInv, [Next]_vars PROVE TypeOK'
  OBVIOUS
<1>0. TypeOK
  BY DEF IInv
<1> USE JournalAssumption
<1>1. CASE UNCHANGED vars
  BY <1>0, <1>1 DEF TypeOK, vars
<1>2. ASSUME NEW p \in Proc, Open(p) \/ OpenDisabled(p) \/ Close(p) \/ FireCheckpoint(p)
      PROVE  TypeOK'
  BY <1>0, <1>2 DEF TypeOK, Open, OpenDisabled, Close, FireCheckpoint
<1>3. ASSUME NEW p \in Proc, Crash(p) PROVE TypeOK'
  <2>1. tx' \in [proc : Proc \cup {None}, events : Seq(Row), dict : Seq(Str)]
    BY <1>0, <1>3, TxTypes DEF Crash, TypeOK
  <2>2. call' \in [Proc -> [Slot -> CallType]]
    BY <1>0, <1>3, IdleType DEF Crash, TypeOK
  <2>3. counters' \in [Proc -> CountersType]
    BY <1>0, <1>3 DEF Crash, TypeOK, Zero, CountersType
  <2>4. QED
    BY <1>0, <1>3, <2>1, <2>2, <2>3 DEF Crash, TypeOK
<1>4. ASSUME NEW p \in Proc, NEW i \in 1..Len(events), ReadRow(p, i) PROVE TypeOK'
  <2>1. /\ Decode(p, events[i].sid) \subseteq Str /\ events[i].sid \in Nat
    <3>1. events[i] \in Row /\ cache[p] \subseteq Pair
      BY <1>0 DEF TypeOK
    <3>2. events[i].sid \in Nat
      BY <3>1 DEF Row
    <3>3. \A pair \in cache[p] : pair[1] \in Str
      BY <3>1 DEF Pair
    <3>4. QED
      BY <1>0, <3>2, <3>3 DEF Decode, Cached, TypeOK
  <2>2. {<<x, events[i].sid>> : x \in Decode(p, events[i].sid)} \subseteq Pair
    BY <2>1 DEF Pair
  <2>3. cache' \in [Proc -> SUBSET Pair]
    BY <1>0, <1>4, <2>2 DEF ReadRow, TypeOK
  <2>4. QED
    BY <1>0, <1>4, <2>3 DEF ReadRow, TypeOK
<1>5. ASSUME NEW p \in Proc, NEW pair \in cache[p], Evict(p, pair) PROVE TypeOK'
  BY <1>0, <1>5 DEF Evict, TypeOK
<1>6. ASSUME NEW p \in Proc, NEW s \in Slot, NEW batch \in Batches,
             AppendCall(p, s, batch)
      PROVE  TypeOK'
  <2> DEFINE rows == Accepted(batch)
             k == [Idle EXCEPT !.pc = "attempt", !.rows = rows,
                               !.tries = 1, !.retry = recovery[p]]
  <2>1. rows \in Seq(Offered) /\ Len(rows) <= Len(batch)
        /\ Len(batch) \in Nat /\ Len(rows) \in Nat
    BY AcceptedRows
  <2>2. k \in CallType
    <3> HIDE DEF rows
    <3>1. QED
      BY <1>0, <2>1 DEF TypeOK, Idle, CallType
  <2>3. call' \in [Proc -> [Slot -> CallType]]
    <3>1. SetCall(p, s, k) \/ UNCHANGED call
      BY <1>6 DEF AppendCall
    <3> HIDE DEF k
    <3>2. QED
      BY <1>0, <2>2, <3>1, PutCall DEF TypeOK
  <2>4. counters' \in [Proc -> CountersType]
    <3> DEFINE w == conn[p] = "open" /\ rows # <<>>
    <3> DEFINE r == [counters[p] EXCEPT
                       !.offered = @ + Len(batch),
                       !.rejected = @ + (Len(batch) - Len(rows)),
                       !.dropped = @ + IF w THEN 0 ELSE Len(rows)]
    <3>1. Count(p, r)
      BY <1>6 DEF AppendCall
    <3>2. r \in CountersType
      <4>1. counters[p] \in CountersType
        BY <1>0 DEF TypeOK
      <4>2. /\ counters[p].offered + Len(batch) \in Nat
            /\ counters[p].rejected + (Len(batch) - Len(rows)) \in Nat
            /\ counters[p].dropped + (IF w THEN 0 ELSE Len(rows)) \in Nat
        <5> HIDE DEF rows, w
        <5>1. QED
          BY <2>1, <4>1 DEF CountersType
      <4> HIDE DEF rows, w
      <4>3. QED
        BY <4>1, <4>2 DEF CountersType
    <3> HIDE DEF r
    <3>3. QED
      BY <1>0, <3>1, <3>2, PutCount
  <2>5. QED
    BY <1>0, <1>6, <2>3, <2>4 DEF AppendCall, TypeOK
<1>7. ASSUME NEW p \in Proc, NEW s \in Slot, Begin(p, s) PROVE TypeOK'
  <2>1. [call[p][s] EXCEPT !.pc = "inserting", !.pos = 1, !.fresh = {},
                           !.written = 0, !.duplicates = 0] \in CallType
    BY <1>0, CallFields DEF CallType
  <2>2. call' \in [Proc -> [Slot -> CallType]]
    BY <1>0, <1>7, <2>1, PutCall DEF Begin
  <2>3. QED
    BY <1>0, <1>7, <2>2 DEF Begin, TypeOK
<1>8. ASSUME NEW p \in Proc, NEW s \in Slot, Busy(p, s) PROVE TypeOK'
  <2> DEFINE c == call[p][s]
             k == IF c.retry /\ c.tries < RecoveryAttempts
                  THEN [c EXCEPT !.pc = "sleeping", !.tries = @ + 1]
                  ELSE [c EXCEPT !.pc = "failed"]
  <2>1. k \in CallType
    <3>1. c \in CallType /\ c.tries + 1 \in Nat
      BY <1>0, CallFields
    <3> HIDE DEF c
    <3>2. [c EXCEPT !.pc = "sleeping", !.tries = @ + 1] \in CallType
      BY <3>1 DEF CallType
    <3>3. [c EXCEPT !.pc = "failed"] \in CallType
      BY <3>1 DEF CallType
    <3>4. QED
      BY <3>2, <3>3
  <2>2. call' \in [Proc -> [Slot -> CallType]]
    <3>1. SetCall(p, s, k)
      BY <1>8 DEF Busy
    <3> HIDE DEF k
    <3>2. QED
      BY <1>0, <2>1, <3>1, PutCall
  <2>3. QED
    BY <1>0, <1>8, <2>2 DEF Busy, TypeOK
<1>9. ASSUME NEW p \in Proc, NEW s \in Slot, NEW pc \in {"attempt", "failed", "committed"},
             SetCall(p, s, [call[p][s] EXCEPT !.pc = pc])
      PROVE  call' \in [Proc -> [Slot -> CallType]]
  <2>1. [call[p][s] EXCEPT !.pc = pc] \in CallType
    BY <1>0, CallFields DEF CallType
  <2>2. QED
    BY <1>0, <1>9, <2>1, PutCall
<1>10. ASSUME NEW p \in Proc, NEW s \in Slot, Retry(p, s) PROVE TypeOK'
  <2>1. call' \in [Proc -> [Slot -> CallType]]
    BY <1>9, <1>10 DEF Retry
  <2>2. QED
    BY <1>0, <1>10, <2>1 DEF Retry, TypeOK
<1>11. ASSUME NEW p \in Proc, NEW s \in Slot, InsertRow(p, s) PROVE TypeOK'
  <2>1. tx' \in [proc : Proc \cup {None}, events : Seq(Row), dict : Seq(Str)]
        /\ call' \in [Proc -> [Slot -> CallType]]
    BY <1>0, <1>11, InsertEffect, InsertType
  <2>2. QED
    BY <1>0, <1>11, <2>1 DEF InsertRow, TypeOK
<1>12. ASSUME NEW p \in Proc, NEW s \in Slot, Commit(p, s) PROVE TypeOK'
  <2>1. call' \in [Proc -> [Slot -> CallType]]
    BY <1>9, <1>12 DEF Commit
  <2>2. QED
    BY <1>0, <1>12, <2>1, TxTypes DEF Commit, TypeOK
<1>13. ASSUME NEW p \in Proc, NEW s \in Slot, Rollback(p, s) PROVE TypeOK'
  <2>1. call' \in [Proc -> [Slot -> CallType]]
    BY <1>9, <1>13 DEF Rollback
  <2>2. QED
    BY <1>0, <1>13, <2>1, TxTypes DEF Rollback, TypeOK
<1>14. ASSUME NEW p \in Proc, NEW s \in Slot, Resume(p, s) PROVE TypeOK'
  <2>1. call' \in [Proc -> [Slot -> CallType]]
    BY <1>0, <1>14, IdleType, PutCall DEF Resume
  <2>2. counters' \in [Proc -> CountersType]
    <3> DEFINE r == [counters[p] EXCEPT !.written = @ + call[p][s].written,
                                        !.duplicates = @ + call[p][s].duplicates]
    <3>1. counters[p] \in CountersType
      BY <1>0 DEF TypeOK
    <3>2. r \in CountersType
      <4>1. call[p][s].written \in Nat /\ call[p][s].duplicates \in Nat
            /\ Len(call[p][s].rows) \in Nat
        BY <1>0, CallFields
      <4>2. /\ counters[p].written + call[p][s].written \in Nat
            /\ counters[p].duplicates + call[p][s].duplicates \in Nat
            /\ counters[p].dropped + Len(call[p][s].rows) \in Nat
        BY <1>0, CountsAdd
      <4>3. QED
        BY <3>1, <4>2 DEF CountersType
    <3>3. Count(p, r)
      BY <1>14 DEF Resume
    <3> HIDE DEF r
    <3>4. QED
      BY <1>0, <3>2, <3>3, PutCount
  <2>3. cache' \in [Proc -> SUBSET Pair]
    BY <1>0, <1>14, CallFields DEF Resume, TypeOK
  <2>4. QED
    BY <1>0, <1>14, <2>1, <2>2, <2>3 DEF Resume, TypeOK
<1>15. ASSUME NEW p \in Proc, NEW s \in Slot, ResumeFailed(p, s) PROVE TypeOK'
  <2>1. call' \in [Proc -> [Slot -> CallType]]
    BY <1>0, <1>15, IdleType, PutCall DEF ResumeFailed
  <2>2. counters' \in [Proc -> CountersType]
    <3> DEFINE r == [counters[p] EXCEPT !.dropped = @ + Len(call[p][s].rows)]
    <3>1. counters[p] \in CountersType
      BY <1>0 DEF TypeOK
    <3>2. r \in CountersType
      <4>1. call[p][s].written \in Nat /\ call[p][s].duplicates \in Nat
            /\ Len(call[p][s].rows) \in Nat
        BY <1>0, CallFields
      <4>2. /\ counters[p].written + call[p][s].written \in Nat
            /\ counters[p].duplicates + call[p][s].duplicates \in Nat
            /\ counters[p].dropped + Len(call[p][s].rows) \in Nat
        BY <1>0, CountsAdd
      <4>3. QED
        BY <3>1, <4>2 DEF CountersType
    <3>3. Count(p, r)
      BY <1>15 DEF ResumeFailed
    <3> HIDE DEF r
    <3>4. QED
      BY <1>0, <3>2, <3>3, PutCount
  <2>3. QED
    BY <1>0, <1>15, <2>1, <2>2 DEF ResumeFailed, TypeOK
<1>16. QED
  BY <1>1, <1>2, <1>3, <1>4, <1>5, <1>6, <1>7, <1>8, <1>10, <1>11, <1>12, <1>13,
     <1>14, <1>15 DEF Next, Handle, Step

-----------------------------------------------------------------------------
(***************************************************************************)
(* What each action does to the calls.                                     *)
(***************************************************************************)

OthersStay(p, s) ==
  \A q \in Proc : \A r \in Slot : q # p \/ r # s => call'[q][r] = call[q][r]

\* A step that sets one call leaves the others alone.
LEMMA Moved ==
  ASSUME TypeOK, NEW p \in Proc, NEW s \in Slot, NEW c, SetCall(p, s, c)
  PROVE  call'[p][s] = c /\ OthersStay(p, s)
BY DEF TypeOK, SetCall, OthersStay

\* A call begins with the rows of its batch that are accepted, or drops them all.
LEMMA AppendMoves ==
  ASSUME TypeOK, NEW p \in Proc, NEW s \in Slot, NEW batch \in Batches,
         AppendCall(p, s, batch)
  PROVE  /\ OthersStay(p, s)
         /\ \/ /\ conn[p] = "open"
               /\ call'[p][s].pc = "attempt"
               /\ call'[p][s].rows = Accepted(batch)
               /\ counters'[p].dropped = counters[p].dropped
            \/ /\ call'[p][s] = call[p][s]
               /\ counters'[p].dropped = counters[p].dropped + Len(Accepted(batch))
<1> DEFINE rows == Accepted(batch)
           w == conn[p] = "open" /\ rows # <<>>
           k == [Idle EXCEPT !.pc = "attempt", !.rows = rows,
                             !.tries = 1, !.retry = recovery[p]]
           r == [counters[p] EXCEPT
                   !.offered = @ + Len(batch),
                   !.rejected = @ + (Len(batch) - Len(rows)),
                   !.dropped = @ + IF w THEN 0 ELSE Len(rows)]
<1>1. counters'[p] = r
  BY DEF AppendCall, Count, TypeOK
<1>2. r.dropped = counters[p].dropped + IF w THEN 0 ELSE Len(rows)
  BY CounterFields DEF CountersType
<1>3. CASE w
  <2>1. SetCall(p, s, k)
    BY <1>3 DEF AppendCall
  <2>2. call'[p][s] = k /\ OthersStay(p, s)
    <3> HIDE DEF k
    <3>1. QED
      BY <2>1, Moved
  <2>3. k.pc = "attempt" /\ k.rows = rows
    BY DEF Idle
  <2>4. r.dropped = counters[p].dropped
    BY <1>2, <1>3, CounterFields
  <2> HIDE DEF k, r, rows
  <2>5. QED
    BY <1>1, <1>3, <2>2, <2>3, <2>4 DEF rows
<1>4. CASE ~w
  <2>1. call' = call
    BY <1>4 DEF AppendCall
  <2>2. r.dropped = counters[p].dropped + Len(rows)
    BY <1>2, <1>4
  <2> HIDE DEF r
  <2>3. QED
    BY <1>1, <2>1, <2>2 DEF OthersStay
<1>5. QED
  BY <1>3, <1>4

\* What an attempt, a busy answer and a retry do to the call.
LEMMA AttemptMoves ==
  ASSUME TypeOK, NEW p \in Proc, NEW s \in Slot
  PROVE  /\ Begin(p, s) =>
              /\ OthersStay(p, s)
              /\ call'[p][s].pc = "inserting" /\ call'[p][s].pos = 1
              /\ call'[p][s].fresh = {} /\ call'[p][s].written = 0
              /\ call'[p][s].duplicates = 0
              /\ call'[p][s].rows = call[p][s].rows
         /\ Busy(p, s) =>
              /\ OthersStay(p, s)
              /\ call'[p][s].pc \in {"sleeping", "failed"}
              /\ call'[p][s].rows = call[p][s].rows
         /\ Retry(p, s) =>
              /\ OthersStay(p, s)
              /\ call'[p][s].pc = IF conn[p] = "open" THEN "attempt" ELSE "failed"
              /\ call'[p][s].rows = call[p][s].rows
<1> DEFINE c == call[p][s]
<1>0. c \in CallType
  BY CallFields
<1>1. ASSUME Begin(p, s)
      PROVE  /\ OthersStay(p, s)
             /\ call'[p][s].pc = "inserting" /\ call'[p][s].pos = 1
             /\ call'[p][s].fresh = {} /\ call'[p][s].written = 0
             /\ call'[p][s].duplicates = 0
             /\ call'[p][s].rows = call[p][s].rows
  <2> DEFINE k == [c EXCEPT !.pc = "inserting", !.pos = 1, !.fresh = {},
                            !.written = 0, !.duplicates = 0]
  <2>1. /\ k.pc = "inserting" /\ k.pos = 1 /\ k.fresh = {} /\ k.written = 0
        /\ k.duplicates = 0 /\ k.rows = c.rows
    BY <1>0 DEF CallType
  <2>2. SetCall(p, s, k)
    BY <1>1 DEF Begin
  <2> HIDE DEF k
  <2>3. QED
    BY <2>1, <2>2, Moved
<1>2. ASSUME Busy(p, s)
      PROVE  /\ OthersStay(p, s)
             /\ call'[p][s].pc \in {"sleeping", "failed"}
             /\ call'[p][s].rows = call[p][s].rows
  <2> DEFINE k1 == [c EXCEPT !.pc = "sleeping", !.tries = @ + 1]
             k2 == [c EXCEPT !.pc = "failed"]
  <2>1. k1.pc = "sleeping" /\ k2.pc = "failed" /\ k1.rows = c.rows /\ k2.rows = c.rows
    BY <1>0 DEF CallType
  <2>2. SetCall(p, s, k1) \/ SetCall(p, s, k2)
    BY <1>2 DEF Busy
  <2> HIDE DEF k1, k2
  <2>3. QED
    BY <2>1, <2>2, Moved
<1>3. ASSUME Retry(p, s)
      PROVE  /\ OthersStay(p, s)
             /\ call'[p][s].pc = IF conn[p] = "open" THEN "attempt" ELSE "failed"
             /\ call'[p][s].rows = call[p][s].rows
  BY <1>0, <1>3, Moved DEF Retry, CallType
<1>4. QED
  BY <1>1, <1>2, <1>3

\* What the end of a transaction and the answer do to the call.
LEMMA EndMoves ==
  ASSUME TypeOK, NEW p \in Proc, NEW s \in Slot
  PROVE  /\ Commit(p, s) =>
              /\ OthersStay(p, s)
              /\ call'[p][s].pc = "committed"
              /\ call'[p][s].rows = call[p][s].rows
              /\ call'[p][s].fresh = call[p][s].fresh
              /\ call'[p][s].written = call[p][s].written
              /\ call'[p][s].duplicates = call[p][s].duplicates
         /\ Rollback(p, s) =>
              /\ OthersStay(p, s)
              /\ call'[p][s].pc = "failed"
              /\ call'[p][s].rows = call[p][s].rows
         /\ Resume(p, s) \/ ResumeFailed(p, s) =>
              OthersStay(p, s) /\ call'[p][s] = Idle
<1>0. call[p][s] \in CallType
  BY CallFields
<1>1. Commit(p, s) =>
        /\ OthersStay(p, s)
        /\ call'[p][s].pc = "committed"
        /\ call'[p][s].rows = call[p][s].rows
        /\ call'[p][s].fresh = call[p][s].fresh
        /\ call'[p][s].written = call[p][s].written
        /\ call'[p][s].duplicates = call[p][s].duplicates
  BY <1>0, Moved DEF Commit, CallType
<1>2. Rollback(p, s) =>
        /\ OthersStay(p, s)
        /\ call'[p][s].pc = "failed"
        /\ call'[p][s].rows = call[p][s].rows
  BY <1>0, Moved DEF Rollback, CallType
<1>3. Resume(p, s) \/ ResumeFailed(p, s) =>
        OthersStay(p, s) /\ call'[p][s] = Idle
  BY Moved DEF Resume, ResumeFailed
<1>4. QED
  BY <1>1, <1>2, <1>3

\* An insert moves the call to its next row, and either finds the event there
\* or writes a row of it under an identifier the dictionary gives its string.
LEMMA InsertMoves ==
  ASSUME IInv, NEW p \in Proc, NEW s \in Slot, InsertRow(p, s)
  PROVE  /\ OthersStay(p, s)
         /\ call'[p][s].pc = "inserting"
         /\ call'[p][s].rows = call[p][s].rows
         /\ call'[p][s].pos = call[p][s].pos + 1
         /\ tx'.proc = tx.proc
         /\ tx'.dict \in Seq(Str) /\ Extends(tx'.dict, tx.dict)
         /\ Names(call'[p][s].fresh, tx'.dict)
         /\ \/ /\ tx'.events = tx.events
               /\ call'[p][s].written = call[p][s].written
               /\ call'[p][s].duplicates = call[p][s].duplicates + 1
            \/ \E row \in Row :
                 /\ tx'.events = Append(tx.events, row)
                 /\ ~Present(tx.events, row.event)
                 /\ row.sid \in 1..Len(tx'.dict) /\ tx'.dict[row.sid] = row.str
                 /\ call'[p][s].written = call[p][s].written + 1
                 /\ call'[p][s].duplicates = call[p][s].duplicates
<1>0. TypeOK
  BY DEF IInv
<1>1. PICK id, fresh, d :
        /\ Insert(p, s, id, fresh, d)
        /\ call[p][s].rows[call[p][s].pos] \in [event : Event, str : Str]
        /\ d \in Seq(Str) /\ Extends(d, tx.dict)
        /\ id \in 1..Len(d) /\ d[id] = call[p][s].rows[call[p][s].pos].str
        /\ fresh \subseteq Pair /\ Names(fresh, d)
  BY InsertEffect
<1> DEFINE c == call[p][s]
           o == c.rows[c.pos]
           dup == Present(tx.events, o.event)
           row == [event |-> o.event, sid |-> id, str |-> o.str]
           k == [c EXCEPT !.pos = @ + 1, !.fresh = fresh,
                          !.written = @ + IF dup THEN 0 ELSE 1,
                          !.duplicates = @ + IF dup THEN 1 ELSE 0]
<1>2. c \in CallType /\ c.pc = "inserting" /\ c.written \in Nat /\ c.duplicates \in Nat
  BY <1>0, CallFields DEF InsertRow
<1>3. call'[p][s] = k /\ OthersStay(p, s)
  <2>1. SetCall(p, s, k)
    BY <1>1 DEF Insert
  <2> HIDE DEF k
  <2>2. QED
    BY <1>0, <2>1, Moved
<1>4. /\ k.pc = "inserting" /\ k.rows = c.rows /\ k.pos = c.pos + 1 /\ k.fresh = fresh
      /\ k.written = c.written + IF dup THEN 0 ELSE 1
      /\ k.duplicates = c.duplicates + IF dup THEN 1 ELSE 0
  <2> HIDE DEF dup, c
  <2>1. QED
    BY <1>2 DEF CallType
<1>5. row \in Row /\ row.event = o.event /\ row.sid = id /\ row.str = o.str
  BY <1>1 DEF Row
<1>6. /\ tx'.proc = tx.proc /\ tx'.dict = d
      /\ tx'.events = IF dup THEN tx.events ELSE Append(tx.events, row)
  <2>1. tx' = [tx EXCEPT !.dict = d,
                         !.events = IF dup THEN @ ELSE Append(@, row)]
    BY <1>1 DEF Insert
  <2>2. tx \in [proc : Proc \cup {None}, events : Seq(Row), dict : Seq(Str)]
    BY <1>0 DEF TypeOK
  <2> HIDE DEF dup, row
  <2>3. QED
    BY <2>1, <2>2
<1>7. QED
  <2> HIDE DEF k, row
  <2>1. CASE dup
    <3>1. /\ tx'.events = tx.events
          /\ call'[p][s].written = c.written
          /\ call'[p][s].duplicates = c.duplicates + 1
      BY <1>2, <1>3, <1>4, <1>6, <2>1
    <3>2. QED
      BY <1>1, <1>3, <1>4, <1>6, <3>1
  <2>2. CASE ~dup
    <3>1. /\ tx'.events = Append(tx.events, row)
          /\ ~Present(tx.events, row.event)
          /\ row.sid \in 1..Len(tx'.dict) /\ tx'.dict[row.sid] = row.str
          /\ call'[p][s].written = c.written + 1
          /\ call'[p][s].duplicates = c.duplicates
      BY <1>1, <1>2, <1>3, <1>4, <1>5, <1>6, <2>2
    <3>2. QED
      BY <1>1, <1>3, <1>4, <1>5, <1>6, <3>1
  <2>3. QED
    BY <2>1, <2>2

-----------------------------------------------------------------------------
(***************************************************************************)
(* One step preserves each part of the invariant.                          *)
(***************************************************************************)

LEMMA NamesGrow ==
  ASSUME NEW pairs, NEW d, NEW e, Names(pairs, d), Extends(e, d),
         Len(d) \in Nat, Len(e) \in Nat
  PROVE  Names(pairs, e)
BY DEF Names, Extends

\* A call that takes its process's thread finds it free, or had it.
LEMMA ThreadMove ==
  ASSUME ThreadInv, NEW p \in Proc, NEW s \in Slot, OthersStay(p, s), conn' = conn,
         call'[p][s].pc \in OnThread =>
           conn[p] = "open" /\ \A r \in Slot : call[p][r].pc \in OnThread => r = s
  PROVE  ThreadInv'
BY DEF ThreadInv, OthersStay

\* Every step leaves a process one call on its thread.
LEMMA ThreadStep == IInv /\ [Next]_vars => ThreadInv'
<1> SUFFICES ASSUME IInv, [Next]_vars PROVE ThreadInv'
  OBVIOUS
<1>0. TypeOK /\ ThreadInv
  BY DEF IInv
<1>1. CASE UNCHANGED vars
  BY <1>0, <1>1 DEF ThreadInv, vars
<1>2. ASSUME NEW p \in Proc, Open(p) \/ OpenDisabled(p) \/ Close(p) PROVE ThreadInv'
  BY <1>0, <1>2 DEF ThreadInv, Open, OpenDisabled, Close, ThreadFree, TypeOK
<1>3. ASSUME NEW p \in Proc, Crash(p) PROVE ThreadInv'
  BY <1>0, <1>3 DEF ThreadInv, Crash, Idle, OnThread, TypeOK
<1>4. ASSUME NEW p \in Proc,
             \/ FireCheckpoint(p)
             \/ \E i \in 1..Len(events) : ReadRow(p, i)
             \/ \E pair \in cache[p] : Evict(p, pair)
      PROVE  ThreadInv'
  BY <1>0, <1>4 DEF ThreadInv, FireCheckpoint, ReadRow, Evict
<1>5. ASSUME NEW p \in Proc, NEW s \in Slot, NEW batch \in Batches,
             AppendCall(p, s, batch)
      PROVE  ThreadInv'
  <2>1. ThreadFree(p) /\ conn' = conn
    BY <1>5 DEF AppendCall
  <2>2. QED
    BY <1>0, <1>5, <2>1, AppendMoves, ThreadMove DEF ThreadFree
<1>6. ASSUME NEW p \in Proc, NEW s \in Slot, Begin(p, s) \/ InsertRow(p, s)
      PROVE  ThreadInv'
  <2>1. /\ call[p][s].pc \in OnThread /\ conn' = conn /\ OthersStay(p, s)
    BY <1>0, <1>6, AttemptMoves, InsertMoves DEF Begin, InsertRow, OnThread
  <2>2. conn[p] = "open" /\ \A r \in Slot : call[p][r].pc \in OnThread => r = s
    BY <1>0, <2>1 DEF ThreadInv
  <2>3. QED
    BY <1>0, <2>1, <2>2, ThreadMove
<1>7. ASSUME NEW p \in Proc, NEW s \in Slot, Retry(p, s) PROVE ThreadInv'
  <2>1. ThreadFree(p) /\ conn' = conn
    BY <1>7 DEF Retry
  <2>2. OthersStay(p, s) /\ (call'[p][s].pc \in OnThread => conn[p] = "open")
    BY <1>0, <1>7, AttemptMoves DEF OnThread
  <2>3. QED
    BY <1>0, <2>1, <2>2, ThreadMove DEF ThreadFree
<1>8. ASSUME NEW p \in Proc, NEW s \in Slot,
             \/ Busy(p, s) \/ Commit(p, s) \/ Rollback(p, s) \/ Resume(p, s)
             \/ ResumeFailed(p, s)
      PROVE  ThreadInv'
  <2>1. conn' = conn
    BY <1>8 DEF Busy, Commit, Rollback, Resume, ResumeFailed
  <2>2. OthersStay(p, s) /\ call'[p][s].pc \notin OnThread
    BY <1>0, <1>8, AttemptMoves, EndMoves DEF OnThread, Idle
  <2>3. QED
    BY <1>0, <2>1, <2>2, ThreadMove
<1>9. QED
  BY <1>1, <1>2, <1>3, <1>4, <1>5, <1>6, <1>7, <1>8 DEF Next, Handle, Step

\* The transaction has one owner, and the owner one call inside it.
LEMMA OneInserts ==
  ASSUME IInv, NEW p \in Proc, NEW s \in Slot, call[p][s].pc = "inserting",
         NEW q \in Proc, NEW r \in Slot, call[q][r].pc = "inserting"
  PROVE  q = p /\ r = s
BY DEF IInv, InsertingInv, ThreadInv, OnThread

\* The rows counted so far and the position move together.
LEMMA OneMore ==
  ASSUME NEW w \in Nat, NEW d \in Nat, NEW n \in Nat, NEW l \in Nat,
         w + d = n - 1, n \in 1..(l + 1), n <= l
  PROVE  /\ w + (d + 1) = n /\ (w + 1) + d = n
         /\ n = (n + 1) - 1 /\ n + 1 \in 1..(l + 1)
OBVIOUS

\* Every step keeps what is known of a call that inserts.
LEMMA InsertingStep == IInv /\ [Next]_vars => InsertingInv'
<1> SUFFICES ASSUME IInv, [Next]_vars,
                    NEW q \in Proc, NEW t \in Slot, call'[q][t].pc = "inserting"
             PROVE  /\ tx'.proc = q
                    /\ call'[q][t].pos \in 1..(Len(call'[q][t].rows) + 1)
                    /\ call'[q][t].written + call'[q][t].duplicates
                          = call'[q][t].pos - 1
                    /\ Len(tx'.events) = Len(events') + call'[q][t].written
                    /\ Names(call'[q][t].fresh, tx'.dict)
  BY DEF InsertingInv
<1> DEFINE Goal == /\ tx'.proc = q
                   /\ call'[q][t].pos \in 1..(Len(call'[q][t].rows) + 1)
                   /\ call'[q][t].written + call'[q][t].duplicates
                         = call'[q][t].pos - 1
                   /\ Len(tx'.events) = Len(events') + call'[q][t].written
                   /\ Names(call'[q][t].fresh, tx'.dict)
<1>0. TypeOK /\ InsertingInv
  BY DEF IInv
<1>1. ASSUME call'[q][t] = call[q][t], tx' = tx, events' = events PROVE Goal
  BY <1>0, <1>1 DEF InsertingInv
<1>2. CASE UNCHANGED vars
  BY <1>1, <1>2 DEF vars
<1>3. ASSUME NEW p \in Proc,
             \/ Open(p) \/ OpenDisabled(p) \/ Close(p) \/ FireCheckpoint(p)
             \/ \E i \in 1..Len(events) : ReadRow(p, i)
             \/ \E pair \in cache[p] : Evict(p, pair)
      PROVE  Goal
  BY <1>1, <1>3 DEF Open, OpenDisabled, Close, FireCheckpoint, ReadRow, Evict
<1>4. ASSUME NEW p \in Proc, Crash(p) PROVE Goal
  <2>1. q # p /\ call'[q][t] = call[q][t] /\ events' = events
    BY <1>0, <1>4 DEF Crash, Idle, TypeOK
  <2>2. tx.proc = q
    BY <1>0, <2>1 DEF InsertingInv
  <2>3. tx' = tx
    BY <1>4, <2>1, <2>2 DEF Crash
  <2>4. QED
    BY <1>1, <2>1, <2>3
<1>5. ASSUME NEW p \in Proc, NEW s \in Slot, NEW batch \in Batches,
             AppendCall(p, s, batch)
      PROVE  Goal
  <2>1. call'[q][t] = call[q][t]
    BY <1>0, <1>5, AppendMoves DEF OthersStay
  <2>2. QED
    BY <1>1, <1>5, <2>1 DEF AppendCall
<1>6. ASSUME NEW p \in Proc, NEW s \in Slot,
             Busy(p, s) \/ Retry(p, s) \/ Resume(p, s) \/ ResumeFailed(p, s)
      PROVE  Goal
  <2>1. call'[q][t] = call[q][t]
    BY <1>0, <1>6, AttemptMoves, EndMoves DEF OthersStay, Idle
  <2>2. QED
    BY <1>1, <1>6, <2>1 DEF Busy, Retry, Resume, ResumeFailed
<1>7. ASSUME NEW p \in Proc, NEW s \in Slot, Begin(p, s) PROVE Goal
  <2>1. /\ OthersStay(p, s) /\ tx.proc = None
        /\ tx' = [proc |-> p, events |-> events, dict |-> dict] /\ events' = events
    BY <1>0, <1>7, AttemptMoves, TxTypes DEF Begin
  <2>2. q = p /\ t = s
    BY <1>0, <2>1, JournalAssumption DEF OthersStay, InsertingInv
  <2>3. Len(call'[q][t].rows) \in Nat
    BY <1>0, <1>7, <2>2, AttemptMoves, CallFields
  <2>4. /\ call'[q][t].pos = 1 /\ call'[q][t].fresh = {}
        /\ call'[q][t].written = 0 /\ call'[q][t].duplicates = 0
    BY <1>0, <1>7, <2>2, AttemptMoves
  <2>5. Len(tx'.events) = Len(events') + 0
    BY <1>0, <2>1, TxTypes
  <2>6. QED
    BY <2>1, <2>2, <2>3, <2>4, <2>5 DEF Names
<1>8. ASSUME NEW p \in Proc, NEW s \in Slot, InsertRow(p, s) PROVE Goal
  <2>1. /\ call[p][s].pc = "inserting" /\ call[p][s].pos <= Len(call[p][s].rows)
        /\ events' = events
    BY <1>8 DEF InsertRow
  <2>2. q = p /\ t = s
    BY <1>8, <2>1, InsertMoves, OneInserts DEF OthersStay
  <2>3. /\ tx.proc = p /\ call[p][s].pos \in 1..(Len(call[p][s].rows) + 1)
        /\ call[p][s].written + call[p][s].duplicates = call[p][s].pos - 1
        /\ Len(tx.events) = Len(events) + call[p][s].written
    BY <1>0, <2>1 DEF InsertingInv
  <2>4. /\ call[p][s].written \in Nat /\ call[p][s].duplicates \in Nat
        /\ Len(call[p][s].rows) \in Nat /\ call[p][s].pos \in Nat
        /\ Len(events) \in Nat /\ tx.events \in Seq(Row) /\ Len(tx.events) \in Nat
    BY <1>0, CallFields, TxTypes
  <2>9. /\ call[p][s].written + (call[p][s].duplicates + 1) = call[p][s].pos
        /\ (call[p][s].written + 1) + call[p][s].duplicates = call[p][s].pos
        /\ call[p][s].pos = (call[p][s].pos + 1) - 1
        /\ call[p][s].pos + 1 \in 1..(Len(call[p][s].rows) + 1)
    <3>1. PICK w \in Nat : w = call[p][s].written
      BY <2>4
    <3>2. PICK d \in Nat : d = call[p][s].duplicates
      BY <2>4
    <3>3. PICK n \in Nat : n = call[p][s].pos
      BY <2>4
    <3>4. PICK l \in Nat : l = Len(call[p][s].rows)
      BY <2>4
    <3>5. w + d = n - 1 /\ n \in 1..(l + 1) /\ n <= l
      BY <2>1, <2>3, <3>1, <3>2, <3>3, <3>4, Zenon
    <3>6. w + (d + 1) = n /\ (w + 1) + d = n /\ n = (n + 1) - 1 /\ n + 1 \in 1..(l + 1)
      BY <3>5, OneMore
    <3>7. QED
      BY <3>1, <3>2, <3>3, <3>4, <3>6, Zenon
  <2>5. /\ call'[p][s].written + call'[p][s].duplicates = call[p][s].pos
        /\ Len(tx'.events) = Len(events) + call'[p][s].written
    <3>1. CASE /\ tx'.events = tx.events
               /\ call'[p][s].written = call[p][s].written
               /\ call'[p][s].duplicates = call[p][s].duplicates + 1
      <4>1. call'[p][s].written + call'[p][s].duplicates = call[p][s].pos
        BY <2>9, <3>1, Zenon
      <4>2. Len(tx'.events) = Len(events) + call'[p][s].written
        BY <2>3, <3>1
      <4>3. QED
        BY <4>1, <4>2
    <3>2. CASE /\ \E row \in Row : tx'.events = Append(tx.events, row)
               /\ call'[p][s].written = call[p][s].written + 1
               /\ call'[p][s].duplicates = call[p][s].duplicates
      <4>1. Len(tx'.events) = Len(tx.events) + 1
        BY <2>4, <3>2
      <4>2. call'[p][s].written + call'[p][s].duplicates = call[p][s].pos
        BY <2>9, <3>2, Zenon
      <4>3. Len(tx'.events) = Len(events) + call'[p][s].written
        BY <2>3, <2>4, <3>2, <4>1
      <4>4. QED
        BY <4>2, <4>3
    <3>3. QED
      BY <1>8, InsertMoves, <3>1, <3>2
  <2>6. /\ call'[p][s].pos = call[p][s].pos + 1
        /\ call'[p][s].rows = call[p][s].rows
        /\ tx'.proc = tx.proc /\ Names(call'[p][s].fresh, tx'.dict)
    BY <1>8, InsertMoves
  <2>7. /\ call'[p][s].pos \in 1..(Len(call'[p][s].rows) + 1)
        /\ call'[p][s].written + call'[p][s].duplicates = call'[p][s].pos - 1
    <3>1. call'[p][s].pos \in 1..(Len(call'[p][s].rows) + 1)
      BY <2>6, <2>9, Zenon
    <3>2. call'[p][s].written + call'[p][s].duplicates = call'[p][s].pos - 1
      BY <2>5, <2>6, <2>9, Zenon
    <3>3. QED
      BY <3>1, <3>2
  <2>8. QED
    BY <2>1, <2>2, <2>3, <2>5, <2>6, <2>7
<1>9. ASSUME NEW p \in Proc, NEW s \in Slot, Commit(p, s) \/ Rollback(p, s) PROVE Goal
  <2>1. call[p][s].pc = "inserting" /\ call'[p][s].pc # "inserting" /\ OthersStay(p, s)
    BY <1>0, <1>9, EndMoves DEF Commit, Rollback
  <2>2. QED
    BY <2>1, OneInserts DEF OthersStay
<1>10. QED
  BY <1>2, <1>3, <1>4, <1>5, <1>6, <1>7, <1>8, <1>9 DEF Next, Handle, Step

\* Every step keeps what is known of a call that committed.
LEMMA CommittedStep == IInv /\ [Next]_vars => CommittedInv'
<1> SUFFICES ASSUME IInv, [Next]_vars,
                    NEW q \in Proc, NEW t \in Slot, call'[q][t].pc = "committed"
             PROVE  /\ call'[q][t].written + call'[q][t].duplicates
                         = Len(call'[q][t].rows)
                    /\ Names(call'[q][t].fresh, dict')
  BY DEF CommittedInv
<1> DEFINE Goal == /\ call'[q][t].written + call'[q][t].duplicates
                        = Len(call'[q][t].rows)
                   /\ Names(call'[q][t].fresh, dict')
<1>0. TypeOK /\ CommittedInv
  BY DEF IInv
<1>1. ASSUME call'[q][t] = call[q][t], dict' = dict PROVE Goal
  BY <1>0, <1>1 DEF CommittedInv
<1>2. CASE UNCHANGED vars
  BY <1>1, <1>2 DEF vars
<1>3. ASSUME NEW p \in Proc,
             \/ Open(p) \/ OpenDisabled(p) \/ Close(p) \/ FireCheckpoint(p)
             \/ \E i \in 1..Len(events) : ReadRow(p, i)
             \/ \E pair \in cache[p] : Evict(p, pair)
      PROVE  Goal
  BY <1>1, <1>3 DEF Open, OpenDisabled, Close, FireCheckpoint, ReadRow, Evict
<1>4. ASSUME NEW p \in Proc, Crash(p) PROVE Goal
  BY <1>0, <1>1, <1>4 DEF Crash, Idle, TypeOK
<1>5. ASSUME NEW p \in Proc, NEW s \in Slot, NEW batch \in Batches,
             AppendCall(p, s, batch)
      PROVE  Goal
  <2>1. call'[q][t] = call[q][t]
    BY <1>0, <1>5, AppendMoves DEF OthersStay
  <2>2. QED
    BY <1>1, <1>5, <2>1 DEF AppendCall
<1>6. ASSUME NEW p \in Proc, NEW s \in Slot,
             \/ Begin(p, s) \/ Busy(p, s) \/ Retry(p, s) \/ Rollback(p, s)
             \/ Resume(p, s) \/ ResumeFailed(p, s)
      PROVE  Goal
  <2>1. call'[q][t] = call[q][t]
    BY <1>0, <1>6, AttemptMoves, EndMoves DEF OthersStay, Idle
  <2>2. QED
    BY <1>1, <1>6, <2>1 DEF Begin, Busy, Retry, Rollback, Resume, ResumeFailed
<1>7. ASSUME NEW p \in Proc, NEW s \in Slot, InsertRow(p, s) PROVE Goal
  <2>1. call'[q][t] = call[q][t]
    BY <1>7, InsertMoves DEF OthersStay
  <2>2. QED
    BY <1>1, <1>7, <2>1 DEF InsertRow
<1>8. ASSUME NEW p \in Proc, NEW s \in Slot, Commit(p, s) PROVE Goal
  <2>1. /\ call[p][s].pc = "inserting" /\ call[p][s].pos > Len(call[p][s].rows)
        /\ dict' = tx.dict
    BY <1>8 DEF Commit
  <2>2. /\ tx.proc # None /\ call[p][s].pos \in 1..(Len(call[p][s].rows) + 1)
        /\ call[p][s].written + call[p][s].duplicates = call[p][s].pos - 1
        /\ Names(call[p][s].fresh, tx.dict)
    BY <2>1, JournalAssumption DEF IInv, InsertingInv
  <2>3. Extends(tx.dict, dict) /\ Len(dict) \in Nat /\ Len(tx.dict) \in Nat
    BY <1>0, <2>2, TxTypes DEF IInv, TxInv
  <2>4. CASE q = p /\ t = s
    <3>1. Len(call[p][s].rows) \in Nat
      BY <1>0, CallFields
    <3>2. call[p][s].written + call[p][s].duplicates = Len(call[p][s].rows)
      BY <2>1, <2>2, <3>1
    <3>3. QED
      BY <1>0, <1>8, <2>1, <2>2, <2>4, <3>2, EndMoves
  <2>5. CASE q # p \/ t # s
    <3>1. call'[q][t] = call[q][t]
      BY <1>0, <1>8, <2>5, EndMoves DEF OthersStay
    <3>2. Names(call[q][t].fresh, dict)
      BY <1>0, <3>1 DEF CommittedInv
    <3>3. QED
      BY <1>0, <2>1, <2>3, <3>1, <3>2, NamesGrow DEF CommittedInv
  <2>6. QED
    BY <2>4, <2>5
<1>9. QED
  BY <1>2, <1>3, <1>4, <1>5, <1>6, <1>7, <1>8 DEF Next, Handle, Step

\* Every step keeps the bounds on what a call carries.
LEMMA BatchStep == IInv /\ [Next]_vars => BatchInv'
<1> SUFFICES ASSUME IInv, [Next]_vars, NEW q \in Proc, NEW t \in Slot
             PROVE  Len(call'[q][t].rows) <= MaxBatch
  BY DEF BatchInv
<1>0. TypeOK /\ BatchInv
  BY DEF IInv
<1>1. Len(Idle.rows) <= MaxBatch
  BY JournalAssumption DEF Idle
<1>2. CASE call'[q][t] = call[q][t] \/ call'[q][t].rows = call[q][t].rows
           \/ call'[q][t] = Idle
  BY <1>0, <1>1, <1>2 DEF BatchInv
<1>3. CASE UNCHANGED vars
  BY <1>2, <1>3 DEF vars
<1>4. ASSUME NEW p \in Proc,
             \/ Open(p) \/ OpenDisabled(p) \/ Close(p) \/ FireCheckpoint(p)
             \/ \E i \in 1..Len(events) : ReadRow(p, i)
             \/ \E pair \in cache[p] : Evict(p, pair)
      PROVE  call'[q][t] = call[q][t]
  BY <1>4 DEF Open, OpenDisabled, Close, FireCheckpoint, ReadRow, Evict
<1>5. ASSUME NEW p \in Proc, Crash(p)
      PROVE  call'[q][t] = call[q][t] \/ call'[q][t] = Idle
  BY <1>0, <1>5 DEF Crash, TypeOK
<1>6. ASSUME NEW p \in Proc, NEW s \in Slot, NEW batch \in Batches,
             AppendCall(p, s, batch)
      PROVE  Len(call'[q][t].rows) <= MaxBatch
  <2>1. Len(Accepted(batch)) <= MaxBatch
    BY AcceptedRows, JournalAssumption
  <2>2. call'[q][t] = call[q][t] \/ call'[q][t].rows = Accepted(batch)
    BY <1>0, <1>6, AppendMoves DEF OthersStay
  <2>3. QED
    BY <1>2, <2>1, <2>2
<1>7. ASSUME NEW p \in Proc, NEW s \in Slot,
             \/ Begin(p, s) \/ Busy(p, s) \/ Retry(p, s) \/ Commit(p, s)
             \/ Rollback(p, s) \/ Resume(p, s) \/ ResumeFailed(p, s)
      PROVE  \/ call'[q][t] = call[q][t] \/ call'[q][t].rows = call[q][t].rows
             \/ call'[q][t] = Idle
  BY <1>0, <1>7, AttemptMoves, EndMoves DEF OthersStay
<1>8. ASSUME NEW p \in Proc, NEW s \in Slot, InsertRow(p, s)
      PROVE  call'[q][t] = call[q][t] \/ call'[q][t].rows = call[q][t].rows
  BY <1>8, InsertMoves DEF OthersStay
<1>9. QED
  BY <1>2, <1>3, <1>4, <1>5, <1>6, <1>7, <1>8 DEF Next, Handle, Step

\* INSERT OR IGNORE: a row goes in behind the others, under an event id that
\* is not there yet, with an id that stands for its string.
LEMMA RowsGrow ==
  ASSUME NEW rows \in Seq(Row), NEW row \in Row, NEW d \in Seq(Str), NEW e \in Seq(Str),
         RowsNamed(rows, d), Extends(e, d), Distinct(rows),
         ~Present(rows, row.event), row.sid \in 1..Len(e), e[row.sid] = row.str
  PROVE  /\ RowsNamed(Append(rows, row), e) /\ Distinct(Append(rows, row))
         /\ Extends(Append(rows, row), rows)
<1> DEFINE more == Append(rows, row)
<1>1. /\ Len(rows) \in Nat /\ Len(more) = Len(rows) + 1 /\ more[Len(rows) + 1] = row
      /\ \A i \in 1..Len(rows) : more[i] = rows[i]
      /\ Len(d) \in Nat /\ Len(e) \in Nat
  OBVIOUS
<1> HIDE DEF more
<1>2. RowsNamed(more, e)
  <2> SUFFICES ASSUME NEW i \in 1..Len(more)
               PROVE  more[i].sid \in 1..Len(e) /\ e[more[i].sid] = more[i].str
    BY DEF RowsNamed
  <2>1. CASE i = Len(rows) + 1
    BY <1>1, <2>1
  <2>2. CASE i # Len(rows) + 1
    <3>1. i \in 1..Len(rows) /\ more[i] = rows[i]
      BY <1>1, <2>2
    <3>2. rows[i].sid \in 1..Len(d) /\ d[rows[i].sid] = rows[i].str
      BY <3>1 DEF RowsNamed
    <3>3. QED
      BY <1>1, <3>1, <3>2 DEF Extends
  <2>3. QED
    BY <2>1, <2>2
<1>3. Distinct(more)
  <2> SUFFICES ASSUME NEW i \in 1..Len(more), NEW j \in 1..Len(more),
                      more[i].event = more[j].event, i # j
               PROVE  FALSE
    BY DEF Distinct
  <2>1. CASE i = Len(rows) + 1
    <3>1. j \in 1..Len(rows) /\ rows[j].event = row.event
      BY <1>1, <2>1
    <3>2. QED
      BY <3>1 DEF Present
  <2>2. CASE j = Len(rows) + 1
    <3>1. i \in 1..Len(rows) /\ rows[i].event = row.event
      BY <1>1, <2>2
    <3>2. QED
      BY <3>1 DEF Present
  <2>3. CASE i # Len(rows) + 1 /\ j # Len(rows) + 1
    <3>1. i \in 1..Len(rows) /\ j \in 1..Len(rows)
      BY <1>1, <2>3
    <3>2. QED
      BY <1>1, <3>1 DEF Distinct
  <2>4. QED
    BY <2>1, <2>2, <2>3
<1>4. Extends(more, rows)
  BY <1>1 DEF Extends
<1>5. QED
  BY <1>2, <1>3, <1>4 DEF more

\* Rows a dictionary names, a longer one names too.
LEMMA NamedGrow ==
  ASSUME NEW rows, NEW d \in Seq(Str), NEW e \in Seq(Str),
         RowsNamed(rows, d), Extends(e, d)
  PROVE  RowsNamed(rows, e)
<1> SUFFICES ASSUME NEW i \in 1..Len(rows)
             PROVE  rows[i].sid \in 1..Len(e) /\ e[rows[i].sid] = rows[i].str
  BY DEF RowsNamed
<1>1. rows[i].sid \in 1..Len(d) /\ d[rows[i].sid] = rows[i].str
  BY DEF RowsNamed
<1>2. Len(d) \in Nat /\ Len(e) \in Nat
  OBVIOUS
<1>3. QED
  BY <1>1, <1>2 DEF Extends

\* What extends an extension extends the sequence.
LEMMA ExtendsMore ==
  ASSUME NEW S, NEW T, NEW r \in Seq(S), NEW s \in Seq(S), NEW t \in Seq(S),
         Extends(s, r), Extends(t, s)
  PROVE  Extends(t, r)
BY DEF Extends

\* Every step keeps what is known of the open transaction.
LEMMA TxStep == IInv /\ [Next]_vars => TxInv'
<1> SUFFICES ASSUME IInv, [Next]_vars, tx'.proc # None
             PROVE  /\ Extends(tx'.events, events') /\ Extends(tx'.dict, dict')
                    /\ RowsNamed(tx'.events, tx'.dict) /\ Distinct(tx'.events)
  BY DEF TxInv
<1> DEFINE Goal == /\ Extends(tx'.events, events') /\ Extends(tx'.dict, dict')
                   /\ RowsNamed(tx'.events, tx'.dict) /\ Distinct(tx'.events)
<1>0. TypeOK /\ TxInv /\ NoTx.proc = None
  BY TxTypes DEF IInv
<1>1. ASSUME tx' = tx, events' = events, dict' = dict PROVE Goal
  BY <1>0, <1>1 DEF TxInv
<1>2. CASE UNCHANGED vars
  BY <1>1, <1>2 DEF vars
<1>3. ASSUME NEW p \in Proc,
             \/ Open(p) \/ OpenDisabled(p) \/ Close(p) \/ FireCheckpoint(p)
             \/ \E i \in 1..Len(events) : ReadRow(p, i)
             \/ \E pair \in cache[p] : Evict(p, pair)
             \/ Crash(p)
      PROVE  Goal
  BY <1>0, <1>1, <1>3 DEF Open, OpenDisabled, Close, FireCheckpoint, ReadRow, Evict, Crash
<1>4. ASSUME NEW p \in Proc, NEW s \in Slot, NEW batch \in Batches,
             AppendCall(p, s, batch)
      PROVE  Goal
  BY <1>1, <1>4 DEF AppendCall
<1>5. ASSUME NEW p \in Proc, NEW s \in Slot,
             \/ Busy(p, s) \/ Retry(p, s) \/ Resume(p, s) \/ ResumeFailed(p, s)
             \/ Commit(p, s) \/ Rollback(p, s)
      PROVE  Goal
  BY <1>0, <1>1, <1>5 DEF Busy, Retry, Resume, ResumeFailed, Commit, Rollback
<1>6. ASSUME NEW p \in Proc, NEW s \in Slot, Begin(p, s) PROVE Goal
  <2>1. tx'.events = events /\ tx'.dict = dict /\ events' = events /\ dict' = dict
    BY <1>6 DEF Begin
  <2>2. RowsNamed(events, dict) /\ Distinct(events)
    BY DEF IInv, TableInv
  <2>3. QED
    BY <1>0, <2>1, <2>2, TxTypes DEF Extends
<1>7. ASSUME NEW p \in Proc, NEW s \in Slot, InsertRow(p, s) PROVE Goal
  <2>1. tx.proc # None /\ events' = events /\ dict' = dict
    BY <1>7, JournalAssumption DEF InsertRow, IInv, InsertingInv
  <2>2. /\ Extends(tx.events, events) /\ Extends(tx.dict, dict)
        /\ RowsNamed(tx.events, tx.dict) /\ Distinct(tx.events)
    BY <1>0, <2>1 DEF TxInv
  <2>3. /\ events \in Seq(Row) /\ dict \in Seq(Str)
        /\ tx.events \in Seq(Row) /\ tx.dict \in Seq(Str) /\ tx'.dict \in Seq(Str)
    BY <1>0, <1>7, TxTypes, InsertMoves
  <2>4. Extends(tx'.dict, tx.dict)
    BY <1>7, InsertMoves
  <2>5. Extends(tx'.dict, dict')
    BY <2>1, <2>2, <2>3, <2>4, ExtendsMore
  <2>6. CASE tx'.events = tx.events
    <3>1. RowsNamed(tx.events, tx'.dict)
      BY <2>2, <2>3, <2>4, NamedGrow
    <3>2. QED
      BY <2>1, <2>2, <2>5, <2>6, <3>1
  <2>7. CASE \E row \in Row :
               /\ tx'.events = Append(tx.events, row)
               /\ ~Present(tx.events, row.event)
               /\ row.sid \in 1..Len(tx'.dict) /\ tx'.dict[row.sid] = row.str
    <3>1. PICK row \in Row :
               /\ tx'.events = Append(tx.events, row)
               /\ ~Present(tx.events, row.event)
               /\ row.sid \in 1..Len(tx'.dict) /\ tx'.dict[row.sid] = row.str
      BY <2>7
    <3>2. /\ RowsNamed(tx'.events, tx'.dict) /\ Distinct(tx'.events)
          /\ Extends(tx'.events, tx.events)
      BY <2>2, <2>3, <2>4, <3>1, RowsGrow
    <3>3. tx'.events \in Seq(Row)
      BY <2>3, <3>1
    <3>4. Extends(tx'.events, events)
      BY <2>2, <2>3, <3>2, <3>3, ExtendsMore
    <3>5. QED
      BY <2>1, <2>5, <3>2, <3>4
  <2>8. QED
    BY <1>7, <2>6, <2>7, InsertMoves
<1>8. QED
  BY <1>2, <1>3, <1>4, <1>5, <1>6, <1>7 DEF Next, Handle, Step

\* Whoever commits owns the transaction.
LEMMA CommitOwns ==
  ASSUME IInv, NEW p \in Proc, NEW s \in Slot, Commit(p, s)
  PROVE  /\ tx.proc # None /\ events' = tx.events /\ dict' = tx.dict
         /\ Extends(tx.events, events) /\ Extends(tx.dict, dict)
         /\ RowsNamed(tx.events, tx.dict) /\ Distinct(tx.events)
<1>1. tx.proc = p /\ events' = tx.events /\ dict' = tx.dict
  BY DEF Commit, IInv, InsertingInv
<1>2. QED
  BY <1>1, JournalAssumption DEF IInv, TxInv

\* Only a commit changes the tables.
LEMMA TablesStay ==
  ASSUME [Next]_vars, ~ \E p \in Proc : \E s \in Slot : Commit(p, s)
  PROVE  events' = events /\ dict' = dict
<1>1. CASE UNCHANGED vars
  BY <1>1 DEF vars
<1>2. ASSUME NEW p \in Proc, Handle(p) PROVE events' = events /\ dict' = dict
  BY <1>2 DEF Handle, Open, OpenDisabled, Close, FireCheckpoint, ReadRow, Evict, Crash
<1>3. ASSUME NEW p \in Proc, NEW s \in Slot, NEW batch \in Batches,
             AppendCall(p, s, batch)
      PROVE  events' = events /\ dict' = dict
  BY <1>3 DEF AppendCall
<1>4. ASSUME NEW p \in Proc, NEW s \in Slot, Step(p, s), ~Commit(p, s)
      PROVE  events' = events /\ dict' = dict
  BY <1>4 DEF Step, Begin, Busy, Retry, InsertRow, Rollback, Resume, ResumeFailed
<1>5. QED
  BY <1>1, <1>2, <1>3, <1>4 DEF Next

\* Every step keeps the tables: distinct rows, each under the name of its string.
LEMMA TableStep == IInv /\ [Next]_vars => TableInv'
<1> SUFFICES ASSUME IInv, [Next]_vars PROVE TableInv'
  OBVIOUS
<1>1. ASSUME NEW p \in Proc, NEW s \in Slot, Commit(p, s) PROVE TableInv'
  BY <1>1, CommitOwns DEF TableInv
<1>2. CASE ~ \E p \in Proc : \E s \in Slot : Commit(p, s)
  <2>1. events' = events /\ dict' = dict
    BY <1>2, TablesStay
  <2>2. QED
    BY <2>1 DEF IInv, TableInv
<1>3. QED
  BY <1>1, <1>2

\* Every step keeps the caches of strings behind the dictionary.
LEMMA CacheStep == IInv /\ [Next]_vars => CacheInv'
<1> SUFFICES ASSUME IInv, [Next]_vars, NEW q \in Proc PROVE Names(cache'[q], dict')
  BY DEF CacheInv
<1>0. TypeOK /\ Names(cache[q], dict)
  BY DEF IInv, CacheInv
<1>1. ASSUME NEW p \in Proc, NEW s \in Slot, Commit(p, s) PROVE Names(cache'[q], dict')
  <2>1. cache' = cache /\ dict' = tx.dict /\ Extends(tx.dict, dict)
    BY <1>1, CommitOwns DEF Commit
  <2>2. QED
    BY <1>0, <2>1, NamesGrow, TxTypes
<1>2. ASSUME dict' = dict, cache'[q] \subseteq cache[q] PROVE Names(cache'[q], dict')
  BY <1>0, <1>2 DEF Names
<1>3. CASE UNCHANGED vars
  BY <1>2, <1>3 DEF vars
<1>4. ASSUME NEW p \in Proc, Open(p) \/ OpenDisabled(p) \/ Close(p) \/ FireCheckpoint(p)
      PROVE  Names(cache'[q], dict')
  BY <1>2, <1>4 DEF Open, OpenDisabled, Close, FireCheckpoint
<1>5. ASSUME NEW p \in Proc, Crash(p) PROVE Names(cache'[q], dict')
  BY <1>0, <1>2, <1>5 DEF Crash, TypeOK
<1>6. ASSUME NEW p \in Proc, NEW pair \in cache[p], Evict(p, pair)
      PROVE  Names(cache'[q], dict')
  BY <1>0, <1>2, <1>6 DEF Evict, TypeOK
<1>7. ASSUME NEW p \in Proc, NEW i \in 1..Len(events), ReadRow(p, i)
      PROVE  Names(cache'[q], dict')
  <2> DEFINE id == events[i].sid
             found == {<<x, id>> : x \in Decode(p, id)}
  <2>1. dict' = dict /\ cache'[q] \subseteq cache[q] \cup found
    BY <1>0, <1>7 DEF ReadRow, TypeOK
  <2>2. id \in 1..Len(dict)
    BY DEF IInv, TableInv, RowsNamed
  <2>3. \A x \in Decode(p, id) : dict[id] = x
    BY <2>2 DEF Decode, Cached, IInv, CacheInv, Names
  <2>4. Names(found, dict)
    BY <2>2, <2>3 DEF Names
  <2> HIDE DEF found
  <2>5. QED
    BY <1>0, <2>1, <2>4 DEF Names
<1>8. ASSUME NEW p \in Proc, NEW s \in Slot, NEW batch \in Batches,
             AppendCall(p, s, batch)
      PROVE  Names(cache'[q], dict')
  BY <1>2, <1>8 DEF AppendCall
<1>9. ASSUME NEW p \in Proc, NEW s \in Slot,
             \/ Begin(p, s) \/ Busy(p, s) \/ Retry(p, s) \/ InsertRow(p, s)
             \/ Rollback(p, s) \/ ResumeFailed(p, s)
      PROVE  Names(cache'[q], dict')
  BY <1>2, <1>9 DEF Begin, Busy, Retry, InsertRow, Rollback, ResumeFailed
<1>10. ASSUME NEW p \in Proc, NEW s \in Slot, Resume(p, s) PROVE Names(cache'[q], dict')
  <2>1. Names(call[p][s].fresh, dict)
    BY <1>10 DEF Resume, IInv, CommittedInv
  <2>2. dict' = dict /\ cache'[q] \subseteq cache[q] \cup call[p][s].fresh
    BY <1>0, <1>10 DEF Resume, TypeOK
  <2>3. QED
    BY <1>0, <2>1, <2>2 DEF Names
<1>11. QED
  BY <1>1, <1>3, <1>4, <1>5, <1>6, <1>7, <1>8, <1>9, <1>10 DEF Next, Handle, Step

\* The invariant holds at the start.
LEMMA InvInit == Init => IInv
<1> SUFFICES ASSUME Init PROVE IInv
  OBVIOUS
<1> USE JournalAssumption DEF Init
<1>1. TypeOK
  <2>1. NoTx \in [proc : Proc \cup {None}, events : Seq(Row), dict : Seq(Str)]
    BY DEF NoTx
  <2>2. Zero \in CountersType
    BY DEF Zero, CountersType
  <2> HIDE DEF Init
  <2>3. events \in Seq(Row) /\ dict \in Seq(Str)
    BY DEF Init
  <2>7. wal \in BOOLEAN
    BY Zenon DEF Init
  <2>4. /\ conn \in [Proc -> {"none", "open", "closed", "disabled"}]
        /\ recovery \in [Proc -> BOOLEAN] /\ cache \in [Proc -> SUBSET Pair]
        /\ counters \in [Proc -> CountersType]
        /\ armed \in [Proc -> BOOLEAN] /\ due \in [Proc -> BOOLEAN]
    BY <2>2 DEF Init
  <2>5. call \in [Proc -> [Slot -> CallType]] /\ offers \in Nat /\ crashes \in Nat
    BY IdleType DEF Init
  <2>6. QED
    BY <2>1, <2>3, <2>4, <2>5, <2>7 DEF Init, TypeOK
<1>2. ThreadInv /\ InsertingInv /\ CommittedInv
  BY DEF ThreadInv, InsertingInv, CommittedInv, Idle, OnThread
<1>3. BatchInv
  BY DEF BatchInv, Idle
<1>4. TxInv
  BY DEF TxInv, NoTx
<1>5. TableInv /\ CacheInv
  BY DEF TableInv, CacheInv, RowsNamed, Distinct, Names
<1>6. QED
  BY <1>1, <1>2, <1>3, <1>4, <1>5 DEF IInv

\* Every step keeps the invariant.
LEMMA InvStep == IInv /\ [Next]_vars => IInv'
BY TypeStep, ThreadStep, InsertingStep, CommittedStep, BatchStep, TxStep, TableStep,
   CacheStep DEF IInv

\* The invariant always holds.
LEMMA InvHolds == Spec => []IInv
BY InvInit, InvStep, PTL DEF Spec

\* The journal's variables keep their types.
THEOREM JournalTypes == Spec => []TypeOK
BY InvHolds, PTL DEF IInv

\* string-cache.ts and intern() in journal.ts: whatever is rolled back, killed,
\* evicted or read in between, every reader of every process gets back the
\* string the writer offered.
THEOREM ReadersGetWhatWasWritten == Spec => []ReadsWhatWasWritten
<1>1. IInv => ReadsWhatWasWritten
  <2> SUFFICES ASSUME IInv, NEW p \in Proc, NEW i \in 1..Len(events)
               PROVE  Decode(p, events[i].sid) = {events[i].str}
    BY DEF ReadsWhatWasWritten
  <2> DEFINE id == events[i].sid
  <2>1. id \in 1..Len(dict) /\ dict[id] = events[i].str
    BY DEF IInv, TableInv, RowsNamed
  <2>2. \A pair \in Cached(p, id) : pair[1] = dict[id]
    BY DEF Cached, IInv, CacheInv, Names
  <2>3. QED
    BY <2>1, <2>2 DEF Decode
<1>2. QED
  BY <1>1, InvHolds, PTL

-----------------------------------------------------------------------------
(***************************************************************************)
(* The journal implements JournalLog.                                      *)
(***************************************************************************)

LEMMA RowFields ==
  ASSUME NEW rows \in Seq(Row)
  PROVE  \A i \in 1..Len(rows) : rows[i].event \in Event
<1>1. \A i \in 1..Len(rows) : rows[i] \in Row
  OBVIOUS
<1>2. QED
  BY <1>1 DEF Row

\* Two sequences with the same elements are the same.
LEMMA SameRows ==
  ASSUME NEW S, NEW f \in Seq(S), NEW g \in Seq(S),
         Len(f) = Len(g), \A i \in 1..Len(f) : f[i] = g[i]
  PROVE  f = g
<1>1. f = [i \in 1..Len(f) |-> f[i]] /\ g = [i \in 1..Len(g) |-> g[i]]
  OBVIOUS
<1>2. QED
  BY <1>1

\* A commit that changes the table appends to it what the log allows.
LEMMA CommitAppends ==
  ASSUME IInv, NEW p \in Proc, NEW s \in Slot, Commit(p, s), events' # events
  PROVE  Log!Next
<1> DEFINE old == [i \in 1..Len(events) |-> events[i].event]
           new == [i \in 1..Len(events') |-> events'[i].event]
<1>1. /\ events' = tx.events /\ Extends(events', events) /\ Distinct(events')
  BY CommitOwns
<1>2. /\ events \in Seq(Row) /\ events' \in Seq(Row)
      /\ call[p][s].written \in Nat /\ call[p][s].duplicates \in Nat
      /\ Len(call[p][s].rows) \in Nat /\ call[p][s].pos \in Nat
  BY <1>1, TxTypes, CallFields DEF IInv
<1>3. PICK m \in Nat : m = Len(events)
  BY <1>2
<1>4. PICK k \in Nat : k = Len(events')
  BY <1>2
<1>5. m <= k /\ \A i \in 1..m : events'[i] = events[i]
  BY <1>1, <1>3, <1>4 DEF Extends
<1>6. m # k
  BY <1>2, <1>3, <1>4, <1>5
<1>7. k - m <= MaxBatch
  <2>1. PICK w \in Nat : w = call[p][s].written
    BY <1>2
  <2>2. PICK d \in Nat : d = call[p][s].duplicates
    BY <1>2
  <2>3. PICK n \in Nat : n = call[p][s].pos
    BY <1>2
  <2>4. PICK l \in Nat : l = Len(call[p][s].rows)
    BY <1>2
  <2>5. /\ n \in 1..(l + 1) /\ w + d = n - 1 /\ k = m + w
    BY <1>1, <1>3, <1>4, <2>1, <2>2, <2>3, <2>4, Zenon DEF Commit, IInv, InsertingInv
  <2>6. l <= MaxBatch
    BY <2>4 DEF IInv, BatchInv
  <2>7. QED
    BY <2>5, <2>6, JournalAssumption
<1> DEFINE n == k - m
           batch == [j \in 1..n |-> events'[m + j].event]
<1>8. n \in 1..MaxBatch
  BY <1>5, <1>6, <1>7, JournalAssumption
<1>9. \A i \in 1..k : events'[i].event \in Event
  BY <1>2, <1>4, RowFields
<1>10. \A j \in 1..n : m + j \in 1..k
  BY <1>5
<1>11. batch \in [1..n -> Event]
  BY <1>9, <1>10
<1>12. Log!NoRepeats(batch)
  <2> SUFFICES ASSUME NEW i \in 1..Len(batch), NEW j \in 1..Len(batch), batch[i] = batch[j]
               PROVE  i = j
    BY DEF Log!NoRepeats
  <2>1. i \in 1..n /\ j \in 1..n
    BY <1>8
  <2>2. m + i = m + j
    BY <1>1, <1>4, <1>10, <2>1 DEF Distinct
  <2>3. QED
    BY <2>1, <2>2
<1>13. \A j \in 1..Len(batch) : ~Log!Logged(batch[j])
  <2> SUFFICES ASSUME NEW j \in 1..Len(batch), NEW i \in 1..Len(old), old[i] = batch[j]
               PROVE  FALSE
    BY DEF Log!Logged
  <2>1. j \in 1..n /\ i \in 1..m
    BY <1>3, <1>8
  <2>2. i \in 1..k /\ m + j \in 1..k /\ events'[i].event = events'[m + j].event
    BY <1>3, <1>5, <1>10, <2>1
  <2>3. i = m + j
    BY <1>1, <1>4, <2>2 DEF Distinct
  <2>4. QED
    BY <2>1, <2>3
<1>14. new = old \o batch
  <2>1. Len(old) = m /\ Len(batch) = n /\ m + n = k
    BY <1>3, <1>8
  <2>2. old \in [1..m -> Event]
    BY <1>2, <1>3, RowFields
  <2>3. old \in Seq(Event) /\ batch \in Seq(Event) /\ new \in Seq(Event)
    <3>1. n \in Nat
      BY <1>8, JournalAssumption
    <3>2. new \in [1..k -> Event]
      BY <1>4, <1>9
    <3>3. QED
      BY <1>11, <2>2, <3>1, <3>2
  <2>4. Len(new) = k
    BY <1>4
  <2>5. ASSUME NEW i \in 1..k
        PROVE  new[i] = IF i <= m THEN old[i] ELSE batch[i - m]
    <3>1. CASE i <= m
      BY <1>3, <1>4, <1>5, <3>1
    <3>2. CASE ~(i <= m)
      <4>1. i - m \in 1..n /\ m + (i - m) = i
        BY <3>2
      <4>2. QED
        BY <1>4, <3>2, <4>1
    <3>3. QED
      BY <3>1, <3>2
  <2> HIDE DEF old, new, batch
  <2>6. PICK h \in Seq(Event) : h = old \o batch
    <3>1. PICK f \in Seq(Event) : f = old
      BY <2>3
    <3>2. PICK g \in Seq(Event) : g = batch
      BY <2>3
    <3>3. f \o g \in Seq(Event)
      OBVIOUS
    <3>4. QED
      BY <3>1, <3>2, <3>3, Zenon
  <2>7. Len(h) = k /\ \A i \in 1..k : h[i] = IF i <= m THEN old[i] ELSE batch[i - m]
    BY <2>1, <2>3, <2>6
  <2>8. QED
    BY <2>3, <2>4, <2>5, <2>6, <2>7, SameRows
<1>15. PICK b \in [1..n -> Event] : b = batch
  BY <1>11
<1>16. Log!Commit(b)
  <2> HIDE DEF batch
  <2>1. QED
    BY <1>12, <1>13, <1>14, <1>15 DEF Log!Commit
<1>17. QED
  <2> HIDE DEF batch, n
  <2>1. QED
    BY <1>8, <1>16, Zenon DEF Log!Next

\* journal.ts, the append transaction: whatever its processes do, the table is
\* a log that only grows, by one batch of at most MaxBatch new rows at a
\* time, and that never holds an event id twice.
THEOREM JournalImplementsLog == Spec => AppendOnlyLog
<1>1. Init => Log!Init
  BY DEF Init, Log!Init
<1>2. IInv /\ [Next]_vars =>
        [Log!Next]_([i \in 1..Len(events) |-> events[i].event])
  <2> SUFFICES ASSUME IInv, [Next]_vars
               PROVE  \/ Log!Next
                      \/ UNCHANGED [i \in 1..Len(events) |-> events[i].event]
    OBVIOUS
  <2>1. CASE events' = events
    BY <2>1
  <2>2. CASE events' # events
    BY <2>2, CommitAppends, TablesStay
  <2>3. QED
    BY <2>1, <2>2
<1>3. QED
  BY <1>1, <1>2, InvHolds, PTL DEF Spec, AppendOnlyLog, Log!Spec

-----------------------------------------------------------------------------
(***************************************************************************)
(* The deferred checkpoint.                                                *)
(***************************************************************************)

\* A call that has committed keeps what it counted until it resumes.
LEMMA CommittedStays ==
  ASSUME IInv, NEW p \in Proc, NEW s \in Slot, NEW q \in Proc, NEW t \in Slot,
         call[q][t].pc = "committed",
         \/ Begin(p, s) \/ Busy(p, s) \/ Retry(p, s) \/ InsertRow(p, s)
         \/ Commit(p, s) \/ Rollback(p, s) \/ ResumeFailed(p, s)
         \/ \E batch \in Batches : AppendCall(p, s, batch)
  PROVE  call'[q][t] = call[q][t]
<1>0. TypeOK
  BY DEF IInv
<1>1. OthersStay(p, s)
  BY <1>0, AppendMoves, AttemptMoves, InsertMoves, EndMoves
<1>2. call[p][s].pc # "committed"
  <2>1. ASSUME NEW batch \in Batches, AppendCall(p, s, batch) PROVE call[p][s].pc = "idle"
    <3>1. call[p][s] = Idle
      BY <2>1, Zenon DEF AppendCall
    <3>2. QED
      BY <3>1 DEF Idle
  <2>2. ASSUME \/ Begin(p, s) \/ Busy(p, s) \/ Retry(p, s) \/ InsertRow(p, s)
               \/ Commit(p, s) \/ Rollback(p, s) \/ ResumeFailed(p, s)
        PROVE  call[p][s].pc # "committed"
    BY <2>2 DEF Begin, Busy, Retry, InsertRow, Commit, Rollback, ResumeFailed
  <2>3. QED
    BY <2>1, <2>2
<1>3. QED
  BY <1>1, <1>2 DEF OthersStay

\* A transaction that counted no row as written leaves the table as it was.
LEMMA NothingWritten ==
  ASSUME IInv, NEW p \in Proc, NEW s \in Slot, Commit(p, s), call[p][s].written = 0
  PROVE  tx.events = events
<1>1. Len(tx.events) = Len(events) + 0
  BY DEF Commit, IInv, InsertingInv
<1>2. /\ events \in Seq(Row) /\ tx.events \in Seq(Row) /\ Extends(tx.events, events)
  BY TxTypes, CommitOwns DEF IInv
<1>3. Len(tx.events) = Len(events)
  BY <1>1, <1>2
<1>4. \A i \in 1..Len(tx.events) : tx.events[i] = events[i]
  BY <1>2, <1>3 DEF Extends
<1>5. QED
  BY <1>2, <1>3, <1>4, SameRows

\* Every step keeps the promise that committed rows are caught up with.
LEMMA ScheduledStep ==
  IInv /\ DueInv /\ RowsScheduled /\ [Next]_vars => DueInv' /\ RowsScheduled'
<1> SUFFICES ASSUME IInv, DueInv, RowsScheduled, [Next]_vars, NEW q \in Proc
             PROVE  /\ due'[q] => conn'[q] = "open"
                    /\ due'[q] => \/ armed'[q]
                                  \/ \E t \in Slot : /\ call'[q][t].pc = "committed"
                                                     /\ call'[q][t].written > 0
                    /\ armed'[q] => conn'[q] = "open"
  BY DEF DueInv, RowsScheduled, Scheduled
<1> DEFINE Held == \E t \in Slot : call[q][t].pc = "committed" /\ call[q][t].written > 0
           HeldNext == \E t \in Slot : call'[q][t].pc = "committed" /\ call'[q][t].written > 0
           Goal == /\ due'[q] => conn'[q] = "open"
                   /\ due'[q] => armed'[q] \/ HeldNext
                   /\ armed'[q] => conn'[q] = "open"
<1>0. TypeOK
  BY DEF IInv
<1>1. /\ due[q] => conn[q] = "open"
      /\ due[q] => armed[q] \/ Held
      /\ armed[q] => conn[q] = "open"
  BY DEF DueInv, RowsScheduled, Scheduled
<1>2. ASSUME due' = due, armed' = armed, conn' = conn, Held => HeldNext PROVE Goal
  <2> HIDE DEF Held, HeldNext
  <2>1. QED
    BY <1>1, <1>2
<1>3. CASE UNCHANGED vars
  BY <1>2, <1>3 DEF vars
<1>4. ASSUME NEW p \in Proc,
             \/ \E i \in 1..Len(events) : ReadRow(p, i)
             \/ \E pair \in cache[p] : Evict(p, pair)
      PROVE  Goal
  BY <1>2, <1>4 DEF ReadRow, Evict
<1>5. ASSUME NEW p \in Proc, Open(p) \/ OpenDisabled(p) PROVE Goal
  <2>1. due' = due /\ armed' = armed /\ call' = call /\ conn[p] = "none"
    BY <1>5 DEF Open, OpenDisabled
  <2>2. q # p => conn'[q] = conn[q]
    BY <1>0, <1>5 DEF Open, OpenDisabled, TypeOK
  <2>3. q = p => ~due[q] /\ ~armed[q]
    BY <1>1, <2>1
  <2>4. QED
    BY <1>1, <2>1, <2>2, <2>3
<1>6. ASSUME NEW p \in Proc, Close(p) \/ Crash(p) \/ FireCheckpoint(p) PROVE Goal
  <2>1. CASE q = p
    <3>1. ~armed'[q]
      BY <1>0, <1>6, <2>1 DEF Close, Crash, FireCheckpoint, TypeOK
    <3>2. ~due'[q]
      BY <1>0, <1>1, <1>6, <2>1 DEF Close, Crash, FireCheckpoint, TypeOK
    <3>3. QED
      BY <3>1, <3>2
  <2>2. CASE q # p
    <3>1. /\ due'[q] = due[q] /\ armed'[q] = armed[q] /\ conn'[q] = conn[q]
          /\ call'[q] = call[q]
      BY <1>0, <1>6, <2>2 DEF Close, Crash, FireCheckpoint, TypeOK
    <3>2. QED
      BY <1>1, <3>1
  <2>3. QED
    BY <2>1, <2>2
<1>7. ASSUME NEW p \in Proc, NEW s \in Slot,
             \/ Begin(p, s) \/ Busy(p, s) \/ Retry(p, s) \/ InsertRow(p, s)
             \/ Rollback(p, s) \/ ResumeFailed(p, s)
             \/ \E batch \in Batches : AppendCall(p, s, batch)
      PROVE  Goal
  <2>1. Held => HeldNext
    BY <1>7, CommittedStays
  <2>2. due' = due /\ armed' = armed /\ conn' = conn
    BY <1>7 DEF Begin, Busy, Retry, InsertRow, Rollback, ResumeFailed, AppendCall
  <2> HIDE DEF Held, HeldNext
  <2>3. QED
    BY <1>2, <2>1, <2>2
<1>8. ASSUME NEW p \in Proc, NEW s \in Slot, Commit(p, s) PROVE Goal
  <2>1. Held => HeldNext
    BY <1>8, CommittedStays
  <2>2. armed' = armed /\ conn' = conn /\ due' = [due EXCEPT ![p] = @ \/ tx.events # events]
    BY <1>8 DEF Commit
  <2>3. CASE q = p /\ tx.events # events
    <3>1. conn'[q] = "open"
      BY <1>8, <2>2, <2>3 DEF Commit, IInv, ThreadInv, OnThread
    <3>2. call[p][s].written > 0
      <4>1. call[p][s].written \in Nat /\ call[p][s].written # 0
        BY <1>0, <1>8, <2>3, CallFields, NothingWritten
      <4>2. QED
        BY <4>1
    <3>3. call'[p][s].pc = "committed" /\ call'[p][s].written = call[p][s].written
      BY <1>0, <1>8, EndMoves
    <3>4. HeldNext
      BY <2>3, <3>2, <3>3
    <3> HIDE DEF HeldNext
    <3>5. QED
      BY <3>1, <3>4
  <2>4. CASE ~(q = p /\ tx.events # events)
    <3>1. due'[q] => due[q]
      BY <1>0, <2>2, <2>4 DEF TypeOK
    <3> HIDE DEF Held, HeldNext
    <3>2. QED
      BY <1>1, <2>1, <2>2, <3>1
  <2>5. QED
    BY <2>3, <2>4
<1>9. ASSUME NEW p \in Proc, NEW s \in Slot, Resume(p, s) PROVE Goal
  <2>1. /\ due' = due /\ conn' = conn /\ call[p][s].pc = "committed"
        /\ armed' = [armed EXCEPT ![p] = @ \/ (call[p][s].written > 0 /\ conn[p] = "open")]
    BY <1>9 DEF Resume
  <2>2. OthersStay(p, s)
    BY <1>0, <1>9, EndMoves
  <2>3. armed'[q] => armed[q] \/ conn[q] = "open"
    BY <1>0, <2>1 DEF TypeOK
  <2>4. ASSUME due[q] PROVE armed'[q] \/ HeldNext
    <3>1. CASE armed[q]
      BY <1>0, <2>1, <3>1 DEF TypeOK
    <3>2. CASE ~armed[q]
      <4>1. PICK t \in Slot : call[q][t].pc = "committed" /\ call[q][t].written > 0
        BY <1>1, <2>4, <3>2
      <4>2. CASE q = p /\ t = s
        BY <1>0, <1>1, <2>1, <2>4, <4>1, <4>2 DEF TypeOK
      <4>3. CASE q # p \/ t # s
        BY <2>2, <4>1, <4>3 DEF OthersStay
      <4>4. QED
        BY <4>2, <4>3
    <3>3. QED
      BY <3>1, <3>2
  <2> HIDE DEF HeldNext
  <2>5. QED
    BY <1>1, <2>1, <2>3, <2>4
<1>10. QED
  BY <1>3, <1>4, <1>5, <1>6, <1>7, <1>8, <1>9 DEF Next, Handle, Step

\* armCheckpoint and close in journal.ts: whatever the interleaving of appends,
\* rows an open handle committed have a checkpoint coming, and no timer outlives
\* its handle.
THEOREM CommittedRowsAreScheduled == Spec => []RowsScheduled
<1>1. Init => DueInv /\ RowsScheduled
  BY DEF Init, DueInv, RowsScheduled
<1>2. QED
  BY <1>1, ScheduledStep, InvHolds, PTL DEF Spec

-----------------------------------------------------------------------------
(***************************************************************************)
(* The counters.                                                           *)
(***************************************************************************)

\* What the three actions that count do to the counters.
LEMMA AppendCounts ==
  ASSUME TypeOK, NEW p \in Proc, NEW s \in Slot, NEW batch \in Batches,
         AppendCall(p, s, batch)
  PROVE  /\ \A q \in Proc : q # p => counters'[q] = counters[q]
         /\ counters'[p].offered = counters[p].offered + Len(batch)
         /\ counters'[p].written = counters[p].written
         /\ counters'[p].duplicates = counters[p].duplicates
         /\ counters'[p].rejected
               = counters[p].rejected + (Len(batch) - Len(Accepted(batch)))
<1> DEFINE rows == Accepted(batch)
           more == IF conn[p] = "open" /\ rows # <<>> THEN 0 ELSE Len(rows)
           r == [counters[p] EXCEPT
                   !.offered = @ + Len(batch),
                   !.rejected = @ + (Len(batch) - Len(rows)),
                   !.dropped = @ + more]
<1>1. Count(p, r)
  BY Zenon DEF AppendCall
<1>2. counters[p] \in CountersType
  BY CounterFields
<1> HIDE DEF more, rows
<1>3. /\ r.offered = counters[p].offered + Len(batch)
      /\ r.written = counters[p].written /\ r.duplicates = counters[p].duplicates
      /\ r.rejected = counters[p].rejected + (Len(batch) - Len(rows))
  BY <1>2 DEF CountersType
<1> HIDE DEF r
<1>4. counters'[p] = r /\ \A q \in Proc : q # p => counters'[q] = counters[q]
  BY <1>1 DEF Count, TypeOK
<1>5. QED
  BY <1>3, <1>4 DEF rows

\* What an answered call adds to the counters, and a failed one drops.
LEMMA ResumeCounts ==
  ASSUME TypeOK, NEW p \in Proc, NEW s \in Slot
  PROVE  /\ Resume(p, s) \/ ResumeFailed(p, s) =>
              \A q \in Proc : q # p => counters'[q] = counters[q]
         /\ Resume(p, s) =>
              /\ counters'[p].offered = counters[p].offered
              /\ counters'[p].written = counters[p].written + call[p][s].written
              /\ counters'[p].duplicates
                    = counters[p].duplicates + call[p][s].duplicates
              /\ counters'[p].rejected = counters[p].rejected
              /\ counters'[p].dropped = counters[p].dropped
         /\ ResumeFailed(p, s) =>
              /\ counters'[p].offered = counters[p].offered
              /\ counters'[p].written = counters[p].written
              /\ counters'[p].duplicates = counters[p].duplicates
              /\ counters'[p].rejected = counters[p].rejected
              /\ counters'[p].dropped = counters[p].dropped + Len(call[p][s].rows)
<1> DEFINE c == call[p][s]
           r1 == [counters[p] EXCEPT !.written = @ + c.written,
                                     !.duplicates = @ + c.duplicates]
           r2 == [counters[p] EXCEPT !.dropped = @ + Len(c.rows)]
<1>1. counters[p] \in CountersType
  BY CounterFields
<1>2. Resume(p, s) => Count(p, r1)
  BY Zenon DEF Resume
<1>3. ResumeFailed(p, s) => Count(p, r2)
  BY Zenon DEF ResumeFailed
<1> HIDE DEF c
<1>4. /\ r1.offered = counters[p].offered
      /\ r1.written = counters[p].written + c.written
      /\ r1.duplicates = counters[p].duplicates + c.duplicates
      /\ r1.rejected = counters[p].rejected /\ r1.dropped = counters[p].dropped
  BY <1>1 DEF CountersType
<1>5. /\ r2.offered = counters[p].offered /\ r2.written = counters[p].written
      /\ r2.duplicates = counters[p].duplicates /\ r2.rejected = counters[p].rejected
      /\ r2.dropped = counters[p].dropped + Len(c.rows)
  BY <1>1 DEF CountersType
<1> HIDE DEF r1, r2
<1>6. ASSUME NEW r, Count(p, r)
      PROVE  counters'[p] = r /\ \A q \in Proc : q # p => counters'[q] = counters[q]
  BY <1>6 DEF Count, TypeOK
<1>7. QED
  BY <1>2, <1>3, <1>4, <1>5, <1>6 DEF c

\* The rows of the calls of p that are not over.
Lengths(p) == [s \in Slot |-> Len(call[p][s].rows)]
Pending(p) == SumFunctionOnSet(Lengths(p), InFlight(p))

\* The rows under way in a process are counted by a number.
LEMMA PendingType ==
  ASSUME TypeOK, NEW p \in Proc
  PROVE  /\ IsFiniteSet(InFlight(p)) /\ Pending(p) \in Nat
         /\ \A s \in Slot : Lengths(p)[s] = Len(call[p][s].rows) /\ Lengths(p)[s] \in Nat
<1>1. IsFiniteSet(InFlight(p)) /\ InFlight(p) \subseteq Slot
  BY JournalAssumption, FS_Subset DEF InFlight
<1>2. \A s \in Slot : Lengths(p)[s] = Len(call[p][s].rows) /\ Lengths(p)[s] \in Nat
  BY CallFields DEF Lengths
<1>3. QED
  BY <1>1, <1>2, SumIsNat DEF Pending

\* So they are after the step.
LEMMA PendingNext ==
  ASSUME TypeOK', NEW p \in Proc
  PROVE  Pending(p)' \in Nat
<1> DEFINE g == Lengths(p)'
           T == InFlight(p)'
<1>1. IsFiniteSet(T)
  BY JournalAssumption, FS_Subset DEF InFlight
<1>2. \A s \in Slot : call'[p][s].rows \in Seq(Offered)
  BY DEF TypeOK, CallType
<1>3. \A s \in T : g[s] \in Nat
  BY <1>2 DEF Lengths, InFlight
<1> HIDE DEF g, T
<1>4. SumFunctionOnSet(g, T) \in Nat
  BY <1>1, <1>3, SumIsNat
<1>5. QED
  BY <1>4 DEF Pending, g, T

\* A process none of whose calls moves has as many rows pending.
LEMMA PendingStays ==
  ASSUME NEW q \in Proc, call'[q] = call[q]
  PROVE  Pending(q)' = Pending(q)
BY DEF Pending, Lengths, InFlight

\* The rows under way grow and shrink by those of the call that moves.
LEMMA PendingMoves ==
  ASSUME TypeOK, TypeOK', NEW p \in Proc, NEW s \in Slot, OthersStay(p, s)
  PROVE  /\ \A q \in Proc : q # p => Pending(q)' = Pending(q)
         /\ call[p][s].pc # "idle" /\ call'[p][s].pc # "idle"
               /\ call'[p][s].rows = call[p][s].rows
            => Pending(p)' = Pending(p)
         /\ call[p][s].pc = "idle" /\ call'[p][s].pc # "idle"
            => Pending(p)' = Len(call'[p][s].rows) + Pending(p)
         /\ call[p][s].pc # "idle" /\ call'[p][s].pc = "idle"
            => Pending(p) = Len(call[p][s].rows) + Pending(p)'
<1> DEFINE f == Lengths(p)
           g == Lengths(p)'
           S == InFlight(p)
           T == InFlight(p)'
<1>1. \A r \in Slot : f[r] = Len(call[p][r].rows) /\ f[r] \in Nat
  BY PendingType
<1>2. \A r \in Slot : g[r] = Len(call'[p][r].rows) /\ g[r] \in Nat
  <2>1. \A r \in Slot : g[r] = Len(call'[p][r].rows)
    BY DEF Lengths
  <2>2. \A r \in Slot : call'[p][r].rows \in Seq(Offered)
    BY DEF TypeOK, CallType
  <2>3. QED
    BY <2>1, <2>2
<1>3. \A r \in Slot : r # s => f[r] = g[r] /\ (r \in S <=> r \in T)
  BY <1>1, <1>2 DEF OthersStay, InFlight
<1>4. /\ S \in SUBSET Slot /\ T \in SUBSET Slot
      /\ s \in S <=> call[p][s].pc # "idle"
      /\ s \in T <=> call'[p][s].pc # "idle"
  BY DEF InFlight
<1>5. Pending(p) = SumFunctionOnSet(f, S) /\ Pending(p)' = SumFunctionOnSet(g, T)
  BY DEF Pending
<1>6. ASSUME NEW q \in Proc, q # p PROVE Pending(q)' = Pending(q)
  <2>1. \A r \in Slot : call'[q][r] = call[q][r]
    BY <1>6 DEF OthersStay
  <2>2. Lengths(q)' = Lengths(q) /\ InFlight(q)' = InFlight(q)
    BY <2>1 DEF Lengths, InFlight
  <2>3. QED
    BY <2>2 DEF Pending
<1>7. /\ s \in S /\ s \in T /\ f[s] = g[s]
              => SumFunctionOnSet(g, T) = SumFunctionOnSet(f, S)
      /\ s \notin S /\ s \in T
              => SumFunctionOnSet(g, T) = g[s] + SumFunctionOnSet(f, S)
      /\ s \in S /\ s \notin T
              => SumFunctionOnSet(f, S) = f[s] + SumFunctionOnSet(g, T)
  <2>1. (\A r \in Slot : f[r] \in Nat) /\ (\A r \in Slot : g[r] \in Nat)
    BY <1>1, <1>2
  <2> HIDE DEF f, g, S, T
  <2>2. QED
    BY <1>3, <1>4, <2>1, JournalAssumption, SumMoved
<1> HIDE DEF f, g, S, T
<1>8. QED
  BY <1>1, <1>2, <1>4, <1>5, <1>6, <1>7

\* Accounted, for one process.
Balance(p) ==
  counters[p].offered = counters[p].written + counters[p].duplicates
                        + counters[p].rejected + counters[p].dropped + Pending(p)

BalanceInv == \A p \in Proc : Balance(p)

\* A call that begins leaves the account of its process balanced.
LEMMA AppendBalances ==
  ASSUME IInv, TypeOK', NEW p \in Proc, NEW s \in Slot, NEW batch \in Batches,
         AppendCall(p, s, batch), Balance(p)
  PROVE  Balance(p)'
<1>0. TypeOK
  BY DEF IInv
<1>1. PICK o \in Nat : o = counters[p].offered
  BY <1>0, CounterFields
<1>2. PICK w \in Nat : w = counters[p].written
  BY <1>0, CounterFields
<1>3. PICK d \in Nat : d = counters[p].duplicates
  BY <1>0, CounterFields
<1>4. PICK r \in Nat : r = counters[p].rejected
  BY <1>0, CounterFields
<1>5. PICK x \in Nat : x = counters[p].dropped
  BY <1>0, CounterFields
<1>6. PICK n \in Nat : n = Pending(p)
  BY <1>0, PendingType
<1>7. PICK b \in Nat : b = Len(batch)
  BY AcceptedRows
<1>8. PICK a \in Nat : a = Len(Accepted(batch)) /\ a <= b
  BY <1>7, AcceptedRows
<1>9. o = w + d + r + x + n
  BY <1>1, <1>2, <1>3, <1>4, <1>5, <1>6, Zenon DEF Balance
<1>10. /\ counters'[p].offered = o + b /\ counters'[p].written = w
       /\ counters'[p].duplicates = d /\ counters'[p].rejected = r + (b - a)
  BY <1>0, <1>1, <1>2, <1>3, <1>4, <1>7, <1>8, AppendCounts, Zenon
<1>11. call[p][s].pc = "idle" /\ OthersStay(p, s)
  <2>1. call[p][s] = Idle
    BY Zenon DEF AppendCall
  <2>2. QED
    BY <1>0, <2>1, AppendMoves DEF Idle
<1>12. CASE /\ call'[p][s].pc = "attempt" /\ call'[p][s].rows = Accepted(batch)
            /\ counters'[p].dropped = counters[p].dropped
  <2>1. Pending(p)' = Len(call'[p][s].rows) + Pending(p)
    BY <1>0, <1>11, <1>12, PendingMoves
  <2>2. Pending(p)' = a + n /\ counters'[p].dropped = x
    BY <1>5, <1>6, <1>8, <1>12, <2>1, Zenon
  <2>3. o + b = w + d + (r + (b - a)) + x + (a + n)
    BY <1>8, <1>9
  <2>4. QED
    BY <1>10, <2>2, <2>3, Zenon DEF Balance
<1>13. CASE /\ call'[p][s] = call[p][s]
            /\ counters'[p].dropped = counters[p].dropped + Len(Accepted(batch))
  <2>1. call' = call
    <3>1. \A q \in Proc : \A t \in Slot : call'[q][t] = call[q][t]
      BY <1>11, <1>13 DEF OthersStay
    <3>2. QED
      BY <1>0, <3>1 DEF TypeOK
  <2>2. Pending(p)' = n
    BY <1>6, <2>1, PendingStays
  <2>3. counters'[p].dropped = x + a
    BY <1>5, <1>8, <1>13, Zenon
  <2>4. o + b = w + d + (r + (b - a)) + (x + a) + n
    BY <1>8, <1>9
  <2>5. QED
    BY <1>10, <2>2, <2>3, <2>4, Zenon DEF Balance
<1>14. QED
  BY <1>0, <1>12, <1>13, AppendMoves

\* So does one that is answered, or fails.
LEMMA ResumeBalances ==
  ASSUME IInv, TypeOK', NEW p \in Proc, NEW s \in Slot,
         Resume(p, s) \/ ResumeFailed(p, s), Balance(p)
  PROVE  Balance(p)'
<1>0. TypeOK
  BY DEF IInv
<1>1. PICK o \in Nat : o = counters[p].offered
  BY <1>0, CounterFields
<1>2. PICK w \in Nat : w = counters[p].written
  BY <1>0, CounterFields
<1>3. PICK d \in Nat : d = counters[p].duplicates
  BY <1>0, CounterFields
<1>4. PICK r \in Nat : r = counters[p].rejected
  BY <1>0, CounterFields
<1>5. PICK x \in Nat : x = counters[p].dropped
  BY <1>0, CounterFields
<1>6. PICK l \in Nat : l = Len(call[p][s].rows)
  BY <1>0, CallFields
<1>7. PICK n \in Nat : n = Pending(p)'
  BY PendingNext
<1>8. /\ OthersStay(p, s) /\ call'[p][s].pc = "idle" /\ call[p][s].pc # "idle"
  <2>1. OthersStay(p, s) /\ call'[p][s] = Idle
    BY <1>0, EndMoves
  <2>2. call[p][s].pc \in {"committed", "failed"}
    BY DEF Resume, ResumeFailed
  <2>3. QED
    BY <2>1, <2>2 DEF Idle
<1>9. Pending(p) = l + n
  BY <1>0, <1>6, <1>7, <1>8, PendingMoves
<1>10. o = w + d + r + x + (l + n)
  BY <1>1, <1>2, <1>3, <1>4, <1>5, <1>9, Zenon DEF Balance
<1>11. CASE Resume(p, s)
  <2>1. PICK cw \in Nat : cw = call[p][s].written
    BY <1>0, CallFields
  <2>2. PICK cd \in Nat : cd = call[p][s].duplicates
    BY <1>0, CallFields
  <2>3. cw + cd = l
    BY <1>6, <1>11, <2>1, <2>2, Zenon DEF Resume, IInv, CommittedInv
  <2>4. /\ counters'[p].offered = o /\ counters'[p].written = w + cw
        /\ counters'[p].duplicates = d + cd /\ counters'[p].rejected = r
        /\ counters'[p].dropped = x
    BY <1>0, <1>1, <1>2, <1>3, <1>4, <1>5, <1>11, <2>1, <2>2, ResumeCounts, Zenon
  <2>5. o = (w + cw) + (d + cd) + r + x + n
    BY <1>10, <2>3
  <2>6. QED
    BY <1>7, <2>4, <2>5, Zenon DEF Balance
<1>12. CASE ResumeFailed(p, s)
  <2>1. /\ counters'[p].offered = o /\ counters'[p].written = w
        /\ counters'[p].duplicates = d /\ counters'[p].rejected = r
        /\ counters'[p].dropped = x + l
    BY <1>0, <1>1, <1>2, <1>3, <1>4, <1>5, <1>6, <1>12, ResumeCounts, Zenon
  <2>2. o = w + d + r + (x + l) + n
    BY <1>10
  <2>3. QED
    BY <1>7, <2>1, <2>2, Zenon DEF Balance
<1>13. QED
  BY <1>11, <1>12

\* Every step leaves the accounts balanced.
LEMMA BalanceStep == IInv /\ BalanceInv /\ [Next]_vars => BalanceInv'
<1> SUFFICES ASSUME IInv, BalanceInv, [Next]_vars, NEW q \in Proc
             PROVE  Balance(q)'
  BY DEF BalanceInv
<1>0. TypeOK /\ TypeOK' /\ Balance(q)
  BY TypeStep DEF IInv, BalanceInv
<1>1. ASSUME counters'[q] = counters[q], Pending(q)' = Pending(q) PROVE Balance(q)'
  BY <1>0, <1>1, Zenon DEF Balance
<1>2. ASSUME counters'[q] = counters[q], call'[q] = call[q] PROVE Balance(q)'
  BY <1>1, <1>2, PendingStays
<1>3. CASE UNCHANGED vars
  BY <1>2, <1>3 DEF vars
<1>4. ASSUME NEW p \in Proc,
             \/ Open(p) \/ OpenDisabled(p) \/ Close(p) \/ FireCheckpoint(p)
             \/ \E i \in 1..Len(events) : ReadRow(p, i)
             \/ \E pair \in cache[p] : Evict(p, pair)
      PROVE  Balance(q)'
  BY <1>2, <1>4 DEF Open, OpenDisabled, Close, FireCheckpoint, ReadRow, Evict
<1>5. ASSUME NEW p \in Proc, Crash(p) PROVE Balance(q)'
  <2>1. CASE q # p
    BY <1>0, <1>2, <1>5, <2>1 DEF Crash, TypeOK
  <2>2. CASE q = p
    <3>1. counters'[q] = Zero /\ \A t \in Slot : call'[q][t] = Idle
      BY <1>0, <1>5, <2>2 DEF Crash, TypeOK
    <3>2. InFlight(q)' = {}
      BY <3>1 DEF InFlight, Idle
    <3>3. Pending(q)' = 0
      BY <3>2, SumOfNone DEF Pending
    <3>4. QED
      BY <3>1, <3>3 DEF Balance, Zero
  <2>3. QED
    BY <2>1, <2>2
<1>6. ASSUME NEW p \in Proc, NEW s \in Slot,
             \/ Begin(p, s) \/ Busy(p, s) \/ Retry(p, s) \/ InsertRow(p, s)
             \/ Commit(p, s) \/ Rollback(p, s)
      PROVE  Balance(q)'
  <2>1. counters' = counters /\ call[p][s].pc # "idle"
    BY <1>6 DEF Begin, Busy, Retry, InsertRow, Commit, Rollback
  <2>2. /\ OthersStay(p, s) /\ call'[p][s].pc # "idle"
        /\ call'[p][s].rows = call[p][s].rows
    BY <1>0, <1>6, AttemptMoves, InsertMoves, EndMoves
  <2>3. Pending(q)' = Pending(q)
    BY <1>0, <2>1, <2>2, PendingMoves
  <2>4. QED
    BY <1>1, <2>1, <2>3
<1>7. ASSUME NEW p \in Proc, NEW s \in Slot, NEW batch \in Batches,
             AppendCall(p, s, batch)
      PROVE  Balance(q)'
  <2>1. CASE q = p
    BY <1>0, <1>7, <2>1, AppendBalances
  <2>2. CASE q # p
    BY <1>0, <1>1, <1>7, <2>2, AppendCounts, AppendMoves, PendingMoves
  <2>3. QED
    BY <2>1, <2>2
<1>8. ASSUME NEW p \in Proc, NEW s \in Slot, Resume(p, s) \/ ResumeFailed(p, s)
      PROVE  Balance(q)'
  <2>1. CASE q = p
    BY <1>0, <1>8, <2>1, ResumeBalances
  <2>2. CASE q # p
    BY <1>0, <1>1, <1>8, <2>2, ResumeCounts, EndMoves, PendingMoves
  <2>3. QED
    BY <2>1, <2>2
<1>9. QED
  BY <1>3, <1>4, <1>5, <1>6, <1>7, <1>8 DEF Next, Handle, Step

\* append in journal.ts: every event handed to a handle is in exactly one of
\* its counters once the call is over, in whatever order calls fail, retry and
\* resume; no event is lost without a trace.
THEOREM EventsAreAccounted == Spec => []Accounted
<1>1. Init => BalanceInv
  <2> SUFFICES ASSUME Init, NEW q \in Proc PROVE Balance(q)
    BY DEF BalanceInv
  <2>1. counters[q] = Zero /\ InFlight(q) = {}
    BY DEF Init, InFlight, Idle
  <2>2. Pending(q) = 0
    BY <2>1, SumOfNone DEF Pending
  <2>3. QED
    BY <2>1, <2>2 DEF Balance, Zero
<1>2. BalanceInv <=> Accounted
  BY Zenon DEF Accounted, BalanceInv, Balance, Pending, Lengths
<1>3. QED
  BY <1>1, <1>2, BalanceStep, InvHolds, PTL DEF Spec

-----------------------------------------------------------------------------
(***************************************************************************)
(* The counters and the table.                                             *)
(***************************************************************************)

\* What the calls of p that committed are about to count as written.
Writes(p) == [s \in Slot |-> call[p][s].written]
Claims(p) == SumFunctionOnSet(Writes(p), Committed(p))

\* What a process claims to have written is its counter and its committed calls.
LEMMA ClaimsType ==
  ASSUME TypeOK, NEW p \in Proc
  PROVE  /\ Claims(p) \in Nat /\ Claimed(p) \in Nat
         /\ Claimed(p) = counters[p].written + Claims(p)
<1>1. IsFiniteSet(Committed(p))
  BY JournalAssumption, FS_Subset DEF Committed
<1>2. \A s \in Committed(p) : Writes(p)[s] \in Nat
  BY CallFields DEF Writes, Committed
<1>3. PICK n \in Nat : n = Claims(p)
  BY <1>1, <1>2, SumIsNat DEF Claims
<1>4. PICK w \in Nat : w = counters[p].written
  BY CounterFields
<1>5. Claimed(p) = counters[p].written + Claims(p)
  BY Zenon DEF Claimed, Claims, Writes
<1>6. Claimed(p) = w + n /\ w + n \in Nat
  BY <1>3, <1>4, <1>5
<1>7. QED
  BY <1>3, <1>5, <1>6

\* So it is after the step.
LEMMA ClaimsNext ==
  ASSUME TypeOK', NEW p \in Proc
  PROVE  Claims(p)' \in Nat
<1> DEFINE g == Writes(p)'
           T == Committed(p)'
<1>1. IsFiniteSet(T)
  BY JournalAssumption, FS_Subset DEF Committed
<1>2. \A s \in Slot : call'[p][s].written \in Nat
  BY DEF TypeOK, CallType
<1>3. \A s \in T : g[s] \in Nat
  BY <1>2 DEF Writes, Committed
<1> HIDE DEF g, T
<1>4. SumFunctionOnSet(g, T) \in Nat
  BY <1>1, <1>3, SumIsNat
<1>5. QED
  BY <1>4 DEF Claims, g, T

\* The committed calls' share moves with the call that commits or is answered.
LEMMA ClaimsMove ==
  ASSUME TypeOK, TypeOK', NEW p \in Proc, NEW s \in Slot, OthersStay(p, s)
  PROVE  /\ \A q \in Proc : q # p => Claims(q)' = Claims(q)
         /\ call[p][s].pc # "committed" /\ call'[p][s].pc # "committed"
            => Claims(p)' = Claims(p)
         /\ call[p][s].pc # "committed" /\ call'[p][s].pc = "committed"
            => Claims(p)' = call'[p][s].written + Claims(p)
         /\ call[p][s].pc = "committed" /\ call'[p][s].pc # "committed"
            => Claims(p) = call[p][s].written + Claims(p)'
<1> DEFINE f == Writes(p)
           g == Writes(p)'
           S == Committed(p)
           T == Committed(p)'
<1>1. \A r \in Slot : f[r] = call[p][r].written /\ f[r] \in Nat
  BY CallFields DEF Writes
<1>2. \A r \in Slot : g[r] = call'[p][r].written /\ g[r] \in Nat
  <2>1. \A r \in Slot : g[r] = call'[p][r].written
    BY DEF Writes
  <2>2. \A r \in Slot : call'[p][r].written \in Nat
    BY DEF TypeOK, CallType
  <2>3. QED
    BY <2>1, <2>2
<1>3. \A r \in Slot : r # s => f[r] = g[r] /\ (r \in S <=> r \in T)
  BY <1>1, <1>2 DEF OthersStay, Committed
<1>4. /\ S \in SUBSET Slot /\ T \in SUBSET Slot
      /\ s \in S <=> call[p][s].pc = "committed"
      /\ s \in T <=> call'[p][s].pc = "committed"
  BY DEF Committed
<1>5. Claims(p) = SumFunctionOnSet(f, S) /\ Claims(p)' = SumFunctionOnSet(g, T)
  BY DEF Claims
<1>6. ASSUME NEW q \in Proc, q # p PROVE Claims(q)' = Claims(q)
  <2>1. \A r \in Slot : call'[q][r] = call[q][r]
    BY <1>6 DEF OthersStay
  <2>2. Writes(q)' = Writes(q) /\ Committed(q)' = Committed(q)
    BY <2>1 DEF Writes, Committed
  <2>3. QED
    BY <2>2 DEF Claims
<1>7. /\ s \notin S /\ s \notin T
              => SumFunctionOnSet(g, T) = SumFunctionOnSet(f, S)
      /\ s \notin S /\ s \in T
              => SumFunctionOnSet(g, T) = g[s] + SumFunctionOnSet(f, S)
      /\ s \in S /\ s \notin T
              => SumFunctionOnSet(f, S) = f[s] + SumFunctionOnSet(g, T)
  <2>1. (\A r \in Slot : f[r] \in Nat) /\ (\A r \in Slot : g[r] \in Nat)
    BY <1>1, <1>2
  <2> HIDE DEF f, g, S, T
  <2>2. QED
    BY <1>3, <1>4, <2>1, JournalAssumption, SumMoved
<1> HIDE DEF f, g, S, T
<1>8. QED
  BY <1>1, <1>2, <1>4, <1>5, <1>6, <1>7

\* What all the handles say they wrote.
Claim == [p \in Proc |-> Claimed(p)]
Total == SumFunctionOnSet(Claim, Proc)

\* The claims of all stay when no process's do.
LEMMA TotalStays ==
  ASSUME TypeOK, \A q \in Proc : Claims(q)' = Claims(q),
         \A q \in Proc : counters'[q].written = counters[q].written
  PROVE  Total' = Total
<1>1. \A q \in Proc : Claimed(q)' = Claimed(q)
  <2> SUFFICES ASSUME NEW q \in Proc PROVE Claimed(q)' = Claimed(q)
    OBVIOUS
  <2>1. Claimed(q) = counters[q].written + Claims(q)
    BY Zenon DEF Claimed, Claims, Writes
  <2>2. Claimed(q)' = counters'[q].written + Claims(q)'
    BY Zenon DEF Claimed, Claims, Writes
  <2>3. QED
    BY <2>1, <2>2
<1>2. Claim' = Claim
  BY <1>1 DEF Claim
<1>3. QED
  BY <1>2 DEF Total

\* They grow by what a committing call wrote.
LEMMA TotalMoves ==
  ASSUME TypeOK, TypeOK', NEW p \in Proc, NEW s \in Slot, OthersStay(p, s),
         counters' = counters, call[p][s].pc # "committed",
         call'[p][s].pc = "committed"
  PROVE  Total' = call'[p][s].written + Total
<1> DEFINE f == Claim
           g == Claim'
<1>1. \A q \in Proc : q # p => Claimed(q)' = Claimed(q)
  <2> SUFFICES ASSUME NEW q \in Proc, q # p PROVE Claimed(q)' = Claimed(q)
    OBVIOUS
  <2>1. Claims(q)' = Claims(q)
    BY ClaimsMove
  <2>2. QED
    BY <2>1, Zenon DEF Claimed, Claims, Writes
<1>2. PICK w \in Nat : w = counters[p].written
  BY CounterFields
<1>3. PICK n \in Nat : n = Claims(p)
  BY ClaimsType
<1>4. PICK k \in Nat : k = call'[p][s].written
  <2>1. call'[p][s].written \in Nat
    BY DEF TypeOK, CallType
  <2>2. QED
    BY <2>1
<1>5. Claims(p)' = k + n
  BY <1>3, <1>4, ClaimsMove
<1>6. Claimed(p) = w + n
  BY <1>2, <1>3, Zenon DEF Claimed, Claims, Writes
<1>7. Claimed(p)' = w + (k + n)
  BY <1>2, <1>5, Zenon DEF Claimed, Claims, Writes
<1>8. /\ \A q \in Proc : q # p => f[q] = g[q]
      /\ f[p] = w + n /\ g[p] = w + (k + n)
  BY <1>1, <1>6, <1>7 DEF Claim
<1>9. \A q \in Proc : f[q] \in Nat
  BY ClaimsType DEF Claim
<1>10. \A q \in Proc : g[q] \in Nat
  BY <1>8, <1>9
<1> HIDE DEF f, g
<1>11. SumFunctionOnSet(g, Proc) + f[p] = SumFunctionOnSet(f, Proc) + g[p]
  <2>1. \A q \in Proc \ {p} : f[q] = g[q]
    BY <1>8
  <2>2. QED
    BY <1>9, <1>10, <2>1, JournalAssumption, SumChanged
<1>12. PICK x \in Nat : x = SumFunctionOnSet(g, Proc)
  BY <1>10, JournalAssumption, SumIsNat
<1>13. PICK y \in Nat : y = SumFunctionOnSet(f, Proc)
  BY <1>9, JournalAssumption, SumIsNat
<1>14. x = k + y
  BY <1>8, <1>11, <1>12, <1>13
<1>15. QED
  BY <1>4, <1>12, <1>13, <1>14, Zenon DEF Total, f, g

StoredInv == crashes = 0 => Len(events) = Total

\* Every step keeps the claims equal to the rows of the table.
LEMMA StoredStep == IInv /\ StoredInv /\ [Next]_vars => StoredInv'
<1> SUFFICES ASSUME IInv, StoredInv, [Next]_vars, crashes' = 0
             PROVE  Len(events') = Total'
  BY DEF StoredInv
<1>0. TypeOK /\ TypeOK'
  BY TypeStep DEF IInv
<1>1. ASSUME crashes' = crashes, events' = events, Total' = Total
      PROVE  Len(events') = Total'
  BY <1>1 DEF StoredInv
<1>2. ASSUME crashes' = crashes, events' = events, call' = call, counters' = counters
      PROVE  Len(events') = Total'
  <2>1. Total' = Total
    BY <1>2 DEF Total, Claim, Claimed, Committed
  <2>2. QED
    BY <1>1, <1>2, <2>1
<1>3. CASE UNCHANGED vars
  BY <1>2, <1>3 DEF vars
<1>4. ASSUME NEW p \in Proc,
             \/ Open(p) \/ OpenDisabled(p) \/ Close(p) \/ FireCheckpoint(p)
             \/ \E i \in 1..Len(events) : ReadRow(p, i)
             \/ \E pair \in cache[p] : Evict(p, pair)
      PROVE  Len(events') = Total'
  BY <1>2, <1>4 DEF Open, OpenDisabled, Close, FireCheckpoint, ReadRow, Evict
<1>5. ASSUME NEW p \in Proc, Crash(p) PROVE FALSE
  BY <1>0, <1>5 DEF Crash, TypeOK
<1>6. ASSUME NEW p \in Proc, NEW s \in Slot,
             \/ Begin(p, s) \/ Busy(p, s) \/ Retry(p, s) \/ InsertRow(p, s)
             \/ Rollback(p, s) \/ ResumeFailed(p, s)
             \/ \E batch \in Batches : AppendCall(p, s, batch)
      PROVE  Len(events') = Total'
  <2>1. crashes' = crashes /\ events' = events
    BY <1>6 DEF Begin, Busy, Retry, InsertRow, Rollback, ResumeFailed, AppendCall
  <2>2. \A q \in Proc : counters'[q].written = counters[q].written
    <3>1. ASSUME NEW batch \in Batches, AppendCall(p, s, batch), NEW q \in Proc
          PROVE  counters'[q].written = counters[q].written
      BY <1>0, <3>1, AppendCounts
    <3>2. ASSUME ResumeFailed(p, s), NEW q \in Proc
          PROVE  counters'[q].written = counters[q].written
      BY <1>0, <3>2, ResumeCounts
    <3>3. ASSUME \/ Begin(p, s) \/ Busy(p, s) \/ Retry(p, s) \/ InsertRow(p, s)
                 \/ Rollback(p, s)
          PROVE  counters' = counters
      BY <3>3 DEF Begin, Busy, Retry, InsertRow, Rollback
    <3>4. QED
      BY <1>6, <3>1, <3>2, <3>3
  <2>3. OthersStay(p, s)
    BY <1>0, <1>6, AppendMoves, AttemptMoves, InsertMoves, EndMoves
  <2>4. call[p][s].pc # "committed"
    <3>1. call[p][s].pc = "committed" => call'[p][s] = call[p][s]
      BY <1>6, CommittedStays
    <3>2. ASSUME NEW batch \in Batches, AppendCall(p, s, batch)
          PROVE  call[p][s].pc = "idle"
      <4>1. call[p][s] = Idle
        BY <3>2, Zenon DEF AppendCall
      <4>2. QED
        BY <4>1 DEF Idle
    <3>3. ASSUME \/ Begin(p, s) \/ Busy(p, s) \/ Retry(p, s) \/ InsertRow(p, s)
                 \/ Rollback(p, s) \/ ResumeFailed(p, s)
          PROVE  call[p][s].pc # "committed"
      BY <3>3 DEF Begin, Busy, Retry, InsertRow, Rollback, ResumeFailed
    <3>4. QED
      BY <1>6, <3>2, <3>3
  <2>5. call'[p][s].pc # "committed"
    <3>1. ASSUME NEW batch \in Batches, AppendCall(p, s, batch)
          PROVE  call'[p][s].pc # "committed"
      BY <1>0, <2>4, <3>1, AppendMoves
    <3>2. ASSUME \/ Begin(p, s) \/ Busy(p, s) \/ Retry(p, s) \/ InsertRow(p, s)
                 \/ Rollback(p, s) \/ ResumeFailed(p, s)
          PROVE  call'[p][s].pc # "committed"
      BY <1>0, <3>2, AttemptMoves, InsertMoves, EndMoves DEF Idle
    <3>3. QED
      BY <1>6, <3>1, <3>2
  <2>6. \A q \in Proc : Claims(q)' = Claims(q)
    BY <1>0, <2>3, <2>4, <2>5, ClaimsMove
  <2>7. QED
    BY <1>0, <1>1, <2>1, <2>2, <2>6, TotalStays
<1>7. ASSUME NEW p \in Proc, NEW s \in Slot, Commit(p, s) PROVE Len(events') = Total'
  <2>1. /\ crashes' = crashes /\ counters' = counters /\ events' = tx.events
        /\ call[p][s].pc = "inserting"
    BY <1>7 DEF Commit
  <2>2. /\ OthersStay(p, s) /\ call'[p][s].pc = "committed"
        /\ call'[p][s].written = call[p][s].written
    BY <1>0, <1>7, EndMoves
  <2>3. Total' = call[p][s].written + Total
    BY <1>0, <2>1, <2>2, TotalMoves
  <2>4. Len(tx.events) = Len(events) + call[p][s].written
    BY <2>1 DEF IInv, InsertingInv
  <2>5. Len(events) = Total
    BY <2>1 DEF StoredInv
  <2>6. PICK n \in Nat : n = Len(events)
    BY <1>0, TxTypes
  <2>7. PICK w \in Nat : w = call[p][s].written
    BY <1>0, CallFields
  <2>8. n + w = w + n
    OBVIOUS
  <2>9. QED
    BY <2>1, <2>3, <2>4, <2>5, <2>6, <2>7, <2>8, Zenon
<1>8. ASSUME NEW p \in Proc, NEW s \in Slot, Resume(p, s) PROVE Len(events') = Total'
  <2>1. crashes' = crashes /\ events' = events /\ call[p][s].pc = "committed"
    BY <1>8 DEF Resume
  <2>2. OthersStay(p, s) /\ call'[p][s].pc # "committed"
    BY <1>0, <1>8, EndMoves DEF Idle
  <2>3. ASSUME NEW q \in Proc PROVE Claimed(q)' = Claimed(q)
    <3>1. CASE q # p
      <4>1. Claims(q)' = Claims(q) /\ counters'[q] = counters[q]
        BY <1>0, <1>8, <2>2, <3>1, ClaimsMove, ResumeCounts
      <4>2. QED
        BY <4>1, Zenon DEF Claimed, Claims, Writes
    <3>2. CASE q = p
      <4>1. PICK w \in Nat : w = counters[p].written
        BY <1>0, CounterFields
      <4>2. PICK k \in Nat : k = call[p][s].written
        BY <1>0, CallFields
      <4>3. counters'[p].written = w + k
        BY <1>0, <1>8, <4>1, <4>2, ResumeCounts, Zenon
      <4>4. Claims(p) = k + Claims(p)'
        BY <1>0, <2>1, <2>2, <4>2, ClaimsMove
      <4>5. PICK n \in Nat : n = Claims(p)'
        BY <1>0, ClaimsNext
      <4>6. Claimed(p) = w + (k + n)
        BY <4>1, <4>4, <4>5, Zenon DEF Claimed, Claims, Writes
      <4>7. Claimed(p)' = (w + k) + n
        BY <4>3, <4>5, Zenon DEF Claimed, Claims, Writes
      <4>8. w + (k + n) = (w + k) + n
        OBVIOUS
      <4>9. QED
        BY <3>2, <4>6, <4>7, <4>8, Zenon
    <3>3. QED
      BY <3>1, <3>2
  <2>4. Claim' = Claim
    BY <2>3 DEF Claim
  <2>5. QED
    BY <1>1, <2>1, <2>4 DEF Total
<1>9. QED
  BY <1>3, <1>4, <1>5, <1>6, <1>7, <1>8 DEF Next, Handle, Step

\* The counters of journal.ts agree with the table: as long as no process was
\* killed, the rows the handles say they wrote are the rows there are.
THEOREM CountersMatchTheTable == Spec => []WrittenIsStored
<1>1. Init => StoredInv
  <2> SUFFICES ASSUME Init PROVE Len(events) = Total
    BY DEF StoredInv
  <2>1. \A p \in Proc : Claimed(p) = 0
    <3> SUFFICES ASSUME NEW p \in Proc PROVE Claimed(p) = 0
      OBVIOUS
    <3>1. Committed(p) = {} /\ counters[p].written = 0
      BY DEF Init, Committed, Idle, Zero
    <3>2. SumFunctionOnSet([s \in Slot |-> call[p][s].written], {}) = 0
      BY SumOfNone
    <3>3. QED
      BY <3>1, <3>2 DEF Claimed
  <2>2. \A p \in Proc : Claim[p] = 0
    BY <2>1 DEF Claim
  <2>3. Total = 0
    BY <2>2, JournalAssumption, SumOfZeros DEF Total
  <2>4. QED
    BY <2>3 DEF Init
<1>2. StoredInv <=> WrittenIsStored
  BY DEF StoredInv, WrittenIsStored, Total, Claim
<1>3. QED
  BY <1>1, <1>2, StoredStep, InvHolds, PTL DEF Spec
=============================================================================
