-------------------------- MODULE ExecutionProofs --------------------------
(***************************************************************************)
(* Theorems about ExecutionSession, for any managed orders, any split      *)
(* configuration, any capacities and any number of requests.               *)
(*                                                                         *)
(* None of the properties is inductive: a session may send another child   *)
(* only because its ledgers are true.  Sound says that they are: what a    *)
(* ledger counts as traded and what is queued for the loop is what the     *)
(* broker filled, a ledger is closed only when its child can fill no more, *)
(* and what the session stands for stays within its target (Schedule, for  *)
(* a TWAP slice by slice).  Ended keeps the same for parents whose session *)
(* is gone.  Turn says where in its iteration the loop is, and so which    *)
(* entries of parents have been refreshed.  Sound takes the state as       *)
(* parameters, because an action of the engine passes through states in    *)
(* between that it must hold in as well.                                   *)
(***************************************************************************)
EXTENDS ExecutionSession, Functions, FiniteSetTheorems, WellFoundedInduction, TLAPS

-----------------------------------------------------------------------------
(* Sums of a function's values over a finite set (SumFunctionOnSet), as    *)
(* they add up the ledgers of a session and the fills of its children.     *)
(* Induction over a finite set is the choice of a minimal counterexample   *)
(* among its subsets.                                                      *)

\* Of some subsets of a finite set, one has none of the others inside it.
LEMMA MinimalSubset ==
  ASSUME NEW T, IsFiniteSet(T), NEW bad, bad \subseteq SUBSET T, bad # {}
  PROVE  \E s \in bad : \A u \in bad : u \subseteq s => u = s
<1> DEFINE R == StrictSubsetOrdering(T)
<1>1. IsWellFoundedOn(R, SUBSET T)
  BY FS_StrictSubsetOrderingWellFounded, FS_FiniteSubsetsOfFinite
<1>2. \A u, s \in SUBSET T : u \subseteq s /\ u # s => <<u, s>> \in R
  BY DEF StrictSubsetOrdering
<1> HIDE DEF R
<1>3. PICK s \in bad : \A u \in bad : ~ (<<u, s>> \in R)
  BY <1>1, WFMin
<1> QED BY <1>2, <1>3

\* The element a sum adds first.
Chosen(s) == CHOOSE x \in s : TRUE

\* g gives the sum of f over every subset of S.
SumsOf(f, g, S) ==
  \A s \in SUBSET S : g[s] = IF s = {} THEN 0 ELSE f[Chosen(s)] + g[s \ {Chosen(s)}]

\* g is the table of these sums, and nothing else.
SumTable(f, g, S) == SumsOf(f, g, S) /\ g = [s \in SUBSET S |-> g[s]]

\* A set that is not empty has a chosen element, and is larger without it no more.
LEMMA ChosenProperty ==
  ASSUME NEW s, s # {}
  PROVE  Chosen(s) \in s /\ s \ {Chosen(s)} \subseteq s /\ s \ {Chosen(s)} # s
<1>1. Chosen(s) \in s
  BY DEF Chosen
<1> QED BY <1>1

\* Two ways to sum agree where both are defined.
LEMMA SumsUnique ==
  ASSUME NEW f, NEW T, IsFiniteSet(T), NEW S, S \subseteq T,
         NEW g, SumsOf(f, g, S), NEW h, SumsOf(f, h, T)
  PROVE  \A s \in SUBSET S : g[s] = h[s]
<1> DEFINE bad == {s \in SUBSET S : g[s] # h[s]}
<1> SUFFICES ASSUME bad # {} PROVE FALSE
  OBVIOUS
<1>1. IsFiniteSet(S)
  BY FS_Subset
<1>2. PICK s \in bad : \A u \in bad : u \subseteq s => u = s
  <2>1. bad \subseteq SUBSET S
    OBVIOUS
  <2> HIDE DEF bad
  <2> QED BY <1>1, <2>1, MinimalSubset
<1>3. s \subseteq S /\ g[s] # h[s]
  BY <1>2
<1>4. CASE s = {}
  BY <1>3, <1>4 DEF SumsOf
<1>5. CASE s # {}
  <2>1. s \ {Chosen(s)} \subseteq s /\ s \ {Chosen(s)} # s
    BY <1>5, ChosenProperty
  <2>2. g[s \ {Chosen(s)}] = h[s \ {Chosen(s)}]
    BY <1>2, <1>3, <2>1
  <2>3. /\ g[s] = f[Chosen(s)] + g[s \ {Chosen(s)}]
        /\ h[s] = f[Chosen(s)] + h[s \ {Chosen(s)}]
    BY <1>3, <1>5 DEF SumsOf
  <2> QED BY <1>3, <2>2, <2>3
<1> QED BY <1>4, <1>5

\* Every function has a sum over every finite set.
LEMMA SumsExist ==
  ASSUME NEW f, NEW T, IsFiniteSet(T)
  PROVE  \E g : SumTable(f, g, T)
<1> DEFINE bad == {s \in SUBSET T : ~ \E g : SumTable(f, g, s)}
<1> SUFFICES bad = {}
  OBVIOUS
<1> SUFFICES ASSUME bad # {} PROVE FALSE
  OBVIOUS
<1>1. PICK s \in bad : \A u \in bad : u \subseteq s => u = s
  <2>1. bad \subseteq SUBSET T
    OBVIOUS
  <2> HIDE DEF bad
  <2> QED BY <2>1, MinimalSubset
<1>2. s \subseteq T /\ ~ \E g : SumTable(f, g, s)
  BY <1>1
<1> DEFINE G(u) == CHOOSE g : SumTable(f, g, u)
<1>3. ASSUME NEW u, u \subseteq s, u # s PROVE SumsOf(f, G(u), u)
  <2>1. u \in SUBSET T /\ u \notin bad
    BY <1>1, <1>2, <1>3
  <2>2. \E g : SumTable(f, g, u)
    BY <2>1
  <2> QED BY <2>2 DEF SumTable
<1> HIDE DEF G, bad
<1> DEFINE h == [v \in SUBSET s |-> IF v = {} THEN 0
                                    ELSE f[Chosen(v)] + G(v \ {Chosen(v)})[v \ {Chosen(v)}]]
<1>4. ASSUME NEW v, v \subseteq s, v # {} PROVE h[v] = f[Chosen(v)] + h[v \ {Chosen(v)}]
  <2> DEFINE u == v \ {Chosen(v)}
             w == u \ {Chosen(u)}
  <2>1. u \subseteq s /\ u # s
    BY <1>4, ChosenProperty
  <2>2. SumsOf(f, G(u), u)
    BY <1>3, <2>1
  <2>3. h[u] = G(u)[u]
    <3>1. CASE u = {}
      <4>1. h[u] = 0
        BY <2>1, <3>1
      <4>2. G(u)[u] = 0
        BY <2>2, <3>1 DEF SumsOf
      <4> QED BY <4>1, <4>2
    <3>2. CASE u # {}
      <4>1. w \subseteq u /\ w # u
        BY <3>2, ChosenProperty
      <4>2. SumsOf(f, G(w), w)
        <5>1. w \subseteq s /\ w # s
          BY <2>1, <4>1
        <5> QED BY <1>3, <5>1
      <4>3. IsFiniteSet(u)
        BY <1>2, <2>1, FS_Subset
      <4> HIDE DEF w
      <4>4. G(w)[w] = G(u)[w]
        BY <2>2, <4>1, <4>2, <4>3, SumsUnique
      <4>5. h[u] = f[Chosen(u)] + G(w)[w]
        BY <2>1, <3>2 DEF w
      <4>6. G(u)[u] = f[Chosen(u)] + G(u)[w]
        BY <2>2, <3>2 DEF SumsOf, w
      <4> QED BY <4>4, <4>5, <4>6
    <3> QED BY <3>1, <3>2
  <2>4. h[v] = f[Chosen(v)] + G(u)[u]
    BY <1>4
  <2> QED BY <2>3, <2>4
<1>5. h[{}] = 0
  OBVIOUS
<1>6. h = [v \in SUBSET s |-> h[v]]
  OBVIOUS
<1> HIDE DEF h
<1>7. SumsOf(f, h, s)
  BY <1>4, <1>5 DEF SumsOf
<1> QED BY <1>2, <1>6, <1>7 DEF SumTable

\* What SumFunctionOnSet means: the sums over the subsets, taken at the whole set.
LEMMA SumIsSums ==
  ASSUME NEW f, NEW S, IsFiniteSet(S)
  PROVE  \E g : SumsOf(f, g, S) /\ SumFunctionOnSet(f, S) = g[S]
<1> DEFINE body(g, s) == IF s = {} THEN 0 ELSE f[Chosen(s)] + g[s \ {Chosen(s)}]
           fix(g) == g = [s \in SUBSET S |-> body(g, s)]
<1>1. \E g : fix(g)
  <2>1. PICK g : SumTable(f, g, S)
    BY SumsExist
  <2>2. g = [s \in SUBSET S |-> g[s]] /\ \A s \in SUBSET S : g[s] = body(g, s)
    BY <2>1 DEF SumTable, SumsOf
  <2>3. fix(g)
    BY <2>1, <2>2
  <2> QED BY <2>3
<1> DEFINE it == CHOOSE g : fix(g)
<1>2. fix(it)
  BY <1>1
<1>3. SumFunctionOnSet(f, S) = it[S]
  BY DEF SumFunctionOnSet, FoldFunctionOnSet, MapThenFoldSet, Chosen
<1> HIDE DEF it
<1>4. SumsOf(f, it, S)
  BY <1>2 DEF SumsOf
<1> QED BY <1>3, <1>4

-----------------------------------------------------------------------------
(* The laws of sums.                                                       *)

\* Nothing adds up to zero.
LEMMA SumEmpty == ASSUME NEW f PROVE SumFunctionOnSet(f, {}) = 0
<1>1. IsFiniteSet({})
  BY FS_EmptySet
<1>2. PICK g : SumsOf(f, g, {}) /\ SumFunctionOnSet(f, {}) = g[{}]
  BY <1>1, SumIsSums
<1> QED BY <1>2 DEF SumsOf

\* A sum is its chosen term and the sum of the rest.
LEMMA SumChosen ==
  ASSUME NEW f, NEW S, IsFiniteSet(S), S # {}
  PROVE  SumFunctionOnSet(f, S) = f[Chosen(S)] + SumFunctionOnSet(f, S \ {Chosen(S)})
<1> DEFINE R == S \ {Chosen(S)}
<1>1. R \subseteq S /\ IsFiniteSet(R)
  BY FS_Subset
<1>2. PICK g : SumsOf(f, g, S) /\ SumFunctionOnSet(f, S) = g[S]
  BY SumIsSums
<1>3. PICK h : SumsOf(f, h, R) /\ SumFunctionOnSet(f, R) = h[R]
  BY <1>1, SumIsSums
<1>4. g[S] = f[Chosen(S)] + g[R]
  BY <1>2 DEF SumsOf
<1> HIDE DEF R
<1>5. h[R] = g[R]
  <2>1. \A s \in SUBSET R : h[s] = g[s]
    BY <1>1, <1>2, <1>3, SumsUnique
  <2> QED BY <2>1
<1> QED BY <1>2, <1>3, <1>4, <1>5 DEF R

\* A sum of integers is an integer.
LEMMA SumInt ==
  ASSUME NEW f, NEW S, IsFiniteSet(S), \A x \in S : f[x] \in Int
  PROVE  SumFunctionOnSet(f, S) \in Int
<1> DEFINE bad == {s \in SUBSET S : SumFunctionOnSet(f, s) \notin Int}
<1> SUFFICES ASSUME bad # {} PROVE FALSE
  OBVIOUS
<1>1. bad \subseteq SUBSET S
  OBVIOUS
<1>2. PICK s \in bad : \A u \in bad : u \subseteq s => u = s
  <2> HIDE DEF bad
  <2> QED BY <1>1, MinimalSubset
<1>3. s \subseteq S /\ SumFunctionOnSet(f, s) \notin Int /\ IsFiniteSet(s)
  BY <1>2, FS_Subset
<1>4. s # {}
  BY <1>3, SumEmpty
<1>5. SumFunctionOnSet(f, s) = f[Chosen(s)] + SumFunctionOnSet(f, s \ {Chosen(s)})
  BY <1>3, <1>4, SumChosen
<1>6. Chosen(s) \in s /\ s \ {Chosen(s)} \subseteq s /\ s \ {Chosen(s)} # s
  BY <1>4, ChosenProperty
<1>7. SumFunctionOnSet(f, s \ {Chosen(s)}) \in Int
  BY <1>2, <1>3, <1>6
<1> QED BY <1>3, <1>5, <1>6, <1>7

\* Any term may be taken first.
LEMMA SumRemove ==
  ASSUME NEW f, NEW S, IsFiniteSet(S), \A y \in S : f[y] \in Int, NEW x \in S
  PROVE  SumFunctionOnSet(f, S) = f[x] + SumFunctionOnSet(f, S \ {x})
<1> DEFINE bad == {s \in SUBSET S : \E y \in s : SumFunctionOnSet(f, s) # f[y] + SumFunctionOnSet(f, s \ {y})}
<1> SUFFICES ASSUME bad # {} PROVE FALSE
  OBVIOUS
<1>1. bad \subseteq SUBSET S
  OBVIOUS
<1>2. PICK s \in bad : \A u \in bad : u \subseteq s => u = s
  <2> HIDE DEF bad
  <2> QED BY <1>1, MinimalSubset
<1>3. s \subseteq S /\ IsFiniteSet(s)
  BY <1>2, FS_Subset
<1>4. PICK y \in s : SumFunctionOnSet(f, s) # f[y] + SumFunctionOnSet(f, s \ {y})
  BY <1>2
<1> DEFINE c == Chosen(s)
<1>5. c \in s
  BY <1>4, ChosenProperty
<1>6. SumFunctionOnSet(f, s) = f[c] + SumFunctionOnSet(f, s \ {c})
  BY <1>3, <1>4, SumChosen
<1> HIDE DEF c
<1>7. y # c
  BY <1>4, <1>6
<1>8. /\ SumFunctionOnSet(f, s \ {c}) = f[y] + SumFunctionOnSet(f, (s \ {c}) \ {y})
      /\ SumFunctionOnSet(f, s \ {y}) = f[c] + SumFunctionOnSet(f, (s \ {y}) \ {c})
  <2>1. /\ s \ {c} \in SUBSET S /\ s \ {c} # s /\ y \in s \ {c}
        /\ s \ {y} \in SUBSET S /\ s \ {y} # s /\ c \in s \ {y}
    BY <1>3, <1>5, <1>7
  <2>2. s \ {c} \notin bad /\ s \ {y} \notin bad
    <3> HIDE DEF bad
    <3> QED BY <1>2, <2>1
  <2> QED BY <2>1, <2>2
<1>9. (s \ {c}) \ {y} = (s \ {y}) \ {c}
  OBVIOUS
<1>10. f[y] \in Int /\ f[c] \in Int /\ SumFunctionOnSet(f, (s \ {c}) \ {y}) \in Int
  <2>1. IsFiniteSet((s \ {c}) \ {y}) /\ \A z \in (s \ {c}) \ {y} : f[z] \in Int
    <3>1. (s \ {c}) \ {y} \subseteq S
      BY <1>3
    <3> QED BY <3>1, FS_Subset
  <2> QED BY <1>3, <1>5, <2>1, SumInt
<1> DEFINE rest == SumFunctionOnSet(f, (s \ {c}) \ {y})
<1>11. /\ SumFunctionOnSet(f, s) = f[c] + (f[y] + rest)
       /\ SumFunctionOnSet(f, s \ {y}) = f[c] + rest
       /\ rest \in Int
  BY <1>6, <1>8, <1>9, <1>10
<1> HIDE DEF rest, bad
<1> QED BY <1>4, <1>10, <1>11

\* A new term is added.
LEMMA SumAdd ==
  ASSUME NEW f, NEW S, IsFiniteSet(S), \A y \in S : f[y] \in Int, NEW x, x \notin S, f[x] \in Int
  PROVE  SumFunctionOnSet(f, S \cup {x}) = SumFunctionOnSet(f, S) + f[x]
<1> DEFINE T == S \cup {x}
<1>1. IsFiniteSet(T)
  BY FS_AddElement
<1>2. x \in T /\ T \ {x} = S /\ \A y \in T : f[y] \in Int
  OBVIOUS
<1>3. SumFunctionOnSet(f, S) \in Int
  BY SumInt
<1> HIDE DEF T
<1>4. SumFunctionOnSet(f, T) = f[x] + SumFunctionOnSet(f, T \ {x})
  BY <1>1, <1>2, SumRemove
<1>5. SumFunctionOnSet(f, T) = f[x] + SumFunctionOnSet(f, S)
  BY <1>2, <1>4
<1> DEFINE total == SumFunctionOnSet(f, S)
<1>6. f[x] + total = total + f[x]
  <2>1. total \in Int
    BY <1>3
  <2> HIDE DEF total
  <2> QED BY <2>1
<1> QED BY <1>5, <1>6 DEF T

\* Equal terms have equal sums.
LEMMA SumEqual ==
  ASSUME NEW f, NEW g, NEW S, IsFiniteSet(S), \A x \in S : f[x] = g[x]
  PROVE  SumFunctionOnSet(f, S) = SumFunctionOnSet(g, S)
<1> DEFINE bad == {s \in SUBSET S : SumFunctionOnSet(f, s) # SumFunctionOnSet(g, s)}
<1> SUFFICES ASSUME bad # {} PROVE FALSE
  OBVIOUS
<1>1. bad \subseteq SUBSET S
  OBVIOUS
<1>2. PICK s \in bad : \A u \in bad : u \subseteq s => u = s
  <2> HIDE DEF bad
  <2> QED BY <1>1, MinimalSubset
<1>3. s \subseteq S /\ SumFunctionOnSet(f, s) # SumFunctionOnSet(g, s) /\ IsFiniteSet(s)
  BY <1>2, FS_Subset
<1>4. s # {}
  BY <1>3, SumEmpty
<1>5. /\ SumFunctionOnSet(f, s) = f[Chosen(s)] + SumFunctionOnSet(f, s \ {Chosen(s)})
      /\ SumFunctionOnSet(g, s) = g[Chosen(s)] + SumFunctionOnSet(g, s \ {Chosen(s)})
  BY <1>3, <1>4, SumChosen
<1>6. Chosen(s) \in s /\ s \ {Chosen(s)} \subseteq s /\ s \ {Chosen(s)} # s
  BY <1>4, ChosenProperty
<1>7. SumFunctionOnSet(f, s \ {Chosen(s)}) = SumFunctionOnSet(g, s \ {Chosen(s)})
  BY <1>2, <1>3, <1>6
<1> QED BY <1>3, <1>5, <1>6, <1>7

\* One term changes.
LEMMA SumUpdate ==
  ASSUME NEW f, NEW g, NEW S, IsFiniteSet(S), \A y \in S : f[y] \in Int /\ g[y] \in Int,
         NEW x \in S, \A y \in S \ {x} : g[y] = f[y]
  PROVE  SumFunctionOnSet(g, S) = (SumFunctionOnSet(f, S) - f[x]) + g[x]
<1> DEFINE R == S \ {x}
<1>1. IsFiniteSet(R)
  BY FS_Subset
<1>2. SumFunctionOnSet(f, R) \in Int
  BY <1>1, SumInt
<1>3. SumFunctionOnSet(g, R) = SumFunctionOnSet(f, R)
  BY <1>1, SumEqual
<1>4. SumFunctionOnSet(f, S) = f[x] + SumFunctionOnSet(f, R)
  BY SumRemove
<1>5. SumFunctionOnSet(g, S) = g[x] + SumFunctionOnSet(g, R)
  BY SumRemove
<1> HIDE DEF R
<1> QED BY <1>2, <1>3, <1>4, <1>5

\* Terms that are not negative: neither is the sum.
LEMMA SumNat ==
  ASSUME NEW f, NEW S, IsFiniteSet(S), \A x \in S : f[x] \in Nat
  PROVE  SumFunctionOnSet(f, S) \in Nat
<1> DEFINE bad == {s \in SUBSET S : SumFunctionOnSet(f, s) \notin Nat}
<1> SUFFICES ASSUME bad # {} PROVE FALSE
  OBVIOUS
<1>1. bad \subseteq SUBSET S
  OBVIOUS
<1>2. PICK s \in bad : \A u \in bad : u \subseteq s => u = s
  <2> HIDE DEF bad
  <2> QED BY <1>1, MinimalSubset
<1>3. s \subseteq S /\ SumFunctionOnSet(f, s) \notin Nat /\ IsFiniteSet(s)
  BY <1>2, FS_Subset
<1>4. s # {}
  BY <1>3, SumEmpty
<1>5. SumFunctionOnSet(f, s) = f[Chosen(s)] + SumFunctionOnSet(f, s \ {Chosen(s)})
  BY <1>3, <1>4, SumChosen
<1>6. Chosen(s) \in s /\ s \ {Chosen(s)} \subseteq s /\ s \ {Chosen(s)} # s
  BY <1>4, ChosenProperty
<1>7. SumFunctionOnSet(f, s \ {Chosen(s)}) \in Nat
  BY <1>2, <1>3, <1>6
<1> QED BY <1>3, <1>5, <1>6, <1>7

\* And no term exceeds it.
LEMMA SumElement ==
  ASSUME NEW f, NEW S, IsFiniteSet(S), \A y \in S : f[y] \in Nat, NEW x \in S
  PROVE  f[x] <= SumFunctionOnSet(f, S)
<1>1. SumFunctionOnSet(f, S) = f[x] + SumFunctionOnSet(f, S \ {x})
  BY SumRemove
<1>2. IsFiniteSet(S \ {x})
  BY FS_Subset
<1>3. SumFunctionOnSet(f, S \ {x}) \in Nat
  BY <1>2, SumNat
<1> QED BY <1>1, <1>3

\* Terms that move up by one place add up to the same.
LEMMA SumShift ==
  ASSUME NEW f, NEW g, NEW n \in Nat, \A i \in 1 .. n : g[i] = f[i + 1] /\ g[i] \in Int
  PROVE  SumFunctionOnSet(g, 1 .. n) = SumFunctionOnSet(f, 2 .. n + 1)
<1> DEFINE up(s) == {i + 1 : i \in s}
           bad == {s \in SUBSET (1 .. n) : SumFunctionOnSet(g, s) # SumFunctionOnSet(f, up(s))}
<1>1. IsFiniteSet(1 .. n) /\ IsFiniteSet(2 .. n + 1)
  BY FS_Interval
<1>2. up(1 .. n) = 2 .. n + 1
  <2>1. \A i \in 2 .. n + 1 : i - 1 \in 1 .. n /\ i = (i - 1) + 1
    OBVIOUS
  <2> QED BY <2>1
<1>3. bad = {}
  <2> SUFFICES ASSUME bad # {} PROVE FALSE
    OBVIOUS
  <2>1. bad \subseteq SUBSET (1 .. n)
    OBVIOUS
  <2>2. PICK s \in bad : \A u \in bad : u \subseteq s => u = s
    <3> DEFINE N == 1 .. n
    <3>1. IsFiniteSet(N) /\ bad \subseteq SUBSET N
      BY <1>1, <2>1
    <3> HIDE DEF bad, N
    <3> QED BY <3>1, MinimalSubset
  <2>3. s \subseteq 1 .. n /\ SumFunctionOnSet(g, s) # SumFunctionOnSet(f, up(s)) /\ IsFiniteSet(s)
    BY <1>1, <2>2, FS_Subset
  <2>4. s # {}
    <3>1. up({}) = {}
      OBVIOUS
    <3> QED BY <2>3, <3>1, SumEmpty
  <2> DEFINE c == Chosen(s)
             r == s \ {c}
  <2>5. c \in s /\ r \subseteq s /\ r # s
    BY <2>4, ChosenProperty
  <2>6. SumFunctionOnSet(g, s) = g[c] + SumFunctionOnSet(g, r)
    BY <2>3, <2>4, SumChosen
  <2> HIDE DEF c
  <2>7. SumFunctionOnSet(g, r) = SumFunctionOnSet(f, up(r))
    <3>1. r \in SUBSET (1 .. n) /\ r \notin bad
      <4> HIDE DEF bad
      <4> QED BY <2>2, <2>3, <2>5
    <3> QED BY <3>1
  <2>8. up(s) \ {c + 1} = up(r) /\ c + 1 \in up(s)
    <3>1. c \in Int /\ \A i \in s : i \in Int
      BY <2>3, <2>5
    <3> QED BY <2>5, <3>1
  <2>9. up(s) \subseteq 2 .. n + 1 /\ \A i \in up(s) : f[i] \in Int
    BY <2>3
  <2>10. IsFiniteSet(up(s))
    BY <1>1, <2>9, FS_Subset
  <2> HIDE DEF up, r
  <2>11. SumFunctionOnSet(f, up(s)) = f[c + 1] + SumFunctionOnSet(f, up(r))
    BY <2>8, <2>9, <2>10, SumRemove
  <2>12. g[c] = f[c + 1]
    BY <2>3, <2>5
  <2> QED BY <2>3, <2>6, <2>7, <2>11, <2>12
<1>4. 1 .. n \notin bad /\ 1 .. n \in SUBSET (1 .. n)
  BY <1>3
<1>5. SumFunctionOnSet(g, 1 .. n) = SumFunctionOnSet(f, up(1 .. n))
  BY <1>4
<1> HIDE DEF up
<1> QED BY <1>2, <1>5

-----------------------------------------------------------------------------
(* Sums over a queue.                                                      *)

\* What the elements of a sequence weigh together, each as the function w says.
SeqSum(w, s) == SumFunction([i \in DOMAIN s |-> w[s[i]]])

\* The sum as one over an interval of positions.
LEMMA SeqSumInterval ==
  ASSUME NEW w, NEW S, NEW s \in Seq(S)
  PROVE  SeqSum(w, s) = SumFunctionOnSet([i \in 1 .. Len(s) |-> w[s[i]]], 1 .. Len(s))
<1>1. DOMAIN s = 1 .. Len(s)
  OBVIOUS
<1> QED BY <1>1 DEF SeqSum, SumFunction

\* Integers weigh an integer.
LEMMA SeqSumInt ==
  ASSUME NEW w, NEW S, NEW s \in Seq(S), \A x \in S : w[x] \in Int
  PROVE  SeqSum(w, s) \in Int
<1> DEFINE N == 1 .. Len(s)
           f == [i \in N |-> w[s[i]]]
<1>1. \A i \in N : f[i] \in Int
  OBVIOUS
<1>2. IsFiniteSet(N)
  BY FS_Interval
<1>3. SeqSum(w, s) = SumFunctionOnSet(f, N)
  BY SeqSumInterval
<1> HIDE DEF f, N
<1> QED BY <1>1, <1>2, <1>3, SumInt

\* Natural numbers weigh a natural number, and no element weighs more.
LEMMA SeqSumNat ==
  ASSUME NEW w, NEW S, NEW s \in Seq(S), \A x \in S : w[x] \in Nat
  PROVE  /\ SeqSum(w, s) \in Nat
         /\ \A i \in DOMAIN s : w[s[i]] <= SeqSum(w, s)
<1> DEFINE N == 1 .. Len(s)
           f == [i \in N |-> w[s[i]]]
<1>1. \A i \in N : f[i] \in Nat
  OBVIOUS
<1>2. IsFiniteSet(N)
  BY FS_Interval
<1>3. SeqSum(w, s) = SumFunctionOnSet(f, N)
  BY SeqSumInterval
<1>4. \A i \in DOMAIN s : i \in N /\ f[i] = w[s[i]]
  OBVIOUS
<1> HIDE DEF f, N
<1>5. SumFunctionOnSet(f, N) \in Nat
  BY <1>1, <1>2, SumNat
<1>6. \A i \in N : f[i] <= SumFunctionOnSet(f, N)
  BY <1>1, <1>2, SumElement
<1> QED BY <1>3, <1>4, <1>5, <1>6

\* Weightless elements weigh nothing together.
LEMMA SeqSumZero ==
  ASSUME NEW w, NEW S, NEW s \in Seq(S), \A i \in DOMAIN s : w[s[i]] = 0
  PROVE  SeqSum(w, s) = 0
<1> DEFINE N == 1 .. Len(s)
           f == [i \in N |-> w[s[i]]]
<1>1. \A i \in N : f[i] = 0
  OBVIOUS
<1>2. IsFiniteSet(N)
  <2>1. 1 \in Int /\ Len(s) \in Int
    OBVIOUS
  <2> QED BY <2>1, FS_Interval
<1>3. SeqSum(w, s) = SumFunctionOnSet(f, N)
  BY SeqSumInterval
<1> HIDE DEF f, N
<1> DEFINE bad == {u \in SUBSET N : SumFunctionOnSet(f, u) # 0}
<1> SUFFICES ASSUME bad # {} PROVE FALSE
  BY <1>3
<1>4. bad \subseteq SUBSET N
  OBVIOUS
<1>5. PICK u \in bad : \A v \in bad : v \subseteq u => v = u
  <2> HIDE DEF bad
  <2> QED BY <1>2, <1>4, MinimalSubset
<1>6. u \subseteq N /\ SumFunctionOnSet(f, u) # 0 /\ IsFiniteSet(u)
  BY <1>2, <1>5, FS_Subset
<1>7. u # {}
  BY <1>6, SumEmpty
<1>8. SumFunctionOnSet(f, u) = f[Chosen(u)] + SumFunctionOnSet(f, u \ {Chosen(u)})
  BY <1>6, <1>7, SumChosen
<1>9. Chosen(u) \in u /\ u \ {Chosen(u)} \subseteq u /\ u \ {Chosen(u)} # u
  BY <1>7, ChosenProperty
<1>10. SumFunctionOnSet(f, u \ {Chosen(u)}) = 0 /\ f[Chosen(u)] = 0
  BY <1>1, <1>5, <1>6, <1>9
<1> QED BY <1>6, <1>8, <1>10

\* An element queued adds its weight.
LEMMA SeqSumAppend ==
  ASSUME NEW w, NEW S, NEW s \in Seq(S), \A x \in S : w[x] \in Int, NEW r \in S
  PROVE  SeqSum(w, Append(s, r)) = SeqSum(w, s) + w[r]
<1> DEFINE n == Len(s)
           t == Append(s, r)
           f == [i \in 1 .. n |-> w[s[i]]]
           g == [i \in 1 .. n + 1 |-> w[t[i]]]
<1>1. n \in Nat /\ t \in Seq(S) /\ Len(t) = n + 1
  OBVIOUS
<1>2. SeqSum(w, s) = SumFunctionOnSet(f, 1 .. n) /\ SeqSum(w, t) = SumFunctionOnSet(g, 1 .. n + 1)
  BY <1>1, SeqSumInterval
<1>3. /\ \A i \in 1 .. n : f[i] = g[i] /\ g[i] \in Int
      /\ g[n + 1] = w[r] /\ g[n + 1] \in Int
  OBVIOUS
<1>4. IsFiniteSet(1 .. n)
  BY <1>1, FS_Interval
<1>5. 1 .. n + 1 = (1 .. n) \cup {n + 1} /\ n + 1 \notin 1 .. n
  BY <1>1
<1> HIDE DEF f, g, n, t
<1>6. SumFunctionOnSet(f, 1 .. n) = SumFunctionOnSet(g, 1 .. n)
  <2> DEFINE N == 1 .. n
  <2>1. IsFiniteSet(N) /\ \A i \in N : f[i] = g[i]
    BY <1>3, <1>4
  <2> HIDE DEF N
  <2>2. SumFunctionOnSet(f, N) = SumFunctionOnSet(g, N)
    BY <2>1, SumEqual
  <2> QED BY <2>2 DEF N
<1>7. SumFunctionOnSet(g, (1 .. n) \cup {n + 1}) = SumFunctionOnSet(g, 1 .. n) + g[n + 1]
  <2> DEFINE N == 1 .. n
             m == n + 1
  <2>1. IsFiniteSet(N) /\ m \notin N /\ g[m] \in Int /\ \A i \in N : g[i] \in Int
    BY <1>3, <1>4, <1>5
  <2> HIDE DEF N, m
  <2>2. SumFunctionOnSet(g, N \cup {m}) = SumFunctionOnSet(g, N) + g[m]
    BY <2>1, SumAdd
  <2> QED BY <2>2 DEF N, m
<1>8. SeqSum(w, t) = SeqSum(w, s) + w[r]
  BY <1>2, <1>3, <1>5, <1>6, <1>7
<1> QED BY <1>8 DEF t

\* An element taken off the front takes its weight away.
LEMMA SeqSumTail ==
  ASSUME NEW w, NEW S, NEW s \in Seq(S), \A x \in S : w[x] \in Int, s # <<>>
  PROVE  SeqSum(w, s) = w[Head(s)] + SeqSum(w, Tail(s))
<1> DEFINE n == Len(s) - 1
           t == Tail(s)
           f == [i \in 1 .. n + 1 |-> w[s[i]]]
           g == [i \in 1 .. n |-> w[t[i]]]
<1>1. n \in Nat /\ t \in Seq(S) /\ Len(t) = n /\ Len(s) = n + 1
  OBVIOUS
<1>2. SeqSum(w, s) = SumFunctionOnSet(f, 1 .. n + 1) /\ SeqSum(w, t) = SumFunctionOnSet(g, 1 .. n)
  BY <1>1, SeqSumInterval
<1>3. /\ \A i \in 1 .. n : g[i] = f[i + 1] /\ g[i] \in Int
      /\ \A i \in 1 .. n + 1 : f[i] \in Int
      /\ f[1] = w[Head(s)]
  BY <1>1
<1>4. IsFiniteSet(1 .. n + 1)
  BY <1>1, FS_Interval
<1>5. (1 .. n + 1) \ {1} = 2 .. n + 1 /\ 1 \in 1 .. n + 1
  BY <1>1
<1> HIDE DEF f, g, n, t
<1>6. SumFunctionOnSet(g, 1 .. n) = SumFunctionOnSet(f, 2 .. n + 1)
  BY <1>1, <1>3, SumShift
<1>7. SumFunctionOnSet(f, 1 .. n + 1) = f[1] + SumFunctionOnSet(f, (1 .. n + 1) \ {1})
  <2> DEFINE N == 1 .. n + 1
  <2>1. IsFiniteSet(N) /\ 1 \in N /\ \A i \in N : f[i] \in Int
    BY <1>3, <1>4, <1>5
  <2> HIDE DEF N
  <2>2. SumFunctionOnSet(f, N) = f[1] + SumFunctionOnSet(f, N \ {1})
    BY <2>1, SumRemove
  <2> QED BY <2>2 DEF N
<1>8. SeqSum(w, s) = w[Head(s)] + SeqSum(w, t)
  BY <1>2, <1>3, <1>5, <1>6, <1>7
<1> QED BY <1>8 DEF t

-----------------------------------------------------------------------------
(* Types.                                                                   *)

\* Functions from some natural numbers into S.
Tables(S) == UNION {[D -> S] : D \in SUBSET Nat}

Request == [id : Nat, order_type : OrderType, algo : PassiveExecutionAlgo, volume : Nat,
            dprice : Nat, orig : Nat]

Reports == [internal_order_id : Nat,
            new_state : {"TraderError", "BrokerAccepted", "BrokerRejected", "MarketAccepted", "Finished"},
            volume_traded : Nat, cancelled_volume : Nat]

BookEntry == [order_type : OrderType, parent_order_id : Nat, orig_internal_order_id : Nat,
              volume_entrust : Nat, volume_traded : Nat, volume_remain : Nat,
              order_state : OrderState,
              execution_state : {"None", "Running", "Cancelling", "Failed", "Finished"},
              working_volume : Nat, schedulable_volume : Nat]

Ledger == [entrust : Nat \ {0}, traded : Nat, cancelled : Nat, finalized : BOOLEAN, state : OrderState]

Session == [algo : SupportedStrategies, target : Nat, dprice : Nat, age : Nat,
            ledgers : Tables(Ledger), cancel_requested : BOOLEAN, failed : BOOLEAN,
            terminal : BOOLEAN, slice : Nat, slice_consumed : BOOLEAN, last_publication : Nat]

BrokerOrder == [phase : {"received", "working", "done"}, entrust : Nat, filled : Nat]

\* The ids of the children, parent by parent.
Lineages == Tables(Seq(Nat))

Loops == [phase : {"orders", "responses", "start", "tick"}, todo : SUBSET Nat, fallback : Nat]

Counters == publication \in Nat /\ requests \in Nat /\ pool \in 0 .. PoolCapacity /\ loop \in Loops

Typed(n, up, dn, rs, bk, ch, ss, br) ==
  /\ n \in Nat \ {0}
  /\ up \in Seq(Request) /\ dn \in Seq(Nat) /\ rs \in Seq(Reports)
  /\ bk \in Tables(BookEntry) /\ ch \in Lineages
  /\ ss \in Tables(Session) /\ br \in Tables(BrokerOrder)

Bounded(dn, bk) ==
  /\ Cardinality(DOMAIN bk) <= BookCapacity
  /\ Len(dn) <= DownstreamBound

-----------------------------------------------------------------------------
(* Identities: an id is a request's, a parent's or a cancel's, or a child's of one parent. *)

\* The children of p, in the order they were sent, and as a set.
Sent(ch, p) == IF p \in DOMAIN ch THEN ch[p] ELSE <<>>
Kids(ch, p) == Range(Sent(ch, p))

Issued(n) == 1 .. n - 1

Families(n, ch) ==
  /\ DOMAIN ch \subseteq Issued(n)
  /\ \A p \in DOMAIN ch :
       /\ Kids(ch, p) \subseteq Issued(n)
       /\ \A i, j \in DOMAIN ch[p] : ch[p][i] = ch[p][j] => i = j
       /\ Kids(ch, p) \cap DOMAIN ch = {}
  /\ \A p, q \in DOMAIN ch : p # q => Kids(ch, p) \cap Kids(ch, q) = {}

\* Requests have ids of their own that nothing else knows yet.
Waiters(n, up, bk, ch) ==
  /\ \A i \in DOMAIN up :
       /\ up[i].id \in Issued(n)
       /\ up[i].id \notin DOMAIN bk /\ up[i].id \notin DOMAIN ch
       /\ \A p \in DOMAIN ch : up[i].id \notin Kids(ch, p)
       /\ up[i].order_type = "New" => up[i].volume # 0
  /\ \A i, j \in DOMAIN up : up[i].id = up[j].id => i = j

\* A parent stays in the book.
Parented(n, bk, ch, ss) ==
  /\ DOMAIN bk \subseteq Issued(n)
  /\ DOMAIN ch \subseteq DOMAIN bk
  /\ DOMAIN ss \subseteq DOMAIN bk
  /\ \A p \in DOMAIN ch \cup DOMAIN ss : bk[p].order_type = "New"
  /\ \A p \in DOMAIN ch : Kids(ch, p) \cap DOMAIN ss = {}

-----------------------------------------------------------------------------
(* The way of a child: downstream, broker, responses.                       *)

\* The volume of c's trades that wait for the loop.
Queued(rs, c) ==
  SumFunction([i \in DOMAIN rs |-> IF rs[i].internal_order_id = c THEN rs[i].volume_traded ELSE 0])

Quiet(rs, c) == \A i \in DOMAIN rs : rs[i].internal_order_id # c

Live(bk, c) == c \in DOMAIN bk /\ bk[c].order_state \notin TerminalState

\* Every order on its way belongs to a parent.
Belongs(dn, rs, br, ch) ==
  /\ \A c \in DOMAIN br \cup Range(dn) : \E p \in DOMAIN ch : c \in Kids(ch, p)
  /\ \A i \in DOMAIN rs : \E p \in DOMAIN ch : rs[i].internal_order_id \in Kids(ch, p)

\* What the broker and the gateway report of an order comes in the order's own order.
Reported(rs, br) ==
  /\ \A i, j \in DOMAIN rs :
       i < j /\ rs[i].internal_order_id = rs[j].internal_order_id =>
         rs[i].new_state \notin TerminalState /\ rs[j].new_state # "BrokerAccepted"
  /\ \A i \in DOMAIN rs :
       LET c == rs[i].internal_order_id IN
       /\ rs[i].new_state = "MarketAccepted" <=> rs[i].volume_traded # 0
       /\ rs[i].new_state \in TerminalState => (c \in DOMAIN br => br[c].phase = "done")
       /\ rs[i].new_state \notin TerminalState => c \in DOMAIN br /\ br[c].phase # "received"
       /\ rs[i].new_state = "BrokerAccepted" => Queued(rs, c) = br[c].filled

\* An order with the broker.
AtBroker(rs, br) ==
  \A c \in DOMAIN br :
    /\ br[c].entrust # 0 /\ br[c].filled <= br[c].entrust
    /\ Queued(rs, c) <= br[c].filled
    /\ br[c].phase = "received" => Quiet(rs, c) /\ br[c].filled = 0

\* An order on its way to the broker.
OnItsWay(dn, rs, br, bk) ==
  /\ \A i, j \in DOMAIN dn : dn[i] = dn[j] => i = j
  /\ \A c \in Range(dn) :
       c \notin DOMAIN br /\ Quiet(rs, c) /\ Live(bk, c)

\* What the book says of a child.
ChildEntry(c, rs, br, bk) ==
  /\ bk[c].order_type = "New" /\ bk[c].volume_entrust # 0
  /\ c \in DOMAIN br => /\ bk[c].volume_entrust = br[c].entrust
                        /\ bk[c].volume_remain + br[c].filled = br[c].entrust + Queued(rs, c)
  /\ c \notin DOMAIN br => bk[c].volume_remain = bk[c].volume_entrust
  /\ Live(bk, c) => bk[c].volume_remain # 0
  /\ bk[c].order_state \in TerminalState /\ c \in DOMAIN br =>
       bk[c].volume_remain = 0 \/ (Quiet(rs, c) /\ br[c].phase = "done")

Booked(rs, br, bk, ch) ==
  \A p \in DOMAIN ch : \A c \in Kids(ch, p) \cap DOMAIN bk : ChildEntry(c, rs, br, bk)

\* A parent has one child at a time that the book thinks alive.
OneLive(bk, ch) ==
  \A p \in DOMAIN ch : \A c, d \in Kids(ch, p) : Live(bk, c) /\ Live(bk, d) => c = d

-----------------------------------------------------------------------------
(* Sessions.                                                                *)

\* The volume a child may still stand for in the session's eyes.
Committed(l) == IF l.finalized THEN l.traded ELSE l.entrust
CommittedVolume(s) == SumFunction([c \in DOMAIN s.ledgers |-> Committed(s.ledgers[c])])

\* The session's ledger of c against the book, the queues and the broker.
LedgerTrue(l, c, dn, rs, br, bk) ==
  /\ l.traded + l.cancelled <= l.entrust
  /\ ~ l.finalized => l.cancelled = 0
  /\ c \in DOMAIN br => br[c].entrust = l.entrust /\ l.traded + Queued(rs, c) = br[c].filled
  /\ c \notin DOMAIN br => l.traded = 0
  /\ c \in DOMAIN bk => bk[c].volume_entrust = l.entrust
  /\ l.finalized => /\ c \notin Range(dn) /\ Quiet(rs, c)
                    /\ c \in DOMAIN br => br[c].phase = "done"
                    /\ ~ Live(bk, c)

Ledgers(p, s, dn, rs, br, bk, ch) ==
  /\ DOMAIN s.ledgers \subseteq Kids(ch, p)
  /\ \A c \in DOMAIN s.ledgers : LedgerTrue(s.ledgers[c], c, dn, rs, br, bk)
  /\ \A c \in Kids(ch, p) : c \notin DOMAIN s.ledgers =>
       c \notin Range(dn) /\ c \notin DOMAIN br /\ Quiet(rs, c) /\ ~ Live(bk, c)

\* The slices sent so far, and what the first n slices add up to.
Slices(s) == IF s.slice_consumed THEN s.slice ELSE s.slice - 1
SliceCount(volume) == Smaller((volume + ClipVolume - 1) \div ClipVolume, MaxChildCount)
FirstSlices(volume, n) ==
  n * (volume \div SliceCount(volume)) + Smaller(n, volume % SliceCount(volume))

\* A TWAP sends one child for each slice, never more than the slice.  Only an active
\* child may be smaller.
Sliced(s) ==
  /\ Cardinality(DOMAIN s.ledgers) = Slices(s)
  /\ SentVolume(s) <= FirstSlices(s.target, Slices(s))
  /\ ActiveStrategy \/ SentVolume(s) = FirstSlices(s.target, Slices(s))

\* What the session keeps for itself.
Schedule(s) ==
  /\ s.target # 0
  /\ ~ s.cancel_requested
  /\ CommittedVolume(s) <= s.target
  /\ s.slice \in 1 .. SliceCount(s.target) + 1
  /\ s.slice_consumed => s.algo = "TWAP" /\ s.slice <= SliceCount(s.target)
  /\ s.algo = "TWAP" /\ ~ s.slice_consumed => WorkingVolume(s) = 0
  /\ s.algo = "TWAP" => SliceCount(s.target) # 0
  /\ s.algo = "TWAP" /\ ~ s.failed => Sliced(s)
  /\ s.terminal /\ ~ s.failed => WorkingVolume(s) = 0 /\ FullyWorked(s)

\* What the session may take for its next child.
Takes(s, volume) == volume \in 1 .. Budget(s) /\ (ActiveStrategy \/ volume = Budget(s))

\* The fills of the children in kids that the loop has handled.
HandledOf(kids, rs, br) ==
  SumFunction([c \in kids \cap DOMAIN br |-> br[c].filled])
  - SumFunction([i \in DOMAIN rs |-> IF rs[i].internal_order_id \in kids THEN rs[i].volume_traded ELSE 0])

SessionTrue(p, s, dn, rs, br, bk, ch) ==
  /\ Ledgers(p, s, dn, rs, br, bk, ch)
  /\ Schedule(s)
  /\ s.target = bk[p].volume_entrust
  /\ ConfirmedTraded(s) = HandledOf(Kids(ch, p), rs, br)

Worked(dn, rs, br, bk, ch, ss) ==
  \A p \in DOMAIN ss : SessionTrue(p, ss[p], dn, rs, br, bk, ch)

-----------------------------------------------------------------------------
(* Parents whose session is over.                                           *)

\* What c may yet come to, as Exposure.
ExposureOf(c, br, bk) ==
  IF c \notin DOMAIN br THEN bk[c].volume_entrust
  ELSE IF br[c].phase = "done" THEN br[c].filled ELSE br[c].entrust

SentOut(kids, dn, br) == {c \in kids : c \in DOMAIN br \/ c \in Range(dn)}

ExposureSum(kids, dn, br, bk) ==
  SumFunction([c \in SentOut(kids, dn, br) |-> ExposureOf(c, br, bk)])

NoMoreFills(c, dn, rs, br) ==
  /\ c \notin Range(dn)
  /\ Queued(rs, c) = 0
  /\ c \in DOMAIN br => br[c].phase = "done" \/ br[c].filled = br[c].entrust

Over(p, dn, rs, br, bk, ch) ==
  /\ ExposureSum(Kids(ch, p), dn, br, bk) <= bk[p].volume_entrust
  /\ bk[p].order_state # "TraderError" =>
       /\ bk[p].volume_traded = HandledOf(Kids(ch, p), rs, br)
       /\ \A c \in Kids(ch, p) : NoMoreFills(c, dn, rs, br)

Ended(dn, rs, br, bk, ch, ss) ==
  \A p \in DOMAIN ch \ DOMAIN ss : Over(p, dn, rs, br, bk, ch)

\* Everything but the loop's turn.
Sound(n, up, dn, rs, bk, ch, ss, br) ==
  /\ Typed(n, up, dn, rs, bk, ch, ss, br)
  /\ Bounded(dn, bk)
  /\ Families(n, ch)
  /\ Waiters(n, up, bk, ch)
  /\ Parented(n, bk, ch, ss)
  /\ Belongs(dn, rs, br, ch)
  /\ Reported(rs, br)
  /\ AtBroker(rs, br)
  /\ OnItsWay(dn, rs, br, bk)
  /\ Booked(rs, br, bk, ch)
  /\ OneLive(bk, ch)
  /\ Worked(dn, rs, br, bk, ch, ss)
  /\ Ended(dn, rs, br, bk, ch, ss)

-----------------------------------------------------------------------------
(* The loop's turn.                                                         *)

\* The session s of p against the entry e the book has of p.
Mirrored(p, s, lp, e) ==
  /\ p \notin lp.todo /\ lp.phase # "responses" => e.volume_traded = ConfirmedTraded(s)
  /\ s.terminal /\ ~ s.failed => lp.phase = "tick" /\ p \notin lp.todo
  /\ s.terminal /\ s.failed /\ lp.phase = "tick" /\ p \notin lp.todo => e.order_state = "TraderError"

\* A session that has just been started.
Fresh(s) == DOMAIN s.ledgers = {} /\ s.slice = 1 /\ ~ s.slice_consumed

\* The session s, whose entry is e, between its active and its passive attempt.
Retried(s, e) ==
  /\ s.failed /\ s.terminal /\ ~ s.slice_consumed
  /\ WorkingVolume(s) = 0 /\ Budget(s) > 0
  /\ e.order_state = "TraderError" /\ e.volume_traded = ConfirmedTraded(s)

Turn(lp, ss, bk) ==
  /\ lp.todo \subseteq DOMAIN ss
  /\ lp.phase \in {"orders", "responses"} => lp.todo = {}
  /\ lp.fallback # NoOne => lp.fallback \in lp.todo /\ Retried(ss[lp.fallback], bk[lp.fallback])
  /\ lp.phase = "start" => \A p \in lp.todo : lp.todo = {p} /\ (ss[p].failed \/ Fresh(ss[p]))
  /\ \A p \in DOMAIN ss : Mirrored(p, ss[p], lp, bk[p])

Inv ==
  /\ Counters
  /\ Sound(next_order_id, upstream, downstream, responses, book, children, sessions, broker)
  /\ Turn(loop, sessions, book)

-----------------------------------------------------------------------------
(* Tables.                                                                  *)

\* What a table is: a function on some natural numbers with values in S.
LEMMA TableFacts ==
  ASSUME NEW S, NEW f \in Tables(S)
  PROVE  /\ f = [x \in DOMAIN f |-> f[x]] /\ DOMAIN f \subseteq Nat
         /\ \A x \in DOMAIN f : f[x] \in S
<1>1. PICK D \in SUBSET Nat : f \in [D -> S]
  BY DEF Tables
<1> QED BY <1>1

\* A function on natural numbers with values in S is a table.
LEMMA TableIntro ==
  ASSUME NEW S, NEW f, f = [x \in DOMAIN f |-> f[x]], DOMAIN f \subseteq Nat,
         \A x \in DOMAIN f : f[x] \in S
  PROVE  f \in Tables(S)
<1>1. f \in [DOMAIN f -> S]
  OBVIOUS
<1>2. [DOMAIN f -> S] \in {[D -> S] : D \in SUBSET Nat}
  OBVIOUS
<1> QED BY <1>1, <1>2 DEF Tables

\* Put adds or replaces one entry and leaves the others.
LEMMA PutFacts ==
  ASSUME NEW f, NEW k, NEW v
  PROVE  /\ DOMAIN Put(f, k, v) = DOMAIN f \cup {k}
         /\ Put(f, k, v)[k] = v
         /\ \A x \in DOMAIN f \ {k} : Put(f, k, v)[x] = f[x]
         /\ Put(f, k, v) = [x \in DOMAIN Put(f, k, v) |-> Put(f, k, v)[x]]
BY DEF Put

\* Put keeps a table a table.
LEMMA PutTable ==
  ASSUME NEW S, NEW f \in Tables(S), NEW k \in Nat, NEW v \in S
  PROVE  Put(f, k, v) \in Tables(S)
<1>1. /\ DOMAIN f \subseteq Nat /\ \A x \in DOMAIN f : f[x] \in S
  BY TableFacts
<1> DEFINE g == Put(f, k, v)
<1>2. /\ DOMAIN g = DOMAIN f \cup {k} /\ g[k] = v /\ \A x \in DOMAIN f \ {k} : g[x] = f[x]
      /\ g = [x \in DOMAIN g |-> g[x]]
  BY DEF Put
<1> HIDE DEF g
<1>3. /\ DOMAIN g \subseteq Nat /\ \A x \in DOMAIN g : g[x] \in S
  BY <1>1, <1>2
<1>4. g \in Tables(S)
  BY <1>2, <1>3, TableIntro
<1> QED BY <1>4 DEF g

\* An update of one entry keeps a table a table.
LEMMA ExceptTable ==
  ASSUME NEW S, NEW f \in Tables(S), NEW k \in DOMAIN f, NEW v \in S
  PROVE  [f EXCEPT ![k] = v] \in Tables(S)
<1>1. /\ DOMAIN f \subseteq Nat /\ \A x \in DOMAIN f : f[x] \in S
  BY TableFacts
<1> DEFINE g == [f EXCEPT ![k] = v]
<1>2. /\ g = [x \in DOMAIN g |-> g[x]] /\ DOMAIN g = DOMAIN f
      /\ \A x \in DOMAIN g : g[x] \in S
  BY <1>1
<1> HIDE DEF g
<1>3. g \in Tables(S)
  BY <1>1, <1>2, TableIntro
<1> QED BY <1>3 DEF g

-----------------------------------------------------------------------------
(* Sums.                                                                    *)

\* SumFunction sums over the whole domain.
LEMMA SumOf ==
  ASSUME NEW f
  PROVE  SumFunction(f) = SumFunctionOnSet(f, DOMAIN f)
BY DEF SumFunction

\* A sum of sums.
LEMMA SumPlus ==
  ASSUME NEW f, NEW g, NEW h, NEW S, IsFiniteSet(S),
         \A x \in S : f[x] \in Int /\ g[x] \in Int /\ h[x] = f[x] + g[x]
  PROVE  SumFunctionOnSet(h, S) = SumFunctionOnSet(f, S) + SumFunctionOnSet(g, S)
<1> DEFINE bad == {s \in SUBSET S :
                     SumFunctionOnSet(h, s) # SumFunctionOnSet(f, s) + SumFunctionOnSet(g, s)}
<1>1. SUFFICES ASSUME bad # {} PROVE FALSE
  OBVIOUS
<1>0. bad \subseteq SUBSET S
  OBVIOUS
<1>2. PICK s \in bad : \A u \in bad : u \subseteq s => u = s
  <2> HIDE DEF bad
  <2> QED BY <1>0, <1>1, MinimalSubset
<1>3. CASE s = {}
  BY <1>3, <1>2, SumEmpty
<1>4. CASE s # {}
  <2> DEFINE x == Chosen(s)
             t == s \ {x}
  <2>1. x \in s /\ t \subseteq s /\ t # s /\ x \in S /\ t \in SUBSET S
    BY <1>4, <1>2, ChosenProperty
  <2>2. IsFiniteSet(s) /\ IsFiniteSet(t)
    BY <1>2, <2>1, FS_Subset
  <2>3. /\ SumFunctionOnSet(h, s) = h[x] + SumFunctionOnSet(h, t)
        /\ SumFunctionOnSet(f, s) = f[x] + SumFunctionOnSet(f, t)
        /\ SumFunctionOnSet(g, s) = g[x] + SumFunctionOnSet(g, t)
    BY <1>4, <2>2, SumChosen
  <2>4. SumFunctionOnSet(h, t) = SumFunctionOnSet(f, t) + SumFunctionOnSet(g, t)
    BY <1>2, <2>1
  <2>5. /\ SumFunctionOnSet(f, t) \in Int /\ SumFunctionOnSet(g, t) \in Int
    BY <2>1, <2>2, SumInt
  <2> HIDE DEF x, t
  <2>6. f[x] \in Int /\ g[x] \in Int /\ h[x] = f[x] + g[x]
    BY <2>1
  <2> QED BY <1>2, <2>3, <2>4, <2>5, <2>6
<1> QED BY <1>3, <1>4

\* A sum of fewer and smaller terms.
LEMMA SumLess ==
  ASSUME NEW f, NEW g, NEW S, IsFiniteSet(S), NEW T \in SUBSET S,
         \A x \in S : f[x] \in Nat, \A x \in T : g[x] \in Nat /\ g[x] <= f[x]
  PROVE  SumFunctionOnSet(g, T) <= SumFunctionOnSet(f, S)
<1> DEFINE bad == {s \in SUBSET S : ~ SumFunctionOnSet(g, T \cap s) <= SumFunctionOnSet(f, s)}
<1>1. SUFFICES ASSUME bad # {} PROVE FALSE
  <2>1. S \notin bad
    BY <1>1
  <2>2. T \cap S = T
    OBVIOUS
  <2>3. SumFunctionOnSet(g, T \cap S) <= SumFunctionOnSet(f, S)
    BY <2>1
  <2> QED BY <2>2, <2>3
<1>0. bad \subseteq SUBSET S
  OBVIOUS
<1>2. PICK s \in bad : \A u \in bad : u \subseteq s => u = s
  <2> HIDE DEF bad
  <2> QED BY <1>0, <1>1, MinimalSubset
<1>3. CASE s = {}
  <2>1. T \cap s = {}
    BY <1>3
  <2> QED BY <1>3, <1>2, <2>1, SumEmpty
<1>4. CASE s # {}
  <2> DEFINE x == Chosen(s)
             t == s \ {x}
  <2>1. x \in s /\ t \subseteq s /\ t # s /\ x \in S /\ t \in SUBSET S
    BY <1>4, <1>2, ChosenProperty
  <2>2. IsFiniteSet(s) /\ IsFiniteSet(t) /\ IsFiniteSet(T \cap s) /\ IsFiniteSet(T \cap t)
    BY <1>2, <2>1, FS_Subset
  <2>3. SumFunctionOnSet(f, s) = f[x] + SumFunctionOnSet(f, t)
    BY <1>4, <2>2, SumChosen
  <2>4. SumFunctionOnSet(g, T \cap t) <= SumFunctionOnSet(f, t)
    BY <1>2, <2>1
  <2>5. /\ SumFunctionOnSet(f, t) \in Nat /\ SumFunctionOnSet(g, T \cap t) \in Nat
    BY <2>1, <2>2, SumNat
  <2> HIDE DEF x
  <2>6. CASE x \in T
    <3>1. (T \cap s) \ {x} = T \cap t /\ x \in T \cap s
      BY <2>1, <2>6
    <3>2. \A y \in T \cap s : g[y] \in Int
      OBVIOUS
    <3>3. SumFunctionOnSet(g, T \cap s) = g[x] + SumFunctionOnSet(g, (T \cap s) \ {x})
      BY ONLY <3>1, <3>2, <2>2, SumRemove
    <3>4. f[x] \in Nat /\ g[x] \in Nat /\ g[x] <= f[x]
      BY <2>1, <2>6
    <3> HIDE DEF t
    <3>5. ~ SumFunctionOnSet(g, T \cap s) <= SumFunctionOnSet(f, s)
      BY <1>2
    <3> QED BY ONLY <3>1, <3>3, <2>3, <2>4, <2>5, <3>4, <3>5
  <2>7. CASE x \notin T
    <3>1. T \cap s = T \cap t
      BY <2>7
    <3>2. f[x] \in Nat
      BY <2>1
    <3> HIDE DEF t
    <3>3. ~ SumFunctionOnSet(g, T \cap s) <= SumFunctionOnSet(f, s)
      BY <1>2
    <3>4. SumFunctionOnSet(g, T \cap s) = SumFunctionOnSet(g, T \cap t)
      BY ONLY <3>1
    <3> QED BY ONLY <3>2, <3>3, <3>4, <2>3, <2>4, <2>5
  <2> QED BY <2>6, <2>7
<1> QED BY <1>3, <1>4

-----------------------------------------------------------------------------
(* The responses as a queue.                                                *)

\* The volume of the trades of the orders in kids that wait for the loop.
QueuedFor(rs, kids) ==
  SumFunction([i \in DOMAIN rs |-> IF rs[i].internal_order_id \in kids THEN rs[i].volume_traded ELSE 0])

\* The same sum as the weight of a queue.
Weight(kids) == [r \in Reports |-> IF r.internal_order_id \in kids THEN r.volume_traded ELSE 0]

\* The volume queued for some children is a sum over the queue.
LEMMA QueuedIsWeight ==
  ASSUME NEW rs \in Seq(Reports), NEW kids
  PROVE  QueuedFor(rs, kids) = SeqSum(Weight(kids), rs)
<1>1. \A i \in DOMAIN rs : rs[i] \in Reports
  OBVIOUS
<1>2. \A i \in DOMAIN rs :
        Weight(kids)[rs[i]] = IF rs[i].internal_order_id \in kids THEN rs[i].volume_traded ELSE 0
  BY <1>1 DEF Weight
<1>3. [i \in DOMAIN rs |-> Weight(kids)[rs[i]]]
        = [i \in DOMAIN rs |-> IF rs[i].internal_order_id \in kids THEN rs[i].volume_traded ELSE 0]
  BY <1>2
<1> QED BY <1>3 DEF QueuedFor, SeqSum

\* A report weighs a natural number.
LEMMA WeightNat ==
  ASSUME NEW kids
  PROVE  \A r \in Reports : Weight(kids)[r] \in Nat
BY DEF Weight, Reports

\* A report put in the queue adds its volume for the family it is of.
LEMMA QueuedForAppend ==
  ASSUME NEW rs \in Seq(Reports), NEW r \in Reports, NEW kids
  PROVE  /\ QueuedFor(rs, kids) \in Nat
         /\ r.internal_order_id \in kids
              => QueuedFor(Append(rs, r), kids) = QueuedFor(rs, kids) + r.volume_traded
         /\ r.internal_order_id \notin kids
              => QueuedFor(Append(rs, r), kids) = QueuedFor(rs, kids)
<1>1. Append(rs, r) \in Seq(Reports)
  OBVIOUS
<1>2. \A x \in Reports : Weight(kids)[x] \in Int /\ Weight(kids)[x] \in Nat
  BY WeightNat
<1>3. SeqSum(Weight(kids), Append(rs, r)) = SeqSum(Weight(kids), rs) + Weight(kids)[r]
  BY <1>2, SeqSumAppend
<1>4. SeqSum(Weight(kids), rs) \in Nat
  BY <1>2, SeqSumNat
<1>5. Weight(kids)[r] = IF r.internal_order_id \in kids THEN r.volume_traded ELSE 0
  BY DEF Weight
<1>6. /\ QueuedFor(rs, kids) = SeqSum(Weight(kids), rs)
      /\ QueuedFor(Append(rs, r), kids) = SeqSum(Weight(kids), Append(rs, r))
  BY <1>1, QueuedIsWeight
<1> QED BY <1>3, <1>4, <1>5, <1>6

\* A report taken from the queue removes its volume for the family it is of.
LEMMA QueuedForTail ==
  ASSUME NEW rs \in Seq(Reports), rs # <<>>, NEW kids
  PROVE  /\ QueuedFor(Tail(rs), kids) \in Nat
         /\ Head(rs).internal_order_id \in kids
              => QueuedFor(rs, kids) = Head(rs).volume_traded + QueuedFor(Tail(rs), kids)
         /\ Head(rs).internal_order_id \notin kids
              => QueuedFor(rs, kids) = QueuedFor(Tail(rs), kids)
<1>1. Tail(rs) \in Seq(Reports) /\ Head(rs) \in Reports
  OBVIOUS
<1>2. \A x \in Reports : Weight(kids)[x] \in Int /\ Weight(kids)[x] \in Nat
  BY WeightNat
<1>3. SeqSum(Weight(kids), rs) = Weight(kids)[Head(rs)] + SeqSum(Weight(kids), Tail(rs))
  BY <1>2, SeqSumTail
<1>4. SeqSum(Weight(kids), Tail(rs)) \in Nat
  BY <1>1, <1>2, SeqSumNat
<1>5. Weight(kids)[Head(rs)] = IF Head(rs).internal_order_id \in kids THEN Head(rs).volume_traded ELSE 0
  BY <1>1 DEF Weight
<1>6. /\ QueuedFor(rs, kids) = SeqSum(Weight(kids), rs)
      /\ QueuedFor(Tail(rs), kids) = SeqSum(Weight(kids), Tail(rs))
  BY <1>1, QueuedIsWeight
<1> QED BY <1>3, <1>4, <1>5, <1>6

\* No term is more than the sum.
LEMMA QueuedForTerm ==
  ASSUME NEW rs \in Seq(Reports), NEW kids
  PROVE  /\ QueuedFor(rs, kids) \in Nat
         /\ \A i \in DOMAIN rs : rs[i].internal_order_id \in kids => rs[i].volume_traded <= QueuedFor(rs, kids)
         /\ (\A i \in DOMAIN rs : rs[i].internal_order_id \in kids => rs[i].volume_traded = 0)
              => QueuedFor(rs, kids) = 0
<1>1. \A x \in Reports : Weight(kids)[x] \in Nat
  BY WeightNat
<1>2. /\ SeqSum(Weight(kids), rs) \in Nat
      /\ \A i \in DOMAIN rs : Weight(kids)[rs[i]] <= SeqSum(Weight(kids), rs)
  BY <1>1, SeqSumNat
<1>3. QueuedFor(rs, kids) = SeqSum(Weight(kids), rs)
  BY QueuedIsWeight
<1>4. \A i \in DOMAIN rs : rs[i] \in Reports
  OBVIOUS
<1>5. \A i \in DOMAIN rs :
        Weight(kids)[rs[i]] = IF rs[i].internal_order_id \in kids THEN rs[i].volume_traded ELSE 0
  BY <1>4 DEF Weight
<1>6. ASSUME \A i \in DOMAIN rs : rs[i].internal_order_id \in kids => rs[i].volume_traded = 0
      PROVE  SeqSum(Weight(kids), rs) = 0
  <2>1. \A i \in DOMAIN rs : Weight(kids)[rs[i]] = 0
    BY <1>5, <1>6
  <2> QED BY <2>1, SeqSumZero
<1> QED BY <1>2, <1>3, <1>5, <1>6

\* What is queued for one child is what is queued for the family of it alone.
LEMMA QueuedOne ==
  ASSUME NEW rs, NEW c
  PROVE  Queued(rs, c) = QueuedFor(rs, {c})
<1>1. [i \in DOMAIN rs |-> IF rs[i].internal_order_id = c THEN rs[i].volume_traded ELSE 0]
        = [i \in DOMAIN rs |-> IF rs[i].internal_order_id \in {c} THEN rs[i].volume_traded ELSE 0]
  OBVIOUS
<1> QED BY <1>1 DEF Queued, QueuedFor

\* What a new response does to the queue of each order.
LEMMA AppendFacts ==
  ASSUME NEW rs \in Seq(Reports), NEW r \in Reports
  PROVE  /\ Append(rs, r) \in Seq(Reports)
         /\ \A d : /\ Queued(rs, d) \in Nat
                   /\ d # r.internal_order_id => /\ Queued(Append(rs, r), d) = Queued(rs, d)
                                                 /\ Quiet(Append(rs, r), d) <=> Quiet(rs, d)
         /\ Queued(Append(rs, r), r.internal_order_id)
              = Queued(rs, r.internal_order_id) + r.volume_traded
<1>1. DOMAIN Append(rs, r) = DOMAIN rs \cup {Len(rs) + 1} /\ Append(rs, r)[Len(rs) + 1] = r
      /\ \A i \in DOMAIN rs : Append(rs, r)[i] = rs[i]
  OBVIOUS
<1>2. ASSUME NEW d, d # r.internal_order_id
      PROVE  Quiet(Append(rs, r), d) <=> Quiet(rs, d)
  <2> DEFINE t == Append(rs, r)
  <2>0. DOMAIN t = DOMAIN rs \cup {Len(rs) + 1} /\ t[Len(rs) + 1] = r
        /\ \A i \in DOMAIN rs : t[i] = rs[i]
    BY <1>1
  <2> HIDE DEF t
  <2>1. Quiet(t, d) <=> Quiet(rs, d)
    BY <1>2, <2>0 DEF Quiet
  <2> QED BY <2>1 DEF t
<1>3. ASSUME NEW d
      PROVE  /\ Queued(rs, d) \in Nat
             /\ d # r.internal_order_id => Queued(Append(rs, r), d) = Queued(rs, d)
             /\ d = r.internal_order_id => Queued(Append(rs, r), d) = Queued(rs, d) + r.volume_traded
  <2>1. /\ Queued(rs, d) = QueuedFor(rs, {d})
        /\ Queued(Append(rs, r), d) = QueuedFor(Append(rs, r), {d})
    BY QueuedOne
  <2>2. /\ QueuedFor(rs, {d}) \in Nat
        /\ r.internal_order_id \in {d}
             => QueuedFor(Append(rs, r), {d}) = QueuedFor(rs, {d}) + r.volume_traded
        /\ r.internal_order_id \notin {d}
             => QueuedFor(Append(rs, r), {d}) = QueuedFor(rs, {d})
    BY QueuedForAppend
  <2> QED BY <2>1, <2>2
<1> QED BY <1>2, <1>3

\* What taking the oldest response does.
LEMMA TailFacts ==
  ASSUME NEW rs \in Seq(Reports), rs # <<>>
  PROVE  /\ Tail(rs) \in Seq(Reports) /\ Head(rs) \in Reports
         /\ \A d : /\ Queued(Tail(rs), d) \in Nat
                   /\ Quiet(rs, d) => Quiet(Tail(rs), d)
                   /\ d # Head(rs).internal_order_id => /\ Queued(Tail(rs), d) = Queued(rs, d)
                                                        /\ Quiet(Tail(rs), d) <=> Quiet(rs, d)
         /\ Queued(rs, Head(rs).internal_order_id)
              = Head(rs).volume_traded + Queued(Tail(rs), Head(rs).internal_order_id)
<1>1. /\ DOMAIN Tail(rs) = 1 .. Len(rs) - 1 /\ DOMAIN rs = 1 .. Len(rs) /\ rs[1] = Head(rs)
      /\ \A i \in 1 .. Len(rs) - 1 : Tail(rs)[i] = rs[i + 1] /\ i + 1 \in DOMAIN rs
      /\ \A i \in DOMAIN rs : i # 1 => i - 1 \in 1 .. Len(rs) - 1 /\ rs[i] = Tail(rs)[i - 1]
      /\ Tail(rs) \in Seq(Reports) /\ Head(rs) \in Reports
  OBVIOUS
<1>2. ASSUME NEW d
      PROVE  /\ Quiet(rs, d) => Quiet(Tail(rs), d)
             /\ d # Head(rs).internal_order_id => (Quiet(Tail(rs), d) <=> Quiet(rs, d))
  <2> DEFINE t == Tail(rs)
             r == Head(rs)
             N == Len(rs)
  <2>0. /\ DOMAIN t = 1 .. N - 1 /\ rs[1] = r
        /\ \A i \in 1 .. N - 1 : t[i] = rs[i + 1] /\ i + 1 \in DOMAIN rs
        /\ \A i \in DOMAIN rs : i # 1 => i - 1 \in 1 .. N - 1 /\ rs[i] = t[i - 1]
    BY <1>1
  <2> HIDE DEF t, r, N
  <2>1. Quiet(rs, d) => Quiet(t, d)
    BY <2>0 DEF Quiet
  <2>2. d # r.internal_order_id /\ Quiet(t, d) => Quiet(rs, d)
    BY <2>0 DEF Quiet
  <2> QED BY <2>1, <2>2 DEF t, r
<1>3. ASSUME NEW d
      PROVE  /\ Queued(Tail(rs), d) \in Nat
             /\ d # Head(rs).internal_order_id => Queued(Tail(rs), d) = Queued(rs, d)
             /\ d = Head(rs).internal_order_id
                  => Queued(rs, d) = Head(rs).volume_traded + Queued(Tail(rs), d)
  <2>1. /\ Queued(rs, d) = QueuedFor(rs, {d}) /\ Queued(Tail(rs), d) = QueuedFor(Tail(rs), {d})
    BY QueuedOne
  <2>2. /\ QueuedFor(Tail(rs), {d}) \in Nat
        /\ Head(rs).internal_order_id \in {d}
             => QueuedFor(rs, {d}) = Head(rs).volume_traded + QueuedFor(Tail(rs), {d})
        /\ Head(rs).internal_order_id \notin {d}
             => QueuedFor(rs, {d}) = QueuedFor(Tail(rs), {d})
    BY QueuedForTail
  <2> QED BY <2>1, <2>2
<1> QED BY <1>1, <1>2, <1>3

\* The queue of one order.
LEMMA QueuedFacts ==
  ASSUME NEW rs \in Seq(Reports), NEW c
  PROVE  /\ Queued(rs, c) \in Nat
         /\ \A i \in DOMAIN rs : rs[i].internal_order_id = c => rs[i].volume_traded <= Queued(rs, c)
         /\ (\A i \in DOMAIN rs : rs[i].internal_order_id = c => rs[i].volume_traded = 0)
              => Queued(rs, c) = 0
         /\ Quiet(rs, c) => Queued(rs, c) = 0
<1>1. Queued(rs, c) = QueuedFor(rs, {c})
  BY QueuedOne
<1>2. /\ QueuedFor(rs, {c}) \in Nat
      /\ \A i \in DOMAIN rs : rs[i].internal_order_id \in {c} => rs[i].volume_traded <= QueuedFor(rs, {c})
      /\ (\A i \in DOMAIN rs : rs[i].internal_order_id \in {c} => rs[i].volume_traded = 0)
           => QueuedFor(rs, {c}) = 0
  BY QueuedForTerm
<1> QED BY <1>1, <1>2 DEF Quiet

-----------------------------------------------------------------------------
(* Numbers, kids and ledgers.                                               *)

\* The ids handed out are a finite set that grows by the next one.
LEMMA IssuedFacts ==
  ASSUME NEW n \in Nat \ {0}
  PROVE  /\ IsFiniteSet(Issued(n)) /\ Issued(n) \subseteq Nat \ {0}
         /\ Issued(n) \subseteq Issued(n + 1) /\ n \in Issued(n + 1) /\ n \notin Issued(n)
BY FS_Interval DEF Issued

\* The children of an order have issued ids, and are finitely many.
LEMMA KidsFacts ==
  ASSUME NEW n \in Nat \ {0}, NEW ch, Families(n, ch), NEW p
  PROVE  /\ Kids(ch, p) \subseteq Issued(n) /\ IsFiniteSet(Kids(ch, p))
         /\ p \notin DOMAIN ch => Kids(ch, p) = {}
<1>1. p \notin DOMAIN ch => Kids(ch, p) = {}
  BY DEF Kids, Sent, Range
<1>2. Kids(ch, p) \subseteq Issued(n)
  BY <1>1 DEF Families
<1> QED BY <1>1, <1>2, IssuedFacts, FS_Subset

\* What a ledger says adds up.
Balanced(s) ==
  /\ IsFiniteSet(DOMAIN s.ledgers)
  /\ \A c \in DOMAIN s.ledgers :
       /\ s.ledgers[c].traded + s.ledgers[c].cancelled <= s.ledgers[c].entrust
       /\ ~ s.ledgers[c].finalized => s.ledgers[c].cancelled = 0

\* The ledgers of a session are a table.
LEMMA SessionFacts ==
  ASSUME NEW s \in Session
  PROVE  /\ s.ledgers \in Tables(Ledger)
         /\ s.ledgers = [x \in DOMAIN s.ledgers |-> s.ledgers[x]] /\ DOMAIN s.ledgers \subseteq Nat
         /\ \A c \in DOMAIN s.ledgers : s.ledgers[c] \in Ledger
<1>1. s.ledgers \in Tables(Ledger)
  BY DEF Session
<1> QED BY <1>1, TableFacts

\* A ledger's numbers.
LEMMA LedgerNumbers ==
  ASSUME NEW l \in Ledger
  PROVE  /\ l.entrust \in Nat \ {0} /\ l.traded \in Nat /\ l.cancelled \in Nat /\ l.finalized \in BOOLEAN
         /\ Unresolved(l) \in Nat /\ Committed(l) \in Nat
         /\ l.traded + l.cancelled <= l.entrust /\ (~ l.finalized => l.cancelled = 0) =>
              /\ Committed(l) = l.traded + Unresolved(l)
              /\ l.traded <= l.entrust
              /\ Unresolved(l) = 0 /\ ~ l.finalized => l.traded = l.entrust
BY DEF Ledger, Unresolved, Committed, Less

\* What a session has sent splits into what is confirmed, what works and what came back.
LEMMA LedgerSums ==
  ASSUME NEW s \in Session, Balanced(s)
  PROVE  /\ ConfirmedTraded(s) \in Nat /\ WorkingVolume(s) \in Nat /\ SentVolume(s) \in Nat
         /\ CommittedVolume(s) = ConfirmedTraded(s) + WorkingVolume(s)
         /\ ConfirmedTraded(s) <= SentVolume(s)
         /\ WorkingVolume(s) = 0 =>
              \A c \in DOMAIN s.ledgers : s.ledgers[c].finalized \/ s.ledgers[c].traded = s.ledgers[c].entrust
<1> DEFINE D == DOMAIN s.ledgers
           tr == [c \in D |-> s.ledgers[c].traded]
           un == [c \in D |-> Unresolved(s.ledgers[c])]
           en == [c \in D |-> s.ledgers[c].entrust]
           co == [c \in D |-> Committed(s.ledgers[c])]
<1>1. /\ ConfirmedTraded(s) = SumFunctionOnSet(tr, D) /\ WorkingVolume(s) = SumFunctionOnSet(un, D)
      /\ SentVolume(s) = SumFunctionOnSet(en, D) /\ CommittedVolume(s) = SumFunctionOnSet(co, D)
  BY SumOf DEF ConfirmedTraded, WorkingVolume, SentVolume, CommittedVolume
<1>2. IsFiniteSet(D)
  BY DEF Balanced
<1>3. ASSUME NEW c \in D
      PROVE  /\ tr[c] \in Nat /\ un[c] \in Nat /\ en[c] \in Nat /\ co[c] = tr[c] + un[c] /\ tr[c] <= en[c]
             /\ un[c] = 0 => s.ledgers[c].finalized \/ s.ledgers[c].traded = s.ledgers[c].entrust
  BY SessionFacts, LedgerNumbers DEF Balanced
<1> HIDE DEF D, tr, un, en, co
<1>4. /\ SumFunctionOnSet(tr, D) \in Nat /\ SumFunctionOnSet(un, D) \in Nat /\ SumFunctionOnSet(en, D) \in Nat
  BY <1>2, <1>3, SumNat
<1>5. SumFunctionOnSet(co, D) = SumFunctionOnSet(tr, D) + SumFunctionOnSet(un, D)
  BY <1>2, <1>3, SumPlus
<1>6. SumFunctionOnSet(tr, D) <= SumFunctionOnSet(en, D)
  <2>1. D \in SUBSET D
    OBVIOUS
  <2> QED BY <2>1, <1>2, <1>3, SumLess
<1>7. ASSUME SumFunctionOnSet(un, D) = 0, NEW c \in D
      PROVE  s.ledgers[c].finalized \/ s.ledgers[c].traded = s.ledgers[c].entrust
  <2>1. un[c] <= SumFunctionOnSet(un, D)
    BY <1>2, <1>3, SumElement
  <2>2. un[c] = 0
    BY <1>3, <1>7, <2>1
  <2> QED BY <1>3, <2>2
<1> QED BY <1>1, <1>4, <1>5, <1>6, <1>7 DEF D

\* A session that has heard of one of its children.
LEMMA LedgerUpdate ==
  ASSUME NEW s \in Session, Balanced(s), NEW c \in DOMAIN s.ledgers, NEW l \in Ledger,
         l.entrust = s.ledgers[c].entrust, l.traded + l.cancelled <= l.entrust,
         ~ l.finalized => l.cancelled = 0, Unresolved(l) <= Unresolved(s.ledgers[c]),
         NEW t \in Session, t.ledgers = [s.ledgers EXCEPT ![c] = l]
  PROVE  /\ Balanced(t)
         /\ ConfirmedTraded(t) = (ConfirmedTraded(s) - s.ledgers[c].traded) + l.traded
         /\ SentVolume(t) = SentVolume(s)
         /\ WorkingVolume(t) <= WorkingVolume(s)
         /\ Committed(l) <= Committed(s.ledgers[c]) => CommittedVolume(t) <= CommittedVolume(s)
<1> DEFINE D == DOMAIN s.ledgers
           tr == [d \in D |-> s.ledgers[d].traded]
           un == [d \in D |-> Unresolved(s.ledgers[d])]
           en == [d \in D |-> s.ledgers[d].entrust]
           co == [d \in D |-> Committed(s.ledgers[d])]
           tr2 == [d \in D |-> t.ledgers[d].traded]
           un2 == [d \in D |-> Unresolved(t.ledgers[d])]
           en2 == [d \in D |-> t.ledgers[d].entrust]
           co2 == [d \in D |-> Committed(t.ledgers[d])]
<1>1. /\ ConfirmedTraded(s) = SumFunctionOnSet(tr, D) /\ WorkingVolume(s) = SumFunctionOnSet(un, D)
      /\ SentVolume(s) = SumFunctionOnSet(en, D) /\ CommittedVolume(s) = SumFunctionOnSet(co, D)
  BY SumOf DEF ConfirmedTraded, WorkingVolume, SentVolume, CommittedVolume
<1>2. /\ DOMAIN t.ledgers = D /\ t.ledgers[c] = l /\ \A d \in D \ {c} : t.ledgers[d] = s.ledgers[d]
  BY SessionFacts
<1>3. /\ ConfirmedTraded(t) = SumFunctionOnSet(tr2, D) /\ WorkingVolume(t) = SumFunctionOnSet(un2, D)
      /\ SentVolume(t) = SumFunctionOnSet(en2, D) /\ CommittedVolume(t) = SumFunctionOnSet(co2, D)
  BY <1>2, SumOf DEF ConfirmedTraded, WorkingVolume, SentVolume, CommittedVolume
<1>4. IsFiniteSet(D)
  BY DEF Balanced
<1>5. Balanced(t)
  BY <1>2, <1>4 DEF Balanced
<1>6. \A d \in D : s.ledgers[d] \in Ledger /\ t.ledgers[d] \in Ledger
  BY <1>2, SessionFacts
<1>7. /\ \A d \in D : /\ tr[d] \in Nat /\ un[d] \in Nat /\ en[d] \in Nat /\ co[d] \in Nat
                      /\ tr2[d] \in Nat /\ un2[d] \in Nat /\ en2[d] \in Nat /\ co2[d] \in Nat
      /\ \A d \in D : en2[d] = en[d] /\ un2[d] <= un[d]
      /\ \A d \in D \ {c} : tr2[d] = tr[d] /\ co2[d] = co[d]
      /\ tr[c] = s.ledgers[c].traded /\ tr2[c] = l.traded
      /\ co[c] = Committed(s.ledgers[c]) /\ co2[c] = Committed(l)
  <2>1. \A d \in D : /\ tr[d] \in Nat /\ un[d] \in Nat /\ en[d] \in Nat /\ co[d] \in Nat
                     /\ tr2[d] \in Nat /\ un2[d] \in Nat /\ en2[d] \in Nat /\ co2[d] \in Nat
    BY <1>6, LedgerNumbers
  <2>2. \A d \in D \ {c} : en2[d] = en[d] /\ un2[d] = un[d] /\ tr2[d] = tr[d] /\ co2[d] = co[d]
    BY <1>2
  <2>3. en2[c] = en[c] /\ un2[c] <= un[c]
    BY <1>2
  <2>4. /\ tr[c] = s.ledgers[c].traded /\ tr2[c] = l.traded
        /\ co[c] = Committed(s.ledgers[c]) /\ co2[c] = Committed(l)
    BY <1>2
  <2> HIDE DEF D, tr, un, en, co, tr2, un2, en2, co2
  <2>5. \A d \in D : en2[d] = en[d] /\ un2[d] <= un[d]
    <3>1. \A d \in D : un[d] <= un[d]
      BY <2>1
    <3> QED BY <2>2, <2>3, <3>1
  <2> QED BY <2>1, <2>2, <2>4, <2>5
<1>8. c \in D /\ D \in SUBSET D
  OBVIOUS
<1> HIDE DEF D, tr, un, en, co, tr2, un2, en2, co2
<1>9. SumFunctionOnSet(tr2, D) = (SumFunctionOnSet(tr, D) - tr[c]) + tr2[c]
  BY <1>4, <1>7, <1>8, SumUpdate
<1>10. SumFunctionOnSet(en2, D) = SumFunctionOnSet(en, D)
  BY <1>4, <1>7, SumEqual
<1>11. SumFunctionOnSet(un2, D) <= SumFunctionOnSet(un, D)
  BY <1>4, <1>7, <1>8, SumLess
<1>12. ASSUME Committed(l) <= Committed(s.ledgers[c])
       PROVE  SumFunctionOnSet(co2, D) <= SumFunctionOnSet(co, D)
  <2>1. \A d \in D : co2[d] <= co[d]
    BY <1>7, <1>12
  <2> QED BY <1>4, <1>7, <1>8, <2>1, SumLess
<1> QED BY <1>1, <1>3, <1>5, <1>7, <1>9, <1>10, <1>11, <1>12

\* A session that has sent another child.
LEMMA LedgerPut ==
  ASSUME NEW s \in Session, Balanced(s), NEW c \in Nat, c \notin DOMAIN s.ledgers, NEW l \in Ledger,
         ~ l.finalized, l.traded = 0, l.cancelled = 0,
         NEW t \in Session, t.ledgers = Put(s.ledgers, c, l)
  PROVE  /\ Balanced(t)
         /\ ConfirmedTraded(t) = ConfirmedTraded(s)
         /\ SentVolume(t) = SentVolume(s) + l.entrust
         /\ CommittedVolume(t) = CommittedVolume(s) + l.entrust
<1> DEFINE D == DOMAIN s.ledgers
           E == D \cup {c}
           tr == [d \in D |-> s.ledgers[d].traded]
           en == [d \in D |-> s.ledgers[d].entrust]
           co == [d \in D |-> Committed(s.ledgers[d])]
           tr2 == [d \in E |-> t.ledgers[d].traded]
           en2 == [d \in E |-> t.ledgers[d].entrust]
           co2 == [d \in E |-> Committed(t.ledgers[d])]
<1>1. /\ ConfirmedTraded(s) = SumFunctionOnSet(tr, D)
      /\ SentVolume(s) = SumFunctionOnSet(en, D) /\ CommittedVolume(s) = SumFunctionOnSet(co, D)
  BY SumOf DEF ConfirmedTraded, SentVolume, CommittedVolume
<1>2. /\ DOMAIN t.ledgers = E /\ t.ledgers[c] = l /\ \A d \in D : t.ledgers[d] = s.ledgers[d]
  <2>1. \A d \in D : d \in DOMAIN s.ledgers \ {c}
    OBVIOUS
  <2>2. /\ DOMAIN Put(s.ledgers, c, l) = E /\ Put(s.ledgers, c, l)[c] = l
        /\ \A d \in DOMAIN s.ledgers \ {c} : Put(s.ledgers, c, l)[d] = s.ledgers[d]
    BY DEF Put
  <2> HIDE DEF E
  <2> QED BY <2>1, <2>2
<1>3. /\ ConfirmedTraded(t) = SumFunctionOnSet(tr2, E)
      /\ SentVolume(t) = SumFunctionOnSet(en2, E) /\ CommittedVolume(t) = SumFunctionOnSet(co2, E)
  BY <1>2, SumOf DEF ConfirmedTraded, SentVolume, CommittedVolume
<1>4. IsFiniteSet(D) /\ IsFiniteSet(E)
  BY FS_AddElement DEF Balanced
<1>5. Balanced(t)
  <2>1. l.traded + l.cancelled <= l.entrust
    BY LedgerNumbers
  <2> QED BY <1>2, <1>4, <2>1 DEF Balanced
<1>6. \A d \in D : s.ledgers[d] \in Ledger
  BY SessionFacts
<1>7. /\ \A d \in D : /\ tr[d] \in Nat /\ en[d] \in Nat /\ co[d] \in Nat
                      /\ tr2[d] = tr[d] /\ en2[d] = en[d] /\ co2[d] = co[d]
      /\ tr2[c] = 0 /\ en2[c] = l.entrust /\ co2[c] = l.entrust /\ l.entrust \in Nat /\ c \notin D /\ E = D \cup {c}
  <2>1. \A d \in D : /\ tr[d] \in Nat /\ en[d] \in Nat /\ co[d] \in Nat
    BY <1>6, LedgerNumbers
  <2>2. \A d \in D : tr2[d] = tr[d] /\ en2[d] = en[d] /\ co2[d] = co[d]
    BY <1>2
  <2>3. tr2[c] = 0 /\ en2[c] = l.entrust /\ co2[c] = l.entrust
    BY <1>2 DEF Committed
  <2> QED BY <2>1, <2>2, <2>3, LedgerNumbers
<1> HIDE DEF D, E, tr, en, co, tr2, en2, co2
<1>8. /\ SumFunctionOnSet(tr2, D) = SumFunctionOnSet(tr, D) /\ SumFunctionOnSet(en2, D) = SumFunctionOnSet(en, D)
      /\ SumFunctionOnSet(co2, D) = SumFunctionOnSet(co, D)
  BY <1>4, <1>7, SumEqual
<1>9. /\ SumFunctionOnSet(tr, D) \in Nat /\ SumFunctionOnSet(en, D) \in Nat /\ SumFunctionOnSet(co, D) \in Nat
  BY <1>4, <1>7, SumNat
<1>10. \A d \in D : tr2[d] \in Int /\ en2[d] \in Int /\ co2[d] \in Int
  BY <1>7
<1>11. SumFunctionOnSet(tr2, E) = SumFunctionOnSet(tr2, D) + tr2[c]
  BY <1>4, <1>7, <1>10, SumAdd
<1>12. SumFunctionOnSet(en2, E) = SumFunctionOnSet(en2, D) + en2[c]
  BY <1>4, <1>7, <1>10, SumAdd
<1>13. SumFunctionOnSet(co2, E) = SumFunctionOnSet(co2, D) + co2[c]
  BY <1>4, <1>7, <1>10, SumAdd
<1> QED BY <1>1, <1>3, <1>5, <1>7, <1>8, <1>9, <1>11, <1>12, <1>13

\* The sums depend on the ledgers alone.
LEMMA SameLedgers ==
  ASSUME NEW s, NEW t, t.ledgers = s.ledgers
  PROVE  /\ ConfirmedTraded(t) = ConfirmedTraded(s) /\ WorkingVolume(t) = WorkingVolume(s)
         /\ SentVolume(t) = SentVolume(s) /\ CommittedVolume(t) = CommittedVolume(s)
         /\ Balanced(t) <=> Balanced(s)
BY DEF ConfirmedTraded, WorkingVolume, SentVolume, CommittedVolume, Balanced

\* A session without children.
LEMMA NoLedgers ==
  ASSUME NEW s, DOMAIN s.ledgers = {}
  PROVE  /\ ConfirmedTraded(s) = 0 /\ WorkingVolume(s) = 0 /\ SentVolume(s) = 0 /\ CommittedVolume(s) = 0
         /\ Balanced(s)
BY SumOf, SumEmpty, FS_EmptySet DEF ConfirmedTraded, WorkingVolume, SentVolume, CommittedVolume, Balanced

-----------------------------------------------------------------------------
(* Slices.                                                                  *)

\* Quotient and remainder.
LEMMA Division ==
  ASSUME NEW v \in Nat, NEW k \in Nat \ {0}
  PROVE  /\ v \div k \in Nat /\ v % k \in 0 .. k - 1 /\ v = k * (v \div k) + (v % k)
OBVIOUS

\* The number of slices is a natural number, a clip is positive.
LEMMA SliceCountNat ==
  ASSUME NEW v \in Nat
  PROVE  SliceCount(v) \in Nat /\ ClipVolume \in Nat \ {0}
<1>1. ClipVolume \in Nat \ {0}
  BY SplitConfigAssumption DEF ClipVolume
<1>2. (v + ClipVolume - 1) \div ClipVolume \in Nat
  BY <1>1, Division
<1> QED BY <1>1, <1>2, SplitConfigAssumption DEF SliceCount, Smaller

\* The plan of a TWAP, slice by slice (build_twap_slice_plan).
LEMMA PlanFacts ==
  ASSUME NEW v \in Nat
  PROVE  /\ Len(TwapSlicePlan(v)) = SliceCount(v)
         /\ TwapSlicePlan(v) = <<>> <=> SliceCount(v) = 0
         /\ SliceCount(v) # 0 =>
              \A i \in 1 .. SliceCount(v) :
                 TwapSlicePlan(v)[i] = v \div SliceCount(v) + (IF i <= v % SliceCount(v) THEN 1 ELSE 0)
<1>1. SliceCount(v) \in Nat
  BY SliceCountNat
<1> DEFINE k == SliceCount(v)
<1>2. TwapSlicePlan(v) = [i \in 1 .. k |-> v \div k + (IF i <= v % k THEN 1 ELSE 0)]
  BY DEF TwapSlicePlan, SliceCount
<1> HIDE DEF k
<1>3. k \in Nat
  BY <1>1 DEF k
<1>4. k # 0 => Len(TwapSlicePlan(v)) = k /\ TwapSlicePlan(v) # <<>>
  <2>1. SUFFICES ASSUME k # 0 PROVE Len(TwapSlicePlan(v)) = k /\ TwapSlicePlan(v) # <<>>
    OBVIOUS
  <2>2. \A i \in 1 .. k : v \div k + (IF i <= v % k THEN 1 ELSE 0) \in Nat
    BY <1>3, <2>1, Division
  <2> QED BY <1>2, <1>3, <2>1, <2>2
<1>5. k = 0 => TwapSlicePlan(v) = <<>> /\ Len(TwapSlicePlan(v)) = 0
  BY <1>2
<1> QED BY <1>2, <1>4, <1>5 DEF k

\* Products with one factor moved by one.
LEMMA Times ==
  ASSUME NEW a \in Nat, NEW b \in Nat, NEW q \in Nat
  PROVE  /\ a * q \in Nat /\ (a + 1) * q = a * q + q /\ a <= b => a * q <= b * q
OBVIOUS

\* What the slices add up to.
LEMMA SliceSums ==
  ASSUME NEW v \in Nat, SliceCount(v) # 0
  PROVE  /\ FirstSlices(v, 0) = 0 /\ FirstSlices(v, SliceCount(v)) = v
         /\ \A n \in 0 .. SliceCount(v) : FirstSlices(v, n) \in Nat /\ FirstSlices(v, n) <= v
         /\ \A n \in 1 .. SliceCount(v) :
              FirstSlices(v, n) = FirstSlices(v, n - 1) + TwapSlicePlan(v)[n] /\ TwapSlicePlan(v)[n] \in Nat
<1> DEFINE k == SliceCount(v)
           q == v \div k
           m == v % k
<1>1. k \in Nat \ {0}
  BY SliceCountNat
<1>2. q \in Nat /\ m \in 0 .. k - 1 /\ v = k * q + m
  BY <1>1, Division
<1>3. \A n \in 1 .. k : TwapSlicePlan(v)[n] = q + (IF n <= m THEN 1 ELSE 0)
  BY PlanFacts
<1>4. \A n : FirstSlices(v, n) = n * q + (IF n < m THEN n ELSE m)
  BY DEF FirstSlices, Smaller
<1> HIDE DEF k, q, m
<1>5. \A n \in 0 .. k : n * q \in Nat /\ n * q <= k * q
  BY <1>1, <1>2, Times
<1>6. \A n \in 1 .. k : n * q = (n - 1) * q + q /\ (n - 1) * q \in Nat
  <2>1. ASSUME NEW n \in 1 .. k PROVE n * q = (n - 1) * q + q /\ (n - 1) * q \in Nat
    <3>1. n - 1 \in Nat /\ (n - 1) + 1 = n
      BY <1>1
    <3>2. (n - 1) * q \in Nat /\ ((n - 1) + 1) * q = (n - 1) * q + q
      BY ONLY <3>1, <1>2, Times
    <3> QED BY <3>1, <3>2
  <2> QED BY <2>1
<1>7. 0 * q = 0
  BY <1>2
<1>8. FirstSlices(v, 0) = 0
  BY <1>2, <1>4, <1>7
<1>9. FirstSlices(v, k) = v
  BY <1>1, <1>2, <1>4, <1>5
<1>10. \A n \in 0 .. k : FirstSlices(v, n) \in Nat /\ FirstSlices(v, n) <= v
  BY <1>1, <1>2, <1>4, <1>5
<1>11. \A n \in 1 .. k :
         FirstSlices(v, n) = FirstSlices(v, n - 1) + TwapSlicePlan(v)[n] /\ TwapSlicePlan(v)[n] \in Nat
  <2>1. ASSUME NEW n \in 1 .. k
        PROVE  FirstSlices(v, n) = FirstSlices(v, n - 1) + TwapSlicePlan(v)[n] /\ TwapSlicePlan(v)[n] \in Nat
    <3> DEFINE a == (n - 1) * q
               b == n * q
    <3>1. b = a + q /\ a \in Nat
      BY <1>6
    <3>2. /\ FirstSlices(v, n) = b + (IF n < m THEN n ELSE m)
          /\ FirstSlices(v, n - 1) = a + (IF n - 1 < m THEN n - 1 ELSE m)
      BY <1>4
    <3>3. TwapSlicePlan(v)[n] = q + (IF n <= m THEN 1 ELSE 0)
      BY <1>3
    <3> HIDE DEF a, b
    <3> QED BY <1>1, <1>2, <3>1, <3>2, <3>3
  <2> QED BY <2>1
<1> QED BY <1>8, <1>9, <1>10, <1>11 DEF k

-----------------------------------------------------------------------------
(* What a session does with itself.                                         *)

\* Advancing to the next slice changes nothing but the slice, and happens only when its child is done.
LEMMA AdvanceSliceFacts ==
  ASSUME NEW s \in Session, Balanced(s), Schedule(s), NEW t, t = AdvanceSlice(s)
  PROVE  /\ t \in Session /\ Balanced(t) /\ Schedule(t) /\ t.ledgers = s.ledgers
         /\ t.algo = s.algo /\ t.target = s.target /\ t.failed = s.failed /\ t.terminal = s.terminal
         /\ t.dprice = s.dprice
         /\ t.algo = "TWAP" /\ t.slice_consumed => WorkingVolume(t) # 0
         /\ ~ s.slice_consumed => t = s
<1>1. /\ s.target \in Nat /\ s.slice \in Nat /\ s.slice_consumed \in BOOLEAN /\ s.algo \in SupportedStrategies
  BY DEF Session
<1>2. Len(TwapSlicePlan(s.target)) = SliceCount(s.target) /\ SliceCount(s.target) \in Nat
  BY <1>1, PlanFacts, SliceCountNat
<1>3. CASE ~ (s.algo = "TWAP" /\ s.slice_consumed /\ WorkingVolume(s) = 0)
  BY <1>1, <1>3 DEF AdvanceSlice
<1>4. CASE s.algo = "TWAP" /\ s.slice_consumed /\ WorkingVolume(s) = 0
  <2>1. s.slice <= SliceCount(s.target)
    BY <1>4 DEF Schedule
  <2>2. t = [s EXCEPT !.slice = s.slice + 1, !.slice_consumed = FALSE, !.last_publication = 0]
    BY <1>2, <1>4, <2>1 DEF AdvanceSlice
  <2>3. /\ t \in Session /\ t.ledgers = s.ledgers /\ t.slice = s.slice + 1 /\ t.slice_consumed = FALSE
        /\ t.algo = s.algo /\ t.target = s.target /\ t.failed = s.failed /\ t.terminal = s.terminal
        /\ t.dprice = s.dprice /\ t.cancel_requested = s.cancel_requested
    <3> DEFINE x == [s EXCEPT !.slice = s.slice + 1]
               y == [x EXCEPT !.slice_consumed = FALSE]
    <3>1. x \in Session /\ x.slice = s.slice + 1
      BY <1>1 DEF Session
    <3>2. t = [y EXCEPT !.last_publication = 0]
      BY <2>2 DEF Session
    <3>3. /\ x.ledgers = s.ledgers /\ x.algo = s.algo /\ x.target = s.target /\ x.failed = s.failed
          /\ x.terminal = s.terminal /\ x.dprice = s.dprice /\ x.cancel_requested = s.cancel_requested
      BY DEF Session
    <3> HIDE DEF x
    <3>4. /\ y \in Session /\ y.slice_consumed = FALSE /\ y.slice = x.slice
          /\ y.ledgers = x.ledgers /\ y.algo = x.algo /\ y.target = x.target /\ y.failed = x.failed
          /\ y.terminal = x.terminal /\ y.dprice = x.dprice /\ y.cancel_requested = x.cancel_requested
      BY <3>1 DEF Session
    <3> HIDE DEF y
    <3>5. /\ t \in Session /\ t.slice_consumed = FALSE /\ t.slice = y.slice
          /\ t.ledgers = y.ledgers /\ t.algo = y.algo /\ t.target = y.target /\ t.failed = y.failed
          /\ t.terminal = y.terminal /\ t.dprice = y.dprice /\ t.cancel_requested = y.cancel_requested
      BY <3>2, <3>4 DEF Session
    <3> QED BY <3>1, <3>3, <3>4, <3>5
  <2>4. /\ ConfirmedTraded(t) = ConfirmedTraded(s) /\ WorkingVolume(t) = WorkingVolume(s)
        /\ SentVolume(t) = SentVolume(s) /\ CommittedVolume(t) = CommittedVolume(s)
        /\ Balanced(t)
    BY <2>3, SameLedgers
  <2>5. Slices(t) = Slices(s)
    BY <1>1, <1>4, <2>3 DEF Slices
  <2>6. Schedule(t)
    BY <1>1, <1>2, <1>4, <2>1, <2>3, <2>4, <2>5 DEF Schedule, Sliced, FullyWorked
  <2> QED BY <1>4, <2>3, <2>4, <2>6
<1> QED BY <1>3, <1>4

\* The budget never takes a session over its target, and a child stays within its slice.
LEMMA BudgetFacts ==
  ASSUME NEW s \in Session, Balanced(s), Schedule(s), WorkingVolume(s) = 0, NEW volume, Takes(s, volume)
  PROVE  /\ Budget(s) \in Nat /\ volume \in Nat \ {0}
         /\ CommittedVolume(s) + volume <= s.target
         /\ s.algo = "TWAP" => s.slice <= SliceCount(s.target)
         /\ s.algo = "TWAP" /\ ~ s.failed /\ ~ s.slice_consumed =>
              /\ SentVolume(s) + volume <= FirstSlices(s.target, s.slice)
              /\ ActiveStrategy \/ SentVolume(s) + volume = FirstSlices(s.target, s.slice)
<1>1. /\ s.target \in Nat /\ s.slice \in Nat /\ s.slice_consumed \in BOOLEAN /\ s.algo \in SupportedStrategies
  BY DEF Session
<1>2. /\ ConfirmedTraded(s) \in Nat /\ SentVolume(s) \in Nat /\ CommittedVolume(s) = ConfirmedTraded(s)
      /\ ConfirmedTraded(s) <= SentVolume(s)
  BY LedgerSums
<1>3. CommittedVolume(s) <= s.target
  BY DEF Schedule
<1>4. SchedulableVolume(s) = s.target - ConfirmedTraded(s)
  BY <1>1, <1>2, <1>3 DEF SchedulableVolume, RemainingTarget, Less
<1>5. ClipVolume \in Nat \ {0} /\ SliceCount(s.target) \in Nat /\ Len(TwapSlicePlan(s.target)) = SliceCount(s.target)
  BY <1>1, SliceCountNat, PlanFacts
<1>6. CASE s.algo # "TWAP"
  <2>1. Budget(s) = Smaller(ClipVolume, s.target - ConfirmedTraded(s))
    BY <1>4, <1>6 DEF Budget
  <2>2. Budget(s) \in Nat /\ ConfirmedTraded(s) + Budget(s) <= s.target
    BY <1>1, <1>2, <1>3, <1>5, <2>1 DEF Smaller
  <2> QED BY <1>1, <1>2, <1>6, <2>2 DEF Takes
<1>7. CASE s.algo = "TWAP"
  <2> DEFINE k == SliceCount(s.target)
             x == TwapSlicePlan(s.target)[s.slice]
  <2>1. s.slice \in 1 .. k /\ Budget(s) = Smaller(x, s.target - ConfirmedTraded(s)) /\ k # 0
    <3>1. Budget(s) # 0
      BY DEF Takes
    <3> QED BY <1>1, <1>4, <1>5, <1>7, <3>1 DEF Budget, SlicesDone, Schedule
  <2>2. x \in Nat /\ FirstSlices(s.target, s.slice) = FirstSlices(s.target, s.slice - 1) + x
    BY <1>1, <2>1, SliceSums
  <2>3. s.slice - 1 \in 0 .. k
    BY <1>1, <1>5, <2>1
  <2>4. /\ FirstSlices(s.target, s.slice - 1) \in Nat
        /\ FirstSlices(s.target, s.slice) \in Nat /\ FirstSlices(s.target, s.slice) <= s.target
    BY <1>1, <2>1, <2>3, SliceSums
  <2>5. ~ s.failed /\ ~ s.slice_consumed =>
          /\ SentVolume(s) <= FirstSlices(s.target, s.slice - 1)
          /\ ActiveStrategy \/ SentVolume(s) = FirstSlices(s.target, s.slice - 1)
    BY <1>7 DEF Schedule, Sliced, Slices
  <2> DEFINE a == FirstSlices(s.target, s.slice - 1)
             b == FirstSlices(s.target, s.slice)
  <2> HIDE DEF k, x, a, b
  <2>6. /\ x \in Nat /\ b = a + x /\ a \in Nat /\ b <= s.target
        /\ ~ s.failed /\ ~ s.slice_consumed => SentVolume(s) <= a /\ (ActiveStrategy \/ SentVolume(s) = a)
    BY <2>2, <2>4, <2>5 DEF a, b
  <2>7. /\ Budget(s) \in Nat /\ ConfirmedTraded(s) + Budget(s) <= s.target /\ Budget(s) <= x
        /\ ~ s.failed /\ ~ s.slice_consumed /\ SentVolume(s) = a => Budget(s) = x
    BY <1>1, <1>2, <1>3, <2>1, <2>6 DEF Smaller
  <2>8. /\ volume \in Nat \ {0} /\ volume <= Budget(s) /\ (ActiveStrategy \/ volume = Budget(s))
    BY <2>7 DEF Takes
  <2>9. ASSUME ~ s.failed, ~ s.slice_consumed
        PROVE  SentVolume(s) + volume <= b /\ (ActiveStrategy \/ SentVolume(s) + volume = b)
    BY <1>2, <2>6, <2>7, <2>8, <2>9
  <2> QED BY <1>1, <1>2, <1>5, <2>1, <2>7, <2>8, <2>9 DEF k, b
<1> QED BY <1>6, <1>7

\* A budget is a volume.
LEMMA BudgetNat ==
  ASSUME NEW s \in Session, Balanced(s), Schedule(s)
  PROVE  Budget(s) \in Nat
<1>1. s.target \in Nat /\ s.slice \in Nat
  BY DEF Session
<1>2. SchedulableVolume(s) \in Nat
  BY <1>1, LedgerSums DEF SchedulableVolume, RemainingTarget, Less
<1>3. ClipVolume \in Nat /\ SliceCount(s.target) \in Nat /\ Len(TwapSlicePlan(s.target)) = SliceCount(s.target)
  BY <1>1, SliceCountNat, PlanFacts
<1>4. s.algo = "TWAP" /\ ~ SlicesDone(s) => TwapSlicePlan(s.target)[s.slice] \in Nat
  <2> SUFFICES ASSUME s.algo = "TWAP", ~ SlicesDone(s) PROVE TwapSlicePlan(s.target)[s.slice] \in Nat
    OBVIOUS
  <2>1. s.slice \in 1 .. SliceCount(s.target) /\ SliceCount(s.target) # 0
    BY <1>1, <1>3 DEF Schedule, SlicesDone
  <2> QED BY <1>1, <2>1, SliceSums
<1> QED BY <1>2, <1>3, <1>4 DEF Budget, Smaller

\* The session after its child c has gone out.
SentSession(s, c, volume) ==
  [s EXCEPT !.ledgers = Put(s.ledgers, c, [entrust |-> volume, traded |-> 0, cancelled |-> 0,
                                           finalized |-> FALSE, state |-> "TraderSubmitted"]),
            !.slice_consumed = (s.algo = "TWAP")]

\* The session t is s with a child c sent.
ChildSent(t, s, c, volume) ==
  /\ t \in Session /\ Balanced(t) /\ Schedule(t)
  /\ DOMAIN t.ledgers = DOMAIN s.ledgers \cup {c}
  /\ t.ledgers[c] = [entrust |-> volume, traded |-> 0, cancelled |-> 0,
                     finalized |-> FALSE, state |-> "TraderSubmitted"]
  /\ \A d \in DOMAIN s.ledgers : t.ledgers[d] = s.ledgers[d]
  /\ ConfirmedTraded(t) = ConfirmedTraded(s)
  /\ t.target = s.target /\ t.failed = s.failed /\ t.terminal = s.terminal /\ t.algo = s.algo

\* A session stays sound and within its schedule when a child of its budget is sent.
LEMMA SentSessionFacts ==
  ASSUME NEW s \in Session, Balanced(s), Schedule(s), WorkingVolume(s) = 0, NEW volume, Takes(s, volume),
         s.algo = "TWAP" => ~ s.slice_consumed, s.terminal => s.failed,
         NEW c \in Nat, c \notin DOMAIN s.ledgers, NEW t, t = SentSession(s, c, volume)
  PROVE  ChildSent(t, s, c, volume)
<1> DEFINE l == [entrust |-> volume, traded |-> 0, cancelled |-> 0,
                 finalized |-> FALSE, state |-> "TraderSubmitted"]
           ls == Put(s.ledgers, c, l)
<1>1. /\ s.target \in Nat /\ s.slice \in Nat /\ s.slice_consumed \in BOOLEAN /\ s.algo \in SupportedStrategies
      /\ s.failed \in BOOLEAN /\ s.terminal \in BOOLEAN
  BY DEF Session
<1>2. /\ volume \in Nat \ {0} /\ CommittedVolume(s) + volume <= s.target
      /\ s.algo = "TWAP" => s.slice <= SliceCount(s.target)
      /\ s.algo = "TWAP" /\ ~ s.failed /\ ~ s.slice_consumed =>
              /\ SentVolume(s) + volume <= FirstSlices(s.target, s.slice)
              /\ ActiveStrategy \/ SentVolume(s) + volume = FirstSlices(s.target, s.slice)
  BY BudgetFacts
<1>3. l \in Ledger /\ l.entrust = volume /\ l.traded = 0 /\ l.cancelled = 0 /\ ~ l.finalized
  BY <1>2 DEF Ledger, OrderState
<1>4. ls \in Tables(Ledger)
  BY <1>3, SessionFacts, PutTable
<1>5. /\ t = [s EXCEPT !.ledgers = ls, !.slice_consumed = (s.algo = "TWAP")]
  BY DEF SentSession
<1>6. /\ DOMAIN ls = DOMAIN s.ledgers \cup {c} /\ ls[c] = l
      /\ \A d \in DOMAIN s.ledgers : ls[d] = s.ledgers[d]
  BY DEF Put
<1> HIDE DEF ls
<1>7. /\ t \in Session /\ t.ledgers = ls /\ t.slice_consumed = (s.algo = "TWAP")
      /\ t.target = s.target /\ t.failed = s.failed /\ t.terminal = s.terminal /\ t.algo = s.algo
      /\ t.slice = s.slice /\ t.cancel_requested = s.cancel_requested
  BY <1>4, <1>5 DEF Session
<1>8. /\ Balanced(t) /\ ConfirmedTraded(t) = ConfirmedTraded(s)
      /\ SentVolume(t) = SentVolume(s) + volume
      /\ CommittedVolume(t) = CommittedVolume(s) + volume
  <2>1. t.ledgers = Put(s.ledgers, c, l)
    BY <1>7 DEF ls
  <2> HIDE DEF l
  <2> QED BY <1>3, <1>7, <2>1, LedgerPut
<1>9. Cardinality(DOMAIN t.ledgers) = Cardinality(DOMAIN s.ledgers) + 1
  BY <1>6, <1>7, FS_AddElement DEF Balanced
<1>10. s.algo = "TWAP" /\ ~ s.failed => Sliced(t)
  <2> SUFFICES ASSUME s.algo = "TWAP", ~ s.failed PROVE Sliced(t)
    OBVIOUS
  <2>1. Cardinality(DOMAIN s.ledgers) = s.slice - 1 /\ Slices(t) = s.slice
    BY <1>7 DEF Schedule, Sliced, Slices
  <2> QED BY <1>1, <1>2, <1>7, <1>8, <1>9, <2>1 DEF Sliced
<1>11. Schedule(t)
  BY <1>1, <1>2, <1>7, <1>8, <1>10 DEF Schedule
<1> QED BY <1>6, <1>7, <1>8, <1>11 DEF ChildSent

\* A session that ends without a failure has been worked off.
LEMMA EndsFacts ==
  ASSUME NEW s \in Session, Balanced(s), Schedule(s), Ends(s), ~ s.failed
  PROVE  WorkingVolume(s) = 0 /\ FullyWorked(s)
<1>1. /\ s.target \in Nat /\ s.slice \in Nat /\ s.slice_consumed \in BOOLEAN /\ s.algo \in SupportedStrategies
  BY DEF Session
<1>2. WorkingVolume(s) = 0 /\ IF s.algo = "TWAP" THEN SlicesDone(s) ELSE RemainingTarget(s) = 0
  BY DEF Ends, Schedule
<1>3. CASE s.algo # "TWAP"
  <2>1. ConfirmedTraded(s) \in Nat /\ CommittedVolume(s) = ConfirmedTraded(s) /\ CommittedVolume(s) <= s.target
    BY <1>2, LedgerSums DEF Schedule
  <2> QED BY <1>1, <1>2, <1>3, <2>1 DEF RemainingTarget, Less, FullyWorked
<1>4. CASE s.algo = "TWAP"
  <2>1. Len(TwapSlicePlan(s.target)) = SliceCount(s.target) /\ SliceCount(s.target) \in Nat
    BY <1>1, SliceCountNat, PlanFacts
  <2>2. s.slice = SliceCount(s.target) + 1 /\ ~ s.slice_consumed /\ SliceCount(s.target) # 0
    BY <1>1, <1>2, <1>4, <2>1 DEF Schedule, SlicesDone
  <2>3. Slices(s) = SliceCount(s.target)
    BY <2>1, <2>2 DEF Slices
  <2>4. /\ Cardinality(DOMAIN s.ledgers) = SliceCount(s.target)
        /\ ActiveStrategy \/ SentVolume(s) = FirstSlices(s.target, SliceCount(s.target))
    BY <1>4, <2>3 DEF Schedule, Sliced
  <2> QED BY <1>1, <1>2, <1>4, <2>1, <2>2, <2>4, SliceSums DEF FullyWorked
<1> QED BY <1>3, <1>4

\* Ending a session, with a failure or worked off.
LEMMA EndedSession ==
  ASSUME NEW s \in Session, Balanced(s), Schedule(s), NEW failed \in BOOLEAN,
         ~ failed => Ends(s) /\ ~ s.failed,
         NEW t, t = [s EXCEPT !.failed = failed, !.terminal = TRUE]
  PROVE  /\ t \in Session /\ Balanced(t) /\ Schedule(t) /\ t.ledgers = s.ledgers /\ t.target = s.target
         /\ t.failed = failed /\ t.terminal /\ t.algo = s.algo /\ t.slice = s.slice
         /\ t.slice_consumed = s.slice_consumed
         /\ ConfirmedTraded(t) = ConfirmedTraded(s) /\ WorkingVolume(t) = WorkingVolume(s)
         /\ Budget(t) = Budget(s)
<1>1. /\ t \in Session /\ t.ledgers = s.ledgers /\ t.target = s.target
      /\ t.failed = failed /\ t.terminal = TRUE /\ t.algo = s.algo /\ t.slice = s.slice
      /\ t.slice_consumed = s.slice_consumed /\ t.cancel_requested = s.cancel_requested
  BY DEF Session
<1>2. /\ ConfirmedTraded(t) = ConfirmedTraded(s) /\ WorkingVolume(t) = WorkingVolume(s)
      /\ SentVolume(t) = SentVolume(s) /\ CommittedVolume(t) = CommittedVolume(s)
      /\ Balanced(t)
  BY <1>1, SameLedgers
<1>3. ~ failed => WorkingVolume(s) = 0 /\ FullyWorked(s)
  BY EndsFacts
<1>4. Slices(t) = Slices(s)
  BY <1>1 DEF Slices
<1>5. Schedule(t)
  <2>1. (Sliced(s) => Sliced(t)) /\ (FullyWorked(s) => FullyWorked(t))
    BY <1>1, <1>2, <1>4 DEF Sliced, FullyWorked
  <2>2. s.algo = "TWAP" /\ ~ t.failed => Sliced(s)
    BY <1>1 DEF Schedule
  <2> QED BY <1>1, <1>2, <1>3, <2>1, <2>2 DEF Schedule
<1>6. Budget(t) = Budget(s)
  BY <1>1, <1>2 DEF Budget, SlicesDone, SchedulableVolume, RemainingTarget
<1> QED BY <1>1, <1>2, <1>5, <1>6

\* What the ledger of a child becomes when r reports on it.
HeardLedger(l, r) == [l EXCEPT !.traded = Smaller(l.entrust, l.traded + r.volume_traded), !.state = r.new_state]

EndedLedger(l, r) ==
  [HeardLedger(l, r) EXCEPT !.cancelled = IF r.new_state = "Finished"
                                          THEN FinishedCancelled(HeardLedger(l, r), r.cancelled_volume)
                                          ELSE Unresolved(HeardLedger(l, r)),
                            !.finalized = TRUE]

\* A report moves a ledger's volume to traded, and at the end the rest to cancelled.
LEMMA HeardLedgerFacts ==
  ASSUME NEW l \in Ledger, NEW r \in Reports, ~ l.finalized, l.cancelled = 0,
         l.traded + r.volume_traded <= l.entrust,
         NEW m, m = HeardLedger(l, r) \/ m = EndedLedger(l, r)
  PROVE  /\ m \in Ledger /\ m.entrust = l.entrust /\ m.traded = l.traded + r.volume_traded
         /\ m.traded + m.cancelled <= m.entrust
         /\ ~ m.finalized => m.cancelled = 0
         /\ m = HeardLedger(l, r) => ~ m.finalized
         /\ Unresolved(m) <= Unresolved(l) /\ Committed(m) <= Committed(l)
<1>1. /\ l.entrust \in Nat \ {0} /\ l.traded \in Nat /\ l.cancelled \in Nat /\ l.finalized \in BOOLEAN
      /\ r.volume_traded \in Nat /\ r.cancelled_volume \in Nat /\ r.new_state \in OrderState
  BY DEF Ledger, Reports, OrderState
<1> DEFINE h == HeardLedger(l, r)
<1>2. Smaller(l.entrust, l.traded + r.volume_traded) = l.traded + r.volume_traded
  BY <1>1 DEF Smaller
<1>3. /\ h \in Ledger /\ h.entrust = l.entrust /\ h.traded = l.traded + r.volume_traded
      /\ h.cancelled = l.cancelled /\ h.finalized = l.finalized
  <2> DEFINE x == [l EXCEPT !.traded = l.traded + r.volume_traded]
  <2>1. /\ x \in Ledger /\ x.entrust = l.entrust /\ x.traded = l.traded + r.volume_traded
        /\ x.cancelled = l.cancelled /\ x.finalized = l.finalized
    BY <1>1 DEF Ledger
  <2>2. h = [x EXCEPT !.state = r.new_state]
    BY <1>2 DEF HeardLedger, Ledger
  <2> HIDE DEF x, h
  <2>3. /\ h \in Ledger /\ h.entrust = x.entrust /\ h.traded = x.traded
        /\ h.cancelled = x.cancelled /\ h.finalized = x.finalized
    BY <1>1, <2>1, <2>2 DEF Ledger
  <2> QED BY <2>1, <2>3
<1>4. CASE m = h
  BY <1>1, <1>3, <1>4 DEF Unresolved, Committed, Less
<1>5. CASE m = EndedLedger(l, r)
  <2> DEFINE x == IF r.new_state = "Finished" THEN FinishedCancelled(h, r.cancelled_volume) ELSE Unresolved(h)
  <2> HIDE DEF h
  <2>1. m = [h EXCEPT !.cancelled = x, !.finalized = TRUE]
    BY <1>5 DEF EndedLedger, h
  <2>2. x \in Nat /\ h.traded + x <= h.entrust
    BY <1>1, <1>3 DEF FinishedCancelled, Unresolved, Less, Smaller
  <2> HIDE DEF x
  <2>3. /\ m \in Ledger /\ m.entrust = h.entrust /\ m.traded = h.traded /\ m.cancelled = x /\ m.finalized = TRUE
    BY <1>3, <2>1, <2>2 DEF Ledger
  <2>4. m # h
    BY <1>3, <2>3
  <2>5. /\ Unresolved(m) = 0 /\ Committed(m) = h.traded /\ Committed(l) = l.entrust /\ Unresolved(l) \in Nat
    BY <1>1, <2>3 DEF Unresolved, Committed, Less
  <2> QED BY <1>1, <1>3, <2>2, <2>3, <2>4, <2>5 DEF h
<1> QED BY <1>4, <1>5

\* A session stays sound when it hears a report of one of its children.
LEMMA HeardSession ==
  ASSUME NEW s \in Session, Balanced(s), Schedule(s), s.terminal => s.failed,
         NEW r \in Reports, NEW c, c = r.internal_order_id, c \in DOMAIN s.ledgers,
         ~ s.ledgers[c].finalized, s.ledgers[c].traded + r.volume_traded <= s.ledgers[c].entrust,
         NEW t, t = OnTradeResponse(s, r)
  PROVE  /\ t \in Session /\ Balanced(t) /\ Schedule(t) /\ DOMAIN t.ledgers = DOMAIN s.ledgers
         /\ \A d \in DOMAIN s.ledgers \ {c} : t.ledgers[d] = s.ledgers[d]
         /\ t.ledgers[c] \in Ledger
         /\ t.ledgers[c].entrust = s.ledgers[c].entrust
         /\ t.ledgers[c].traded = s.ledgers[c].traded + r.volume_traded
         /\ t.ledgers[c].traded + t.ledgers[c].cancelled <= t.ledgers[c].entrust
         /\ ~ t.ledgers[c].finalized => t.ledgers[c].cancelled = 0
         /\ t.ledgers[c].finalized => r.new_state \in TerminalState
         /\ ConfirmedTraded(t) = ConfirmedTraded(s) + r.volume_traded
         /\ t.target = s.target /\ t.terminal = s.terminal /\ (t.terminal => t.failed)
<1> DEFINE l == s.ledgers[c]
           m == IF r.new_state \in FailureStates \cup {"Finished"} THEN EndedLedger(l, r) ELSE HeardLedger(l, r)
           failed == s.failed \/ r.new_state \in FailureStates
           u == [s EXCEPT !.ledgers = [s.ledgers EXCEPT ![c] = m], !.failed = failed]
<1>1. l \in Ledger /\ l.cancelled = 0 /\ l.traded \in Nat /\ r.volume_traded \in Nat
  BY SessionFacts DEF Balanced, Ledger, Reports
<1>2. m = HeardLedger(l, r) \/ m = EndedLedger(l, r)
  OBVIOUS
<1>3. r.new_state \in FailureStates => r.new_state \in FailureStates \cup {"Finished"}
  OBVIOUS
<1>4. t = IF r.new_state \in FailureStates \cup {"Finished"} THEN AdvanceSlice(u) ELSE u
  <2>1. CASE r.new_state \in FailureStates \cup {"Finished"}
    BY <2>1 DEF OnTradeResponse, HeardLedger, EndedLedger
  <2>2. CASE r.new_state \notin FailureStates \cup {"Finished"}
    <3>1. t = [s EXCEPT !.ledgers[c] = m]
      BY <2>2 DEF OnTradeResponse, HeardLedger
    <3>2. failed = s.failed
      BY <2>2, <1>3 DEF Session
    <3>3. u = [s EXCEPT !.ledgers = [s.ledgers EXCEPT ![c] = m]]
      BY <3>2 DEF Session
    <3> QED BY <2>2, <3>1, <3>3
  <2> QED BY <2>1, <2>2
<1>5. /\ m \in Ledger /\ m.entrust = l.entrust /\ m.traded = l.traded + r.volume_traded
      /\ m.traded + m.cancelled <= m.entrust
      /\ ~ m.finalized => m.cancelled = 0
      /\ m.finalized => r.new_state \in FailureStates \cup {"Finished"}
      /\ Unresolved(m) <= Unresolved(l) /\ Committed(m) <= Committed(l)
  <2>1. \/ m = HeardLedger(l, r) /\ r.new_state \notin FailureStates \cup {"Finished"}
        \/ m = EndedLedger(l, r) /\ r.new_state \in FailureStates \cup {"Finished"}
    OBVIOUS
  <2> HIDE DEF l, m
  <2>2. /\ ~ l.finalized /\ l.traded + r.volume_traded <= l.entrust
    BY DEF l
  <2> QED BY <1>1, <2>1, <2>2, HeardLedgerFacts
<1>6. FailureStates \cup {"Finished"} \subseteq TerminalState
  BY DEF FailureStates, TerminalState
<1> HIDE DEF m
<1>7. [s.ledgers EXCEPT ![c] = m] \in Tables(Ledger)
  BY <1>5, SessionFacts, ExceptTable
<1>8. failed \in BOOLEAN
  BY DEF Session
<1> HIDE DEF failed
<1>9. /\ u \in Session /\ u.ledgers = [s.ledgers EXCEPT ![c] = m] /\ u.failed = failed
      /\ u.target = s.target /\ u.terminal = s.terminal /\ u.algo = s.algo /\ u.slice = s.slice
      /\ u.slice_consumed = s.slice_consumed /\ u.cancel_requested = s.cancel_requested
  BY <1>7, <1>8 DEF Session
<1> HIDE DEF u, l
<1>10. /\ Balanced(u)
       /\ ConfirmedTraded(u) = (ConfirmedTraded(s) - l.traded) + m.traded
       /\ SentVolume(u) = SentVolume(s)
       /\ WorkingVolume(u) <= WorkingVolume(s)
       /\ CommittedVolume(u) <= CommittedVolume(s)
  BY <1>5, <1>9, LedgerUpdate DEF l
<1>11. /\ ConfirmedTraded(s) \in Nat /\ WorkingVolume(s) \in Nat /\ WorkingVolume(u) \in Nat
       /\ CommittedVolume(s) \in Nat /\ CommittedVolume(u) \in Nat
  BY <1>9, <1>10, LedgerSums
<1>12. s.failed => failed
  BY DEF failed
<1>13. Schedule(u)
  <2>1. Slices(u) = Slices(s)
    BY <1>9 DEF Slices
  <2>2. CommittedVolume(u) <= s.target
    <3>1. s.target \in Nat /\ CommittedVolume(s) <= s.target
      BY DEF Session, Schedule
    <3> QED BY <1>10, <1>11, <3>1
  <2>3. s.algo = "TWAP" /\ ~ s.slice_consumed => WorkingVolume(u) = 0
    <3>1. s.algo = "TWAP" /\ ~ s.slice_consumed => WorkingVolume(s) = 0
      BY DEF Schedule
    <3> QED BY <1>10, <1>11, <3>1
  <2>4. Sliced(s) => Sliced(u)
    <3>1. DOMAIN u.ledgers = DOMAIN s.ledgers
      BY <1>9
    <3> QED BY <1>9, <1>10, <2>1, <3>1 DEF Sliced
  <2> QED BY <1>9, <1>10, <1>12, <2>2, <2>3, <2>4 DEF Schedule
<1>14. /\ DOMAIN u.ledgers = DOMAIN s.ledgers /\ u.ledgers[c] = m
       /\ \A d \in DOMAIN s.ledgers \ {c} : u.ledgers[d] = s.ledgers[d]
  BY <1>9, SessionFacts
<1>15. ConfirmedTraded(u) = ConfirmedTraded(s) + r.volume_traded
  BY <1>1, <1>5, <1>10, <1>11
<1>16. /\ t \in Session /\ Balanced(t) /\ Schedule(t) /\ t.ledgers = u.ledgers
       /\ t.target = u.target /\ t.failed = u.failed /\ t.terminal = u.terminal
  BY <1>4, <1>9, <1>10, <1>13, AdvanceSliceFacts
<1>17. ConfirmedTraded(t) = ConfirmedTraded(u)
  BY <1>16, SameLedgers
<1>18. t.terminal => t.failed
  BY <1>9, <1>12, <1>16
<1> QED BY <1>5, <1>6, <1>9, <1>14, <1>15, <1>16, <1>17, <1>18 DEF l

-----------------------------------------------------------------------------
(* Steps that leave the children alone.                                     *)

\* Nothing changes when an id is handed out and not used.
LEMMA IdTaken ==
  ASSUME NEW n, NEW up, NEW dn, NEW rs, NEW bk, NEW ch, NEW ss, NEW br,
         Sound(n, up, dn, rs, bk, ch, ss, br)
  PROVE  Sound(n + 1, up, dn, rs, bk, ch, ss, br)
<1>1. n \in Nat \ {0} /\ Issued(n) \subseteq Issued(n + 1)
  BY IssuedFacts DEF Sound, Typed
<1>2. Typed(n + 1, up, dn, rs, bk, ch, ss, br)
  BY <1>1 DEF Sound, Typed
<1>3. Families(n + 1, ch)
  <2>1. Families(n, ch)
    BY DEF Sound
  <2> QED BY <1>1, <2>1 DEF Families
<1>4. Waiters(n + 1, up, bk, ch)
  <2>1. Waiters(n, up, bk, ch)
    BY DEF Sound
  <2> QED BY <1>1, <2>1 DEF Waiters
<1>5. Parented(n + 1, bk, ch, ss)
  <2>1. Parented(n, bk, ch, ss)
    BY DEF Sound
  <2> QED BY <1>1, <2>1 DEF Parented
<1> QED BY <1>2, <1>3, <1>4, <1>5 DEF Sound

\* A client puts a request with a new id in the queue.
LEMMA RequestQueued ==
  ASSUME NEW n, NEW up, NEW dn, NEW rs, NEW bk, NEW ch, NEW ss, NEW br,
         Sound(n, up, dn, rs, bk, ch, ss, br),
         NEW q \in Request, q.id = n, q.order_type = "New" => q.volume # 0
  PROVE  Sound(n + 1, Append(up, q), dn, rs, bk, ch, ss, br)
<1>1. Sound(n + 1, up, dn, rs, bk, ch, ss, br)
  BY IdTaken
<1>2. n \in Issued(n + 1) /\ n \notin Issued(n) /\ up \in Seq(Request) /\ n \in Nat
  BY IssuedFacts DEF Sound, Typed
<1>3. n \notin DOMAIN bk /\ n \notin DOMAIN ch /\ \A p \in DOMAIN ch : n \notin Kids(ch, p)
  BY <1>2 DEF Sound, Families, Parented
<1>4. Waiters(n, up, bk, ch) /\ Waiters(n + 1, up, bk, ch)
  BY <1>1 DEF Sound
<1> DEFINE t == Append(up, q)
           N == Len(up)
<1>5. /\ t \in Seq(Request) /\ DOMAIN t = 1 .. N + 1 /\ DOMAIN up = 1 .. N /\ t[N + 1] = q
      /\ \A i \in 1 .. N : t[i] = up[i]
      /\ N \in Nat
  BY <1>2
<1> HIDE DEF t, N
<1>6. \A i \in 1 .. N : t[i].id \in Issued(n)
  BY <1>4, <1>5 DEF Waiters
<1>7. Waiters(n + 1, t, bk, ch)
  <2>1. ASSUME NEW i \in DOMAIN t
        PROVE  /\ t[i].id \in Issued(n + 1)
               /\ t[i].id \notin DOMAIN bk /\ t[i].id \notin DOMAIN ch
               /\ \A p \in DOMAIN ch : t[i].id \notin Kids(ch, p)
               /\ t[i].order_type = "New" => t[i].volume # 0
    <3>1. CASE i = N + 1
      BY <3>1, <1>2, <1>3, <1>5
    <3>2. CASE i \in 1 .. N
      BY <3>2, <1>4, <1>5 DEF Waiters
    <3> QED BY <1>5, <3>1, <3>2
  <2>2. ASSUME NEW i \in DOMAIN t, NEW j \in DOMAIN t, t[i].id = t[j].id PROVE i = j
    <3>1. CASE i = N + 1 \/ j = N + 1
      BY <1>2, <1>5, <1>6, <2>2, <3>1
    <3>2. CASE i \in 1 .. N /\ j \in 1 .. N
      BY <1>4, <1>5, <2>2, <3>2 DEF Waiters
    <3> QED BY <1>5, <3>1, <3>2
  <2> QED BY <2>1, <2>2 DEF Waiters
<1>8. Typed(n + 1, t, dn, rs, bk, ch, ss, br)
  BY <1>1, <1>5 DEF Sound, Typed
<1>9. Sound(n + 1, t, dn, rs, bk, ch, ss, br)
  BY <1>1, <1>7, <1>8 DEF Sound
<1> QED BY <1>9 DEF t

\* The loop takes the oldest request, whose id nobody knows yet.
LEMMA RequestTaken ==
  ASSUME NEW n, NEW up, NEW dn, NEW rs, NEW bk, NEW ch, NEW ss, NEW br,
         Sound(n, up, dn, rs, bk, ch, ss, br), up # <<>>
  PROVE  /\ Sound(n, Tail(up), dn, rs, bk, ch, ss, br)
         /\ Head(up) \in Request /\ Head(up).id \in Issued(n)
         /\ Head(up).id \notin DOMAIN bk /\ Head(up).id \notin DOMAIN ch
         /\ \A p \in DOMAIN ch : Head(up).id \notin Kids(ch, p)
         /\ Head(up).order_type = "New" => Head(up).volume # 0
         /\ \A i \in DOMAIN Tail(up) : Tail(up)[i].id # Head(up).id
<1>1. up \in Seq(Request)
  BY DEF Sound, Typed
<1> DEFINE t == Tail(up)
           q == Head(up)
           N == Len(up)
<1>2. /\ t \in Seq(Request) /\ q \in Request /\ N \in Nat \ {0} /\ DOMAIN up = 1 .. N /\ DOMAIN t = 1 .. N - 1
      /\ q = up[1] /\ \A i \in 1 .. N - 1 : t[i] = up[i + 1]
  BY <1>1
<1> HIDE DEF t, q, N
<1>3. Waiters(n, up, bk, ch)
  BY DEF Sound
<1>4. 1 \in DOMAIN up /\ \A i \in DOMAIN t : i + 1 \in DOMAIN up /\ i + 1 # 1 /\ t[i] = up[i + 1]
  BY <1>2
<1>5. /\ q.id \in Issued(n) /\ q.id \notin DOMAIN bk /\ q.id \notin DOMAIN ch
      /\ \A p \in DOMAIN ch : q.id \notin Kids(ch, p)
      /\ q.order_type = "New" => q.volume # 0
  BY <1>2, <1>3, <1>4 DEF Waiters
<1>6. \A i \in DOMAIN t : t[i].id # q.id
  BY <1>2, <1>3, <1>4 DEF Waiters
<1>7. Waiters(n, t, bk, ch)
  <2>1. \A i, j \in DOMAIN t : t[i].id = t[j].id => i = j
    <3>1. ASSUME NEW i \in DOMAIN t, NEW j \in DOMAIN t, t[i].id = t[j].id PROVE i = j
      <4>1. i + 1 = j + 1
        BY <1>3, <1>4, <3>1 DEF Waiters
      <4> QED BY <1>2, <4>1
    <3> QED BY <3>1
  <2>2. \A i \in DOMAIN t :
          /\ t[i].id \in Issued(n)
          /\ t[i].id \notin DOMAIN bk /\ t[i].id \notin DOMAIN ch
          /\ \A p \in DOMAIN ch : t[i].id \notin Kids(ch, p)
          /\ t[i].order_type = "New" => t[i].volume # 0
    BY <1>3, <1>4 DEF Waiters
  <2> QED BY <2>1, <2>2 DEF Waiters
<1>8. Typed(n, t, dn, rs, bk, ch, ss, br)
  BY <1>2 DEF Sound, Typed
<1>9. Sound(n, t, dn, rs, bk, ch, ss, br)
  BY <1>7, <1>8 DEF Sound
<1> QED BY <1>2, <1>5, <1>6, <1>9 DEF t, q

\* The book may learn ids nobody else uses, and what it says of the parents with a
\* session may change, as long as the children's entries stay.
LEMMA BookChanged ==
  ASSUME NEW n, NEW up, NEW dn, NEW rs, NEW bk, NEW ch, NEW ss, NEW br,
         Sound(n, up, dn, rs, bk, ch, ss, br),
         NEW bk2 \in Tables(BookEntry), Cardinality(DOMAIN bk2) <= BookCapacity,
         DOMAIN bk \subseteq DOMAIN bk2, DOMAIN bk2 \subseteq Issued(n),
         \A i \in DOMAIN up : up[i].id \notin DOMAIN bk2,
         \A p \in DOMAIN ch : \A c \in Kids(ch, p) :
           /\ c \in DOMAIN bk2 => c \in DOMAIN bk
           /\ c \in DOMAIN bk => bk2[c] = bk[c],
         \A p \in DOMAIN ch \cup DOMAIN ss :
           bk2[p].order_type = bk[p].order_type /\ bk2[p].volume_entrust = bk[p].volume_entrust,
         \A p \in DOMAIN ch \ DOMAIN ss :
           \/ bk2[p].order_state = "TraderError"
           \/ bk2[p].order_state = bk[p].order_state /\ bk2[p].volume_traded = bk[p].volume_traded
  PROVE  Sound(n, up, dn, rs, bk2, ch, ss, br)
<1> DEFINE kids == UNION {Kids(ch, p) : p \in DOMAIN ch}
<1>1. \A c \in kids : /\ c \in DOMAIN bk2 <=> c \in DOMAIN bk
                      /\ c \in DOMAIN bk => bk2[c] = bk[c]
                      /\ Live(bk2, c) <=> Live(bk, c)
  BY DEF Live
<1>2. \A p \in DOMAIN ch : Kids(ch, p) \subseteq kids
  OBVIOUS
<1>3. \A c \in Range(dn) \cup DOMAIN br : c \in kids
  BY DEF Sound, Belongs
<1>4. \A p : p \notin DOMAIN ch => Kids(ch, p) = {}
  BY DEF Kids, Sent, Range
<1> HIDE DEF kids
<1>5. Typed(n, up, dn, rs, bk2, ch, ss, br) /\ Bounded(dn, bk2)
  BY DEF Sound, Typed, Bounded
<1>6. Waiters(n, up, bk2, ch)
  BY DEF Sound, Waiters
<1>7. Parented(n, bk2, ch, ss)
  <2>1. Parented(n, bk, ch, ss)
    BY DEF Sound
  <2> QED BY <2>1 DEF Parented
<1>8. OnItsWay(dn, rs, br, bk2)
  <2>1. OnItsWay(dn, rs, br, bk)
    BY DEF Sound
  <2> QED BY <1>1, <1>3, <2>1 DEF OnItsWay
<1>9. Booked(rs, br, bk2, ch)
  <2>1. Booked(rs, br, bk, ch)
    BY DEF Sound
  <2>2. ASSUME NEW p \in DOMAIN ch, NEW c \in Kids(ch, p) \cap DOMAIN bk2 PROVE ChildEntry(c, rs, br, bk2)
    <3>1. c \in DOMAIN bk /\ bk2[c] = bk[c] /\ (Live(bk2, c) <=> Live(bk, c))
      BY <1>1, <1>2
    <3>2. ChildEntry(c, rs, br, bk)
      BY <2>1, <3>1 DEF Booked
    <3> QED BY <3>1, <3>2 DEF ChildEntry
  <2> QED BY <2>2 DEF Booked
<1>10. OneLive(bk2, ch)
  <2>1. OneLive(bk, ch)
    BY DEF Sound
  <2> QED BY <1>1, <1>2, <2>1 DEF OneLive
<1>11. Worked(dn, rs, br, bk2, ch, ss)
  <2>1. ASSUME NEW p \in DOMAIN ss PROVE SessionTrue(p, ss[p], dn, rs, br, bk2, ch)
    <3>1. SessionTrue(p, ss[p], dn, rs, br, bk, ch)
      BY DEF Sound, Worked
    <3>2. Kids(ch, p) \subseteq kids
      BY <1>2, <1>4
    <3>3. Ledgers(p, ss[p], dn, rs, br, bk2, ch)
      <4>1. Ledgers(p, ss[p], dn, rs, br, bk, ch)
        BY <3>1 DEF SessionTrue
      <4>2. ASSUME NEW c \in DOMAIN ss[p].ledgers PROVE LedgerTrue(ss[p].ledgers[c], c, dn, rs, br, bk2)
        <5>1. LedgerTrue(ss[p].ledgers[c], c, dn, rs, br, bk) /\ c \in kids
          BY <3>2, <4>1 DEF Ledgers
        <5> QED BY <1>1, <5>1 DEF LedgerTrue
      <4> QED BY <1>1, <3>2, <4>1, <4>2 DEF Ledgers
    <3> QED BY <3>1, <3>3 DEF SessionTrue
  <2> QED BY <2>1 DEF Worked
<1>12. Ended(dn, rs, br, bk2, ch, ss)
  <2>1. ASSUME NEW p \in DOMAIN ch \ DOMAIN ss PROVE Over(p, dn, rs, br, bk2, ch)
    <3>1. Over(p, dn, rs, br, bk, ch)
      BY DEF Sound, Ended
    <3>2. \A c \in SentOut(Kids(ch, p), dn, br) : ExposureOf(c, br, bk2) = ExposureOf(c, br, bk)
      <4>1. ASSUME NEW c \in SentOut(Kids(ch, p), dn, br) PROVE ExposureOf(c, br, bk2) = ExposureOf(c, br, bk)
        <5>1. c \in kids /\ (c \notin DOMAIN br => c \in Range(dn))
          BY <1>2 DEF SentOut
        <5>2. c \notin DOMAIN br => c \in DOMAIN bk
          BY <5>1 DEF Sound, OnItsWay, Live
        <5> QED BY <1>1, <5>1, <5>2 DEF ExposureOf
      <4> QED BY <4>1
    <3>3. ExposureSum(Kids(ch, p), dn, br, bk2) = ExposureSum(Kids(ch, p), dn, br, bk)
      <4>1. [c \in SentOut(Kids(ch, p), dn, br) |-> ExposureOf(c, br, bk2)]
              = [c \in SentOut(Kids(ch, p), dn, br) |-> ExposureOf(c, br, bk)]
        BY <3>2
      <4> QED BY <4>1 DEF ExposureSum
    <3> QED BY <3>1, <3>3 DEF Over
  <2> QED BY <2>1 DEF Ended
<1> QED BY <1>5, <1>6, <1>7, <1>8, <1>9, <1>10, <1>11, <1>12 DEF Sound

\* Sessions may change as long as each stays true to its children.
LEMMA SessionsChanged ==
  ASSUME NEW n, NEW up, NEW dn, NEW rs, NEW bk, NEW ch, NEW ss, NEW br,
         Sound(n, up, dn, rs, bk, ch, ss, br),
         NEW ss2 \in Tables(Session), DOMAIN ss2 = DOMAIN ss,
         \A p \in DOMAIN ss : SessionTrue(p, ss2[p], dn, rs, br, bk, ch)
  PROVE  Sound(n, up, dn, rs, bk, ch, ss2, br)
<1>1. Typed(n, up, dn, rs, bk, ch, ss2, br)
  BY DEF Sound, Typed
<1>2. Parented(n, bk, ch, ss2)
  BY DEF Sound, Parented
<1>3. Worked(dn, rs, br, bk, ch, ss2)
  BY DEF Worked
<1>4. Ended(dn, rs, br, bk, ch, ss2)
  BY DEF Sound, Ended
<1> QED BY <1>1, <1>2, <1>3, <1>4 DEF Sound

\* One session changes.
LEMMA SessionChanged ==
  ASSUME NEW n, NEW up, NEW dn, NEW rs, NEW bk, NEW ch, NEW ss, NEW br,
         Sound(n, up, dn, rs, bk, ch, ss, br),
         NEW p \in DOMAIN ss, NEW t \in Session, Schedule(t), t.ledgers = ss[p].ledgers, t.target = ss[p].target
  PROVE  Sound(n, up, dn, rs, bk, ch, [ss EXCEPT ![p] = t], br)
<1> DEFINE ss2 == [ss EXCEPT ![p] = t]
<1>1. ss \in Tables(Session)
  BY DEF Sound, Typed
<1>2. ss2 \in Tables(Session)
  BY <1>1, ExceptTable
<1>3. DOMAIN ss2 = DOMAIN ss /\ ss2[p] = t /\ \A q \in DOMAIN ss \ {p} : ss2[q] = ss[q]
  BY <1>1, TableFacts
<1>4. \A q \in DOMAIN ss : SessionTrue(q, ss[q], dn, rs, br, bk, ch)
  BY DEF Sound, Worked
<1> HIDE DEF ss2
<1>5. SessionTrue(p, ss2[p], dn, rs, br, bk, ch)
  <2>1. ConfirmedTraded(t) = ConfirmedTraded(ss[p])
    BY SameLedgers
  <2> QED BY <1>3, <1>4, <2>1 DEF SessionTrue, Ledgers
<1>6. \A q \in DOMAIN ss : SessionTrue(q, ss2[q], dn, rs, br, bk, ch)
  BY <1>3, <1>4, <1>5
<1>7. Sound(n, up, dn, rs, bk, ch, ss2, br)
  BY <1>2, <1>3, <1>6, SessionsChanged
<1> QED BY <1>7 DEF ss2

\* What soundness says of one session.
LEMMA SoundSession ==
  ASSUME NEW n, NEW up, NEW dn, NEW rs, NEW bk, NEW ch, NEW ss, NEW br,
         Sound(n, up, dn, rs, bk, ch, ss, br), NEW p \in DOMAIN ss
  PROVE  /\ ss[p] \in Session /\ Balanced(ss[p]) /\ Schedule(ss[p])
         /\ DOMAIN ss[p].ledgers \subseteq Kids(ch, p) /\ Kids(ch, p) \subseteq Issued(n)
         /\ IsFiniteSet(Kids(ch, p))
         /\ SessionTrue(p, ss[p], dn, rs, br, bk, ch)
         /\ ss[p].target = bk[p].volume_entrust /\ bk[p] \in BookEntry /\ p \in DOMAIN bk
         /\ bk[p].order_type = "New"
<1>1. ss[p] \in Session
  BY TableFacts DEF Sound, Typed
<1>2. SessionTrue(p, ss[p], dn, rs, br, bk, ch)
  BY DEF Sound, Worked
<1>3. Kids(ch, p) \subseteq Issued(n) /\ IsFiniteSet(Kids(ch, p))
  BY KidsFacts DEF Sound, Typed
<1>4. Ledgers(p, ss[p], dn, rs, br, bk, ch)
  BY <1>2 DEF SessionTrue
<1>5. Balanced(ss[p])
  <2>1. DOMAIN ss[p].ledgers \subseteq Kids(ch, p)
    BY <1>4 DEF Ledgers
  <2>2. IsFiniteSet(DOMAIN ss[p].ledgers)
    BY <1>3, <2>1, FS_Subset
  <2> QED BY <1>4, <2>2 DEF Balanced, Ledgers, LedgerTrue
<1>6. p \in DOMAIN bk /\ bk[p].order_type = "New"
  BY DEF Sound, Parented
<1>7. bk[p] \in BookEntry
  BY <1>6, TableFacts DEF Sound, Typed
<1> QED BY <1>1, <1>2, <1>3, <1>4, <1>5, <1>6, <1>7 DEF SessionTrue, Ledgers

\* What the typed parts hold.
LEMMA SoundTypes ==
  ASSUME NEW n, NEW up, NEW dn, NEW rs, NEW bk, NEW ch, NEW ss, NEW br,
         Sound(n, up, dn, rs, bk, ch, ss, br)
  PROVE  /\ rs \in Seq(Reports)
         /\ \A c : Queued(rs, c) \in Nat /\ (Quiet(rs, c) => Queued(rs, c) = 0)
         /\ \A c \in DOMAIN bk : bk[c] \in BookEntry
         /\ \A c \in DOMAIN br : br[c] \in BrokerOrder
         /\ \A c \in DOMAIN bk : bk[c].volume_entrust \in Nat /\ bk[c].volume_remain \in Nat /\ bk[c].volume_traded \in Nat
         /\ \A c \in DOMAIN br : br[c].entrust \in Nat /\ br[c].filled \in Nat
<1>1. rs \in Seq(Reports) /\ bk \in Tables(BookEntry) /\ br \in Tables(BrokerOrder)
  BY DEF Sound, Typed
<1>2. \A c : Queued(rs, c) \in Nat /\ (Quiet(rs, c) => Queued(rs, c) = 0)
  BY <1>1, QueuedFacts
<1>3. (\A c \in DOMAIN bk : bk[c] \in BookEntry) /\ (\A c \in DOMAIN br : br[c] \in BrokerOrder)
  BY <1>1, TableFacts
<1>4. \A c \in DOMAIN bk : bk[c].volume_entrust \in Nat /\ bk[c].volume_remain \in Nat /\ bk[c].volume_traded \in Nat
  BY <1>3 DEF BookEntry
<1>5. \A c \in DOMAIN br : br[c].entrust \in Nat /\ br[c].filled \in Nat
  BY <1>3 DEF BrokerOrder
<1> QED BY <1>1, <1>2, <1>3, <1>4, <1>5

\* A session's children cannot come to more than it has committed.
LEMMA ExposureBound ==
  ASSUME NEW n, NEW up, NEW dn, NEW rs, NEW bk, NEW ch, NEW ss, NEW br,
         Sound(n, up, dn, rs, bk, ch, ss, br), NEW p \in DOMAIN ss
  PROVE  ExposureSum(Kids(ch, p), dn, br, bk) <= bk[p].volume_entrust
<1> DEFINE s == ss[p]
           D == DOMAIN s.ledgers
           T == SentOut(Kids(ch, p), dn, br)
           co == [c \in D |-> Committed(s.ledgers[c])]
           ex == [c \in T |-> ExposureOf(c, br, bk)]
<1>1. /\ s \in Session /\ Balanced(s) /\ Schedule(s) /\ s.target = bk[p].volume_entrust /\ bk[p] \in BookEntry
      /\ Ledgers(p, s, dn, rs, br, bk, ch)
  BY SoundSession DEF SessionTrue
<1>2. CommittedVolume(s) = SumFunctionOnSet(co, D)
  BY SumOf DEF CommittedVolume
<1>3. ExposureSum(Kids(ch, p), dn, br, bk) = SumFunctionOnSet(ex, T)
  BY SumOf DEF ExposureSum
<1>4. IsFiniteSet(D)
  BY <1>1 DEF Balanced
<1>5. T \in SUBSET D
  <2>1. ASSUME NEW c \in T PROVE c \in D
    <3>1. c \in Kids(ch, p) /\ (c \in DOMAIN br \/ c \in Range(dn))
      BY DEF SentOut
    <3> QED BY <1>1, <3>1 DEF Ledgers
  <2> QED BY <2>1
<1>6. \A c \in D : s.ledgers[c] \in Ledger /\ LedgerTrue(s.ledgers[c], c, dn, rs, br, bk)
  BY <1>1, SessionFacts DEF Ledgers
<1>7. \A c \in D : co[c] \in Nat
  BY <1>6, LedgerNumbers
<1>8. ASSUME NEW c \in T PROVE ex[c] \in Nat /\ ex[c] <= co[c]
  <2> DEFINE l == s.ledgers[c]
  <2>1. c \in D /\ (c \in DOMAIN br \/ c \in Range(dn))
    BY <1>5 DEF SentOut
  <2>2. LedgerTrue(l, c, dn, rs, br, bk) /\ l \in Ledger
    BY <1>6, <2>1
  <2>3. l.entrust \in Nat /\ l.traded \in Nat /\ l.finalized \in BOOLEAN
    BY <2>2 DEF Ledger
  <2>4. co[c] = Committed(l) /\ ex[c] = ExposureOf(c, br, bk)
    BY <2>1
  <2> HIDE DEF l, co, ex, s
  <2>5. CASE c \notin DOMAIN br
    <3>1. c \in Range(dn) /\ c \in DOMAIN bk
      BY <2>1, <2>5 DEF Sound, OnItsWay, Live
    <3>2. ~ l.finalized /\ bk[c].volume_entrust = l.entrust
      BY <2>2, <3>1 DEF LedgerTrue
    <3> QED BY <2>3, <2>4, <2>5, <3>2 DEF ExposureOf, Committed
  <2>6. CASE c \in DOMAIN br
    <3>1. /\ br[c].entrust = l.entrust /\ l.traded + Queued(rs, c) = br[c].filled
          /\ l.finalized => Quiet(rs, c) /\ br[c].phase = "done"
      BY <2>2, <2>6 DEF LedgerTrue
    <3>2. br[c].filled <= br[c].entrust
      BY <2>6 DEF Sound, AtBroker
    <3>3. br[c].filled \in Nat /\ Queued(rs, c) \in Nat /\ (Quiet(rs, c) => Queued(rs, c) = 0)
      BY <2>6, SoundTypes
    <3> QED BY <2>3, <2>4, <2>6, <3>1, <3>2, <3>3 DEF ExposureOf, Committed
  <2> QED BY <2>5, <2>6
<1>9. CommittedVolume(s) <= bk[p].volume_entrust /\ bk[p].volume_entrust \in Nat
  BY <1>1 DEF Schedule, BookEntry
<1> HIDE DEF D, T, co, ex
<1>10. SumFunctionOnSet(ex, T) <= SumFunctionOnSet(co, D)
  BY <1>4, <1>5, <1>7, <1>8, SumLess
<1>11. SumFunctionOnSet(ex, T) \in Nat /\ SumFunctionOnSet(co, D) \in Nat
  <2>1. IsFiniteSet(T)
    BY <1>4, <1>5, FS_Subset
  <2> QED BY <1>4, <1>7, <1>8, <2>1, SumNat
<1> QED BY <1>2, <1>3, <1>9, <1>10, <1>11

\* A session that has nothing out any more.
LEMMA WorkedOff ==
  ASSUME NEW n, NEW up, NEW dn, NEW rs, NEW bk, NEW ch, NEW ss, NEW br,
         Sound(n, up, dn, rs, bk, ch, ss, br), NEW p \in DOMAIN ss, WorkingVolume(ss[p]) = 0
  PROVE  \A c \in Kids(ch, p) : NoMoreFills(c, dn, rs, br) /\ ~ Live(bk, c)
<1> DEFINE s == ss[p]
<1>1. s \in Session /\ Balanced(s) /\ Ledgers(p, s, dn, rs, br, bk, ch) /\ WorkingVolume(s) = 0
  BY SoundSession DEF SessionTrue
<1>2. \A c \in DOMAIN s.ledgers : s.ledgers[c].finalized \/ s.ledgers[c].traded = s.ledgers[c].entrust
  <2> HIDE DEF s
  <2> QED BY <1>1, LedgerSums
<1>3. ASSUME NEW c \in Kids(ch, p) PROVE NoMoreFills(c, dn, rs, br) /\ ~ Live(bk, c)
  <2>1. CASE c \notin DOMAIN s.ledgers
    <3>1. c \notin Range(dn) /\ c \notin DOMAIN br /\ Quiet(rs, c) /\ ~ Live(bk, c)
      BY <1>1, <2>1 DEF Ledgers
    <3> QED BY <3>1, SoundTypes DEF NoMoreFills
  <2>2. CASE c \in DOMAIN s.ledgers
    <3> DEFINE l == s.ledgers[c]
    <3>1. LedgerTrue(l, c, dn, rs, br, bk) /\ l \in Ledger /\ (l.finalized \/ l.traded = l.entrust)
      BY <1>1, <1>2, <2>2, SessionFacts DEF Ledgers
    <3> HIDE DEF l
    <3>2. CASE l.finalized
      <4>1. c \notin Range(dn) /\ Quiet(rs, c) /\ (c \in DOMAIN br => br[c].phase = "done") /\ ~ Live(bk, c)
        BY <3>1, <3>2 DEF LedgerTrue
      <4> QED BY <4>1, SoundTypes DEF NoMoreFills
    <3>3. CASE l.traded = l.entrust
      <4>1. l.entrust \in Nat \ {0} /\ l.traded \in Nat
        BY <3>1 DEF Ledger
      <4>2. c \in DOMAIN br /\ br[c].entrust = l.entrust /\ l.traded + Queued(rs, c) = br[c].filled
        BY <3>1, <3>3, <4>1 DEF LedgerTrue
      <4>3. br[c].filled <= br[c].entrust
        BY <4>2 DEF Sound, AtBroker
      <4>4. br[c].filled \in Nat /\ Queued(rs, c) \in Nat
        BY <4>2, SoundTypes
      <4>5. Queued(rs, c) = 0 /\ br[c].filled = br[c].entrust
        BY <3>3, <4>1, <4>2, <4>3, <4>4
      <4>6. c \notin Range(dn)
        BY <4>2 DEF Sound, OnItsWay
      <4>7. ~ Live(bk, c)
        <5>1. SUFFICES ASSUME Live(bk, c) PROVE FALSE
          OBVIOUS
        <5>2. p \in DOMAIN ch /\ c \in DOMAIN bk
          BY <5>1 DEF Kids, Sent, Range, Live
        <5>3. ChildEntry(c, rs, br, bk)
          BY <5>2 DEF Sound, Booked
        <5>4. bk[c].volume_remain # 0 /\ bk[c].volume_remain + br[c].filled = br[c].entrust + Queued(rs, c)
          BY <4>2, <5>1, <5>3 DEF ChildEntry
        <5>5. bk[c].volume_remain \in Nat /\ br[c].entrust \in Nat
          BY <4>2, <5>2, SoundTypes
        <5> QED BY <4>4, <4>5, <5>4, <5>5
      <4> QED BY <4>2, <4>5, <4>6, <4>7 DEF NoMoreFills
    <3> QED BY <3>1, <3>2, <3>3
  <2> QED BY <2>1, <2>2
<1> QED BY <1>3

\* Sessions that have ended are forgotten.
LEMMA SessionsForgotten ==
  ASSUME NEW n, NEW up, NEW dn, NEW rs, NEW bk, NEW ch, NEW ss, NEW br,
         Sound(n, up, dn, rs, bk, ch, ss, br),
         NEW D \in SUBSET DOMAIN ss,
         \A p \in DOMAIN ss \ D :
           /\ ss[p].terminal
           /\ ss[p].failed => bk[p].order_state = "TraderError"
           /\ bk[p].volume_traded = ConfirmedTraded(ss[p])
  PROVE  Sound(n, up, dn, rs, bk, ch, [p \in D |-> ss[p]], br)
<1> DEFINE ss2 == [p \in D |-> ss[p]]
<1>1. ss \in Tables(Session) /\ DOMAIN ss \subseteq Nat /\ \A p \in DOMAIN ss : ss[p] \in Session
  BY TableFacts DEF Sound, Typed
<1>2. DOMAIN ss2 = D /\ \A p \in D : ss2[p] = ss[p]
  OBVIOUS
<1>3. ss2 \in Tables(Session)
  <2>1. /\ ss2 = [x \in DOMAIN ss2 |-> ss2[x]] /\ DOMAIN ss2 \subseteq Nat /\ \A x \in DOMAIN ss2 : ss2[x] \in Session
    BY <1>1
  <2> HIDE DEF ss2
  <2> QED BY <2>1, TableIntro
<1> HIDE DEF ss2
<1>4. Typed(n, up, dn, rs, bk, ch, ss2, br)
  BY <1>3 DEF Sound, Typed
<1>5. Parented(n, bk, ch, ss2)
  BY <1>2 DEF Sound, Parented
<1>6. Worked(dn, rs, br, bk, ch, ss2)
  BY <1>2 DEF Sound, Worked
<1>7. Ended(dn, rs, br, bk, ch, ss2)
  <2>1. ASSUME NEW p \in DOMAIN ch \ DOMAIN ss2 PROVE Over(p, dn, rs, br, bk, ch)
    <3>1. CASE p \notin DOMAIN ss
      BY <3>1 DEF Sound, Ended
    <3>2. CASE p \in DOMAIN ss
      <4>1. /\ ss[p].terminal /\ (ss[p].failed => bk[p].order_state = "TraderError")
            /\ bk[p].volume_traded = ConfirmedTraded(ss[p])
        BY <1>2, <3>2
      <4>2. ExposureSum(Kids(ch, p), dn, br, bk) <= bk[p].volume_entrust
        BY <3>2, ExposureBound
      <4>3. ConfirmedTraded(ss[p]) = HandledOf(Kids(ch, p), rs, br)
        BY <3>2, SoundSession DEF SessionTrue
      <4>4. bk[p].order_state # "TraderError" => WorkingVolume(ss[p]) = 0
        BY <3>2, <4>1, SoundSession DEF Schedule
      <4> QED BY <3>2, <4>1, <4>2, <4>3, <4>4, WorkedOff DEF Over
    <3> QED BY <3>1, <3>2
  <2> QED BY <2>1 DEF Ended
<1>8. Sound(n, up, dn, rs, bk, ch, ss2, br)
  BY <1>4, <1>5, <1>6, <1>7 DEF Sound
<1> QED BY <1>8 DEF ss2

\* A session is started for an order the book has just learned of.
LEMMA SessionStarted ==
  ASSUME NEW n, NEW up, NEW dn, NEW rs, NEW bk, NEW ch, NEW ss, NEW br,
         Sound(n, up, dn, rs, bk, ch, ss, br),
         NEW p \in DOMAIN bk, p \notin DOMAIN ch, p \notin DOMAIN ss,
         \A q \in DOMAIN ch : p \notin Kids(ch, q),
         bk[p].order_type = "New",
         NEW s \in Session, Schedule(s), DOMAIN s.ledgers = {}, s.target = bk[p].volume_entrust
  PROVE  Sound(n, up, dn, rs, bk, ch, Put(ss, p, s), br)
<1> DEFINE ss2 == Put(ss, p, s)
<1>1. ss \in Tables(Session) /\ p \in Nat
  BY TableFacts DEF Sound, Typed
<1>2. ss2 \in Tables(Session)
  BY <1>1, PutTable
<1>3. DOMAIN ss2 = DOMAIN ss \cup {p} /\ ss2[p] = s /\ \A q \in DOMAIN ss : ss2[q] = ss[q]
  BY DEF Put
<1> HIDE DEF ss2
<1>4. Typed(n, up, dn, rs, bk, ch, ss2, br)
  BY <1>2 DEF Sound, Typed
<1>5. Parented(n, bk, ch, ss2)
  <2>1. Parented(n, bk, ch, ss)
    BY DEF Sound
  <2> QED BY <1>3, <2>1 DEF Parented
<1>6. SessionTrue(p, s, dn, rs, br, bk, ch)
  <2>1. Kids(ch, p) = {}
    BY DEF Kids, Sent, Range
  <2>2. ConfirmedTraded(s) = 0
    BY NoLedgers
  <2>3. HandledOf({}, rs, br) = 0
    <3> DEFINE f == [c \in {} |-> br[c].filled]
               g == [i \in DOMAIN rs |-> IF rs[i].internal_order_id \in {} THEN rs[i].volume_traded ELSE 0]
    <3>1. SumFunction(f) = 0
      BY SumOf, SumEmpty
    <3>2. QueuedFor(rs, {}) = 0
      BY QueuedForTerm DEF Sound, Typed
    <3>3. {} \cap DOMAIN br = {}
      OBVIOUS
    <3>4. HandledOf({}, rs, br) = SumFunction(f) - QueuedFor(rs, {})
      BY <3>3 DEF HandledOf, QueuedFor
    <3> QED BY <3>1, <3>2, <3>4
  <2> QED BY <2>1, <2>2, <2>3 DEF SessionTrue, Ledgers
<1>7. Worked(dn, rs, br, bk, ch, ss2)
  BY <1>3, <1>6 DEF Sound, Worked
<1>8. Ended(dn, rs, br, bk, ch, ss2)
  BY <1>3 DEF Sound, Ended
<1>9. Sound(n, up, dn, rs, bk, ch, ss2, br)
  BY <1>4, <1>5, <1>7, <1>8 DEF Sound
<1> QED BY <1>9 DEF ss2

-----------------------------------------------------------------------------
(* A new child.                                                             *)

\* The children of all parents once p has sent n.
Joined(ch, p, n) == Put(ch, p, Append(Sent(ch, p), n))

\* The next id is known to nobody.
LEMMA NobodyKnows ==
  ASSUME NEW n, NEW up, NEW dn, NEW rs, NEW bk, NEW ch, NEW ss, NEW br,
         Sound(n, up, dn, rs, bk, ch, ss, br)
  PROVE  /\ n \in Nat \ {0} /\ n \notin DOMAIN bk /\ n \notin DOMAIN ch /\ n \notin DOMAIN ss
         /\ n \notin DOMAIN br /\ n \notin Range(dn)
         /\ Quiet(rs, n) /\ Queued(rs, n) = 0
         /\ \A p : n \notin Kids(ch, p)
<1>1. n \in Nat \ {0} /\ n \notin Issued(n)
  BY IssuedFacts DEF Sound, Typed
<1>2. n \notin DOMAIN bk /\ n \notin DOMAIN ch /\ n \notin DOMAIN ss
  BY <1>1 DEF Sound, Parented
<1>3. \A p : n \notin Kids(ch, p)
  <2>1. Families(n, ch)
    BY DEF Sound
  <2> QED BY <1>1, <2>1, KidsFacts
<1>4. n \notin DOMAIN br /\ n \notin Range(dn) /\ Quiet(rs, n)
  BY <1>3 DEF Sound, Belongs, Quiet
<1> QED BY <1>1, <1>2, <1>3, <1>4, SoundTypes

\* c2 is ch with n as another child of p.
Birth(ch, p, n, c2) ==
  /\ c2 \in Lineages /\ DOMAIN c2 = DOMAIN ch \cup {p}
  /\ Kids(c2, p) = Kids(ch, p) \cup {n}
  /\ \A q : q # p => Kids(c2, q) = Kids(ch, q)
  /\ \A q \in DOMAIN ch \ {p} : c2[q] = ch[q]

\* A parent gets one more child and every other family stays.
LEMMA JoinedFacts ==
  ASSUME NEW n \in Nat \ {0}, NEW ch \in Lineages, NEW p \in Nat \ {0}
  PROVE  Birth(ch, p, n, Joined(ch, p, n))
<1> DEFINE a == Sent(ch, p)
           b == Append(a, n)
           c2 == Joined(ch, p, n)
<1>1. a \in Seq(Nat)
  BY TableFacts DEF Sent, Lineages
<1>2. b \in Seq(Nat) /\ Range(b) = Range(a) \cup {n}
  <2> HIDE DEF a
  <2>1. /\ b \in Seq(Nat) /\ DOMAIN b = 1 .. Len(a) + 1 /\ DOMAIN a = 1 .. Len(a) /\ Len(a) \in Nat
        /\ b[Len(a) + 1] = n /\ \A i \in 1 .. Len(a) : b[i] = a[i]
    BY <1>1
  <2> HIDE DEF b
  <2>2. 1 .. Len(a) + 1 = (1 .. Len(a)) \cup {Len(a) + 1}
    BY <2>1
  <2>3. Range(b) = {b[i] : i \in 1 .. Len(a)} \cup {n}
    BY <2>1, <2>2 DEF Range
  <2>4. {b[i] : i \in 1 .. Len(a)} = {a[i] : i \in 1 .. Len(a)}
    BY <2>1
  <2>5. Range(a) = {a[i] : i \in 1 .. Len(a)}
    BY <2>1 DEF Range
  <2> QED BY <2>1, <2>3, <2>4, <2>5
<1>3. c2 = Put(ch, p, b)
  BY DEF Joined
<1> HIDE DEF a, b, c2
<1>4. /\ DOMAIN c2 = DOMAIN ch \cup {p} /\ c2[p] = b /\ \A q \in DOMAIN ch \ {p} : c2[q] = ch[q]
  BY <1>3 DEF Put
<1>5. c2 \in Lineages
  BY <1>2, <1>3, PutTable DEF Lineages
<1>6. Kids(c2, p) = Kids(ch, p) \cup {n}
  BY <1>2, <1>4 DEF Kids, Sent, a
<1>7. \A q : q # p => Kids(c2, q) = Kids(ch, q)
  BY <1>4 DEF Kids, Sent
<1>8. Birth(ch, p, n, c2)
  BY <1>4, <1>5, <1>6, <1>7 DEF Birth
<1> QED BY <1>8 DEF c2

\* The families after the birth.
LEMMA JoinedFamilies ==
  ASSUME NEW n, NEW up, NEW dn, NEW rs, NEW bk, NEW ch, NEW ss, NEW br,
         Sound(n, up, dn, rs, bk, ch, ss, br), NEW p \in DOMAIN ss
  PROVE  Families(n + 1, Joined(ch, p, n))
<1> DEFINE c2 == Joined(ch, p, n)
<1>1. /\ n \in Nat \ {0} /\ n \notin DOMAIN bk /\ n \notin DOMAIN ch /\ n \notin DOMAIN ss /\ \A q : n \notin Kids(ch, q)
  BY NobodyKnows
<1>2. ch \in Lineages /\ p \in Nat \ {0} /\ p \in Issued(n) /\ p # n
  <2>1. p \in Issued(n)
    BY DEF Sound, Parented
  <2> QED BY <1>1, <2>1, IssuedFacts DEF Sound, Typed
<1>3. Issued(n) \subseteq Issued(n + 1) /\ n \in Issued(n + 1)
  BY <1>1, IssuedFacts
<1>4. /\ DOMAIN c2 = DOMAIN ch \cup {p}
      /\ Kids(c2, p) = Kids(ch, p) \cup {n}
      /\ \A q : q # p => Kids(c2, q) = Kids(ch, q)
      /\ \A q \in DOMAIN ch \ {p} : c2[q] = ch[q]
  <2>1. Birth(ch, p, n, c2)
    BY <1>1, <1>2, JoinedFacts
  <2> HIDE DEF c2
  <2> QED BY ONLY <2>1 DEF Birth
<1> HIDE DEF c2
<1>5. Families(n, ch)
  BY DEF Sound
<1>6. \A q : q \notin DOMAIN ch => Kids(ch, q) = {}
  BY DEF Kids, Sent, Range
<1>7. \A q : p \notin Kids(ch, q)
  BY <1>6 DEF Sound, Parented
<1>8. \A q : Kids(ch, q) \subseteq Issued(n) /\ Kids(ch, q) \cap DOMAIN ch = {}
  BY <1>5, <1>6 DEF Families
<1>9. DOMAIN c2 \subseteq Issued(n + 1)
  BY <1>2, <1>3, <1>4, <1>5 DEF Families
<1>10. \A q \in DOMAIN c2 : Kids(c2, q) \subseteq Issued(n + 1)
  BY <1>3, <1>4, <1>8
<1>11. \A q \in DOMAIN c2 : Kids(c2, q) \cap DOMAIN c2 = {}
  BY <1>1, <1>2, <1>4, <1>7, <1>8
<1>12. \A q, r \in DOMAIN c2 : q # r => Kids(c2, q) \cap Kids(c2, r) = {}
  <2>1. \A q, r : q # r => Kids(ch, q) \cap Kids(ch, r) = {}
    BY <1>5, <1>6 DEF Families
  <2> QED BY <1>1, <1>4, <2>1
<1>13. \A q \in DOMAIN c2 : \A i, j \in DOMAIN c2[q] : c2[q][i] = c2[q][j] => i = j
  <2>1. ASSUME NEW q \in DOMAIN c2, q # p PROVE \A i, j \in DOMAIN c2[q] : c2[q][i] = c2[q][j] => i = j
    BY <1>4, <1>5, <2>1 DEF Families
  <2>2. \A i, j \in DOMAIN c2[p] : c2[p][i] = c2[p][j] => i = j
    <3> DEFINE a == Sent(ch, p)
               b == Append(a, n)
               N == Len(a)
    <3>1. \A i, j \in DOMAIN a : a[i] = a[j] => i = j
      BY <1>5 DEF Families, Sent
    <3>2. \A i \in DOMAIN a : a[i] # n
      BY <1>1 DEF Kids, Range
    <3>3. a \in Seq(Nat) /\ c2[p] = b
      BY <1>2, TableFacts DEF Sent, c2, Joined, Put, Lineages
    <3> HIDE DEF a
    <3>4. /\ DOMAIN b = 1 .. N + 1 /\ DOMAIN a = 1 .. N /\ N \in Nat
          /\ b[N + 1] = n /\ \A i \in 1 .. N : b[i] = a[i]
      BY <1>1, <3>3
    <3> HIDE DEF b, N
    <3>5. ASSUME NEW i \in 1 .. N + 1, NEW j \in 1 .. N + 1, b[i] = b[j] PROVE i = j
      <4>1. CASE i \in 1 .. N /\ j \in 1 .. N
        BY <3>1, <3>4, <3>5, <4>1
      <4>2. CASE i = N + 1 /\ j \in 1 .. N
        BY <3>2, <3>4, <3>5, <4>2
      <4>3. CASE j = N + 1 /\ i \in 1 .. N
        BY <3>2, <3>4, <3>5, <4>3
      <4> QED BY <3>4, <4>1, <4>2, <4>3
    <3> QED BY <3>3, <3>4, <3>5
  <2> QED BY <2>1, <2>2
<1>14. Families(n + 1, c2)
  BY <1>9, <1>10, <1>11, <1>12, <1>13 DEF Families
<1> QED BY <1>14 DEF c2

\* The handled fills of a family do not change with the birth.
LEMMA JoinedHandled ==
  ASSUME NEW rs \in Seq(Reports), NEW br, NEW kids, NEW n, n \notin DOMAIN br, Quiet(rs, n)
  PROVE  HandledOf(kids \cup {n}, rs, br) = HandledOf(kids, rs, br)
<1>1. (kids \cup {n}) \cap DOMAIN br = kids \cap DOMAIN br
  OBVIOUS
<1>2. [i \in DOMAIN rs |-> IF rs[i].internal_order_id \in kids \cup {n} THEN rs[i].volume_traded ELSE 0]
        = [i \in DOMAIN rs |-> IF rs[i].internal_order_id \in kids THEN rs[i].volume_traded ELSE 0]
  BY DEF Quiet
<1> QED BY <1>1, <1>2 DEF HandledOf

\* A new child enters the book and its family, with or without an index in the queue.
LEMMA ChildAdded ==
  ASSUME NEW n, NEW up, NEW dn, NEW rs, NEW bk, NEW ch, NEW ss, NEW br,
         Sound(n, up, dn, rs, bk, ch, ss, br), NEW p \in DOMAIN ss,
         NEW e \in BookEntry, e.order_type = "New", e.volume_entrust # 0, e.volume_remain = e.volume_entrust,
         Cardinality(DOMAIN bk) < BookCapacity,
         NEW dn2 \in Seq(Nat), Len(dn2) <= DownstreamBound,
         Range(dn2) = Range(dn) \/ Range(dn2) = Range(dn) \cup {n},
         \A i, j \in DOMAIN dn2 : dn2[i] = dn2[j] => i = j,
         NEW ss2 \in Tables(Session), DOMAIN ss2 = DOMAIN ss, \A q \in DOMAIN ss \ {p} : ss2[q] = ss[q],
         n \in Range(dn2) => e.order_state \notin TerminalState,
         e.order_state \notin TerminalState => \A c \in Kids(ch, p) : ~ Live(bk, c),
         SessionTrue(p, ss2[p], dn2, rs, br, Put(bk, n, e), Joined(ch, p, n))
  PROVE  Sound(n + 1, up, dn2, rs, Put(bk, n, e), Joined(ch, p, n), ss2, br)
<1> DEFINE b2 == Put(bk, n, e)
           c2 == Joined(ch, p, n)
<1>1. /\ n \in Nat \ {0} /\ n \notin DOMAIN bk /\ n \notin DOMAIN ch /\ n \notin DOMAIN ss
      /\ n \notin DOMAIN br /\ n \notin Range(dn) /\ Quiet(rs, n) /\ \A q : n \notin Kids(ch, q)
  BY NobodyKnows
<1>2. ch \in Lineages /\ bk \in Tables(BookEntry) /\ p \in Nat \ {0} /\ p # n
  <2>1. p \in Issued(n)
    BY DEF Sound, Parented
  <2> QED BY <1>1, <2>1, IssuedFacts DEF Sound, Typed
<1>3. Issued(n) \subseteq Issued(n + 1) /\ n \in Issued(n + 1) /\ IsFiniteSet(Issued(n))
  BY <1>1, IssuedFacts
<1>4. /\ c2 \in Lineages /\ DOMAIN c2 = DOMAIN ch \cup {p}
      /\ Kids(c2, p) = Kids(ch, p) \cup {n}
      /\ \A q : q # p => Kids(c2, q) = Kids(ch, q)
  <2>1. Birth(ch, p, n, c2)
    BY <1>1, <1>2, JoinedFacts
  <2> HIDE DEF c2
  <2> QED BY ONLY <2>1 DEF Birth
<1>5. Families(n + 1, c2)
  BY JoinedFamilies
<1>6. /\ DOMAIN b2 = DOMAIN bk \cup {n} /\ b2[n] = e /\ \A c \in DOMAIN bk : b2[c] = bk[c]
  BY <1>1 DEF Put
<1>7. b2 \in Tables(BookEntry)
  BY <1>1, <1>2, PutTable
<1> HIDE DEF b2, c2
<1>8. \A c : c # n => (Live(b2, c) <=> Live(bk, c)) /\ (c \in Range(dn2) <=> c \in Range(dn))
  BY <1>6 DEF Live
<1>9. Typed(n + 1, up, dn2, rs, b2, c2, ss2, br)
  BY <1>1, <1>4, <1>7 DEF Sound, Typed
<1>10. Bounded(dn2, b2)
  <2>1. IsFiniteSet(DOMAIN bk)
    <3>1. DOMAIN bk \subseteq Issued(n)
      BY DEF Sound, Parented
    <3> QED BY <1>3, <3>1, FS_Subset
  <2>2. Cardinality(DOMAIN b2) = Cardinality(DOMAIN bk) + 1 /\ Cardinality(DOMAIN bk) \in Nat
    BY <1>1, <1>6, <2>1, FS_AddElement, FS_CardinalityType
  <2> QED BY <2>2, LimitsAssumption DEF Bounded
<1>11. Waiters(n + 1, up, b2, c2)
  <2>1. Waiters(n, up, bk, ch)
    BY DEF Sound
  <2>2. \A i \in DOMAIN up : up[i].id \in Issued(n) /\ up[i].id # n /\ up[i].id # p
    <3>1. \A i \in DOMAIN up : up[i].id \in Issued(n) /\ up[i].id \notin DOMAIN bk
      BY <2>1 DEF Waiters
    <3>2. p \in DOMAIN bk /\ n \notin Issued(n)
      BY <1>1, IssuedFacts DEF Sound, Parented
    <3> QED BY <3>1, <3>2
  <2>3. \A i \in DOMAIN up : \A q \in DOMAIN c2 : up[i].id \notin Kids(c2, q)
    <3>1. ASSUME NEW i \in DOMAIN up, NEW q PROVE up[i].id \notin Kids(ch, q)
      <4>1. q \notin DOMAIN ch => Kids(ch, q) = {}
        BY DEF Kids, Sent, Range
      <4> QED BY <2>1, <4>1 DEF Waiters
    <3> QED BY <1>4, <2>2, <3>1
  <2> QED BY <1>3, <1>4, <1>6, <2>1, <2>2, <2>3 DEF Waiters
<1>12. Parented(n + 1, b2, c2, ss2)
  <2>1. Parented(n, bk, ch, ss)
    BY DEF Sound
  <2>2. \A q : Kids(ch, q) \cap DOMAIN ss = {}
    <3>1. \A q : q \notin DOMAIN ch => Kids(ch, q) = {}
      BY DEF Kids, Sent, Range
    <3> QED BY <2>1, <3>1 DEF Parented
  <2>3. \A q \in DOMAIN c2 \cup DOMAIN ss2 : q \in DOMAIN bk /\ bk[q].order_type = "New"
    BY <1>4, <2>1 DEF Parented
  <2>4. \A q \in DOMAIN c2 : Kids(c2, q) \cap DOMAIN ss2 = {}
    BY <1>1, <1>4, <2>2
  <2>5. DOMAIN b2 \subseteq Issued(n + 1)
    BY <1>3, <1>6, <2>1 DEF Parented
  <2> QED BY <1>6, <2>3, <2>4, <2>5 DEF Parented
<1>13. Belongs(dn2, rs, br, c2)
  <2>1. Belongs(dn, rs, br, ch)
    BY DEF Sound
  <2>2. \A c : (\E q \in DOMAIN ch : c \in Kids(ch, q)) => (\E q \in DOMAIN c2 : c \in Kids(c2, q))
    <3>1. ASSUME NEW c, NEW q \in DOMAIN ch, c \in Kids(ch, q) PROVE q \in DOMAIN c2 /\ c \in Kids(c2, q)
      BY <1>4, <3>1
    <3> QED BY <3>1
  <2>3. \E q \in DOMAIN c2 : n \in Kids(c2, q)
    BY <1>4
  <2>4. \A c \in DOMAIN br \cup Range(dn2) : \E q \in DOMAIN c2 : c \in Kids(c2, q)
    BY <2>1, <2>2, <2>3 DEF Belongs
  <2> QED BY <2>1, <2>2, <2>4 DEF Belongs
<1>14. OnItsWay(dn2, rs, br, b2)
  <2>1. ASSUME NEW c \in Range(dn2) PROVE c \notin DOMAIN br /\ Quiet(rs, c) /\ Live(b2, c)
    <3>1. CASE c = n
      BY <1>1, <1>6, <3>1 DEF Live
    <3>2. CASE c # n
      BY <1>8, <3>2 DEF Sound, OnItsWay
    <3> QED BY <3>1, <3>2
  <2> QED BY <2>1 DEF OnItsWay
<1>15. Booked(rs, br, b2, c2)
  <2>1. ASSUME NEW q \in DOMAIN c2, NEW c \in Kids(c2, q) \cap DOMAIN b2 PROVE ChildEntry(c, rs, br, b2)
    <3>1. CASE c = n
      BY <1>1, <1>6, <3>1 DEF ChildEntry
    <3>2. CASE c # n
      <4>1. c \in Kids(ch, q) /\ c \in DOMAIN bk
        BY <1>4, <1>6, <3>2
      <4>2. q \in DOMAIN ch
        BY <4>1 DEF Kids, Sent, Range
      <4>3. ChildEntry(c, rs, br, bk)
        BY <4>1, <4>2 DEF Sound, Booked
      <4>4. b2[c] = bk[c] /\ (Live(b2, c) <=> Live(bk, c))
        BY <1>6, <1>8, <3>2, <4>1
      <4> QED BY <4>3, <4>4 DEF ChildEntry
    <3> QED BY <3>1, <3>2
  <2> QED BY <2>1 DEF Booked
<1>16. OneLive(b2, c2)
  <2>1. ASSUME NEW q \in DOMAIN c2, NEW c \in Kids(c2, q), NEW d \in Kids(c2, q), Live(b2, c), Live(b2, d)
        PROVE  c = d
    <3>1. CASE c # n /\ d # n
      <4>1. c \in Kids(ch, q) /\ d \in Kids(ch, q) /\ Live(bk, c) /\ Live(bk, d)
        BY <1>4, <1>8, <2>1, <3>1
      <4>2. q \in DOMAIN ch
        BY <4>1 DEF Kids, Sent, Range
      <4> QED BY <4>1, <4>2 DEF Sound, OneLive
    <3>2. CASE (c = n \/ d = n) /\ c # d
      <4>1. q = p /\ Live(b2, n)
        BY <1>1, <1>4, <2>1, <3>2
      <4>2. e.order_state \notin TerminalState
        BY <1>6, <4>1 DEF Live
      <4>3. \A x \in Kids(ch, p) : ~ Live(bk, x)
        BY <4>2
      <4> QED BY <1>4, <1>8, <2>1, <3>2, <4>1, <4>3
    <3> QED BY <3>1, <3>2
  <2> QED BY <2>1 DEF OneLive
<1>17. Worked(dn2, rs, br, b2, c2, ss2)
  <2>1. ASSUME NEW q \in DOMAIN ss2, q # p PROVE SessionTrue(q, ss2[q], dn2, rs, br, b2, c2)
    <3>1. SessionTrue(q, ss[q], dn, rs, br, bk, ch) /\ ss2[q] = ss[q] /\ Kids(c2, q) = Kids(ch, q)
      BY <1>4, <2>1 DEF Sound, Worked
    <3>2. q \in DOMAIN bk /\ b2[q] = bk[q]
      BY <1>6 DEF Sound, Parented
    <3>3. \A c \in Kids(ch, q) : /\ c # n
                                 /\ Live(b2, c) <=> Live(bk, c)
                                 /\ c \in Range(dn2) <=> c \in Range(dn)
                                 /\ c \in DOMAIN b2 <=> c \in DOMAIN bk
                                 /\ c \in DOMAIN bk => b2[c] = bk[c]
      <4>1. \A c \in Kids(ch, q) : c # n
        BY <1>1
      <4> QED BY <1>6, <1>8, <4>1
    <3>4. Ledgers(q, ss[q], dn, rs, br, bk, ch)
      BY <3>1 DEF SessionTrue
    <3>5. ASSUME NEW c \in DOMAIN ss[q].ledgers PROVE LedgerTrue(ss[q].ledgers[c], c, dn2, rs, br, b2)
      <4>1. LedgerTrue(ss[q].ledgers[c], c, dn, rs, br, bk) /\ c \in Kids(ch, q)
        BY <3>4 DEF Ledgers
      <4> QED BY <3>3, <4>1 DEF LedgerTrue
    <3>6. Ledgers(q, ss2[q], dn2, rs, br, b2, c2)
      BY <3>1, <3>3, <3>4, <3>5 DEF Ledgers
    <3> QED BY <3>1, <3>2, <3>6 DEF SessionTrue
  <2>2. SessionTrue(p, ss2[p], dn2, rs, br, b2, c2)
    BY DEF b2, c2
  <2> QED BY <2>1, <2>2 DEF Worked
<1>18. Ended(dn2, rs, br, b2, c2, ss2)
  <2>1. ASSUME NEW q \in DOMAIN c2 \ DOMAIN ss2 PROVE Over(q, dn2, rs, br, b2, c2)
    <3>1. q # p /\ q \in DOMAIN ch \ DOMAIN ss /\ Kids(c2, q) = Kids(ch, q)
      BY <1>4
    <3>2. Over(q, dn, rs, br, bk, ch) /\ b2[q] = bk[q]
      BY <1>6, <3>1 DEF Sound, Ended, Parented
    <3>3. \A c \in Kids(ch, q) : c # n /\ (c \in Range(dn2) <=> c \in Range(dn))
      <4>1. \A c \in Kids(ch, q) : c # n
        BY <1>1
      <4> QED BY <1>8, <4>1
    <3>4. SentOut(Kids(c2, q), dn2, br) = SentOut(Kids(ch, q), dn, br)
      BY <3>1, <3>3 DEF SentOut
    <3>5. \A c \in SentOut(Kids(ch, q), dn, br) : ExposureOf(c, br, b2) = ExposureOf(c, br, bk)
      <4>1. \A c \in SentOut(Kids(ch, q), dn, br) : c \notin DOMAIN br => c \in DOMAIN bk
        BY DEF SentOut, Sound, OnItsWay, Live
      <4> QED BY <1>6, <4>1 DEF ExposureOf
    <3>6. ExposureSum(Kids(c2, q), dn2, br, b2) = ExposureSum(Kids(ch, q), dn, br, bk)
      <4>1. [c \in SentOut(Kids(c2, q), dn2, br) |-> ExposureOf(c, br, b2)]
              = [c \in SentOut(Kids(ch, q), dn, br) |-> ExposureOf(c, br, bk)]
        BY <3>4, <3>5
      <4> QED BY <4>1 DEF ExposureSum
    <3>7. \A c \in Kids(ch, q) : NoMoreFills(c, dn, rs, br) => NoMoreFills(c, dn2, rs, br)
      BY <3>3 DEF NoMoreFills
    <3> QED BY <3>1, <3>2, <3>6, <3>7 DEF Over
  <2> QED BY <2>1 DEF Ended
<1>19. Sound(n + 1, up, dn2, rs, b2, c2, ss2, br)
  BY <1>5, <1>9, <1>10, <1>11, <1>12, <1>13, <1>14, <1>15, <1>16, <1>17, <1>18 DEF Sound
<1> QED BY <1>19 DEF b2, c2

\* What the new book and the new lineages say, with bk2 for the book and c2 for the lineages.
LEMMA BirthFacts ==
  ASSUME NEW n, NEW up, NEW dn, NEW rs, NEW bk, NEW ch, NEW ss, NEW br,
         Sound(n, up, dn, rs, bk, ch, ss, br), NEW p \in DOMAIN ss
  PROVE  /\ Birth(ch, p, n, Joined(ch, p, n))
         /\ n \notin DOMAIN bk /\ n \notin DOMAIN br /\ n \notin Range(dn) /\ Quiet(rs, n) /\ n \notin Kids(ch, p)
         /\ p \in DOMAIN bk /\ p # n
<1>1. /\ n \in Nat \ {0} /\ n \notin DOMAIN bk /\ n \notin DOMAIN ch /\ n \notin DOMAIN ss
      /\ n \notin DOMAIN br /\ n \notin Range(dn) /\ Quiet(rs, n) /\ \A q : n \notin Kids(ch, q)
  BY NobodyKnows
<1>2. p \in DOMAIN bk /\ p \in Issued(n) /\ ch \in Lineages
  BY DEF Sound, Parented, Typed
<1>3. p \in Nat \ {0}
  BY <1>1, <1>2, IssuedFacts
<1>4. Birth(ch, p, n, Joined(ch, p, n))
  BY <1>1, <1>2, <1>3, JoinedFacts
<1> QED BY <1>1, <1>2, <1>4

\* A child that could not be sent is in the book, ended, and in no ledger.
LEMMA DeadChild ==
  ASSUME NEW n, NEW up, NEW dn, NEW rs, NEW bk, NEW ch, NEW ss, NEW br,
         Sound(n, up, dn, rs, bk, ch, ss, br), NEW p \in DOMAIN ss,
         NEW e \in BookEntry, e.order_type = "New", e.volume_entrust # 0, e.volume_remain = e.volume_entrust,
         e.order_state \in TerminalState, Cardinality(DOMAIN bk) < BookCapacity
  PROVE  Sound(n + 1, up, dn, rs, Put(bk, n, e), Joined(ch, p, n), ss, br)
<1> DEFINE b2 == Put(bk, n, e)
           c2 == Joined(ch, p, n)
           s == ss[p]
<1>1. /\ Birth(ch, p, n, c2)
      /\ n \notin DOMAIN bk /\ n \notin DOMAIN br /\ n \notin Range(dn) /\ Quiet(rs, n) /\ n \notin Kids(ch, p)
      /\ p \in DOMAIN bk /\ p # n
  BY BirthFacts
<1>2. /\ DOMAIN b2 = DOMAIN bk \cup {n} /\ b2[n] = e /\ \A c \in DOMAIN bk : b2[c] = bk[c]
  BY <1>1 DEF Put
<1> HIDE DEF b2, c2
<1>3. Kids(c2, p) = Kids(ch, p) \cup {n}
  BY <1>1 DEF Birth
<1>4. SessionTrue(p, s, dn, rs, br, bk, ch)
  BY SoundSession
<1>5. Ledgers(p, s, dn, rs, br, b2, c2)
  <2>1. Ledgers(p, s, dn, rs, br, bk, ch)
    BY <1>4 DEF SessionTrue
  <2> HIDE DEF s
  <2>2. \A c : c # n => (Live(b2, c) <=> Live(bk, c)) /\ (c \in DOMAIN b2 <=> c \in DOMAIN bk)
    BY <1>2 DEF Live
  <2>3. ~ Live(b2, n)
    BY <1>2 DEF Live
  <2>4. ASSUME NEW c \in DOMAIN s.ledgers PROVE LedgerTrue(s.ledgers[c], c, dn, rs, br, b2)
    <3>1. LedgerTrue(s.ledgers[c], c, dn, rs, br, bk) /\ c # n
      BY <1>1, <2>1 DEF Ledgers
    <3> QED BY <1>2, <2>2, <3>1 DEF LedgerTrue
  <2>5. n \notin DOMAIN s.ledgers /\ DOMAIN s.ledgers \subseteq Kids(c2, p)
    BY <1>1, <1>3, <2>1 DEF Ledgers
  <2>6. ASSUME NEW c \in Kids(c2, p), c \notin DOMAIN s.ledgers
        PROVE  c \notin Range(dn) /\ c \notin DOMAIN br /\ Quiet(rs, c) /\ ~ Live(b2, c)
    BY <1>1, <1>3, <2>1, <2>2, <2>3, <2>6 DEF Ledgers
  <2> QED BY <2>4, <2>5, <2>6 DEF Ledgers
<1>6. HandledOf(Kids(c2, p), rs, br) = HandledOf(Kids(ch, p), rs, br)
  BY <1>1, <1>3, SoundTypes, JoinedHandled
<1>7. SessionTrue(p, s, dn, rs, br, b2, c2)
  BY <1>1, <1>2, <1>4, <1>5, <1>6 DEF SessionTrue
<1>8. /\ dn \in Seq(Nat) /\ Len(dn) <= DownstreamBound /\ \A i, j \in DOMAIN dn : dn[i] = dn[j] => i = j
      /\ ss \in Tables(Session)
  BY DEF Sound, Typed, Bounded, OnItsWay
<1> QED BY <1>1, <1>7, <1>8, ChildAdded DEF b2, c2

\* A child that was sent is in the book, in the queue and in its parent's ledgers.
LEMMA SentChild ==
  ASSUME NEW n, NEW up, NEW dn, NEW rs, NEW bk, NEW ch, NEW ss, NEW br,
         Sound(n, up, dn, rs, bk, ch, ss, br), NEW p \in DOMAIN ss,
         WorkingVolume(ss[p]) = 0, ss[p].algo = "TWAP" => ~ ss[p].slice_consumed,
         ss[p].terminal => ss[p].failed, NEW volume, Takes(ss[p], volume),
         NEW e \in BookEntry, e.order_type = "New", e.volume_entrust = volume,
         e.volume_remain = e.volume_entrust,
         e.order_state = "TraderSubmitted", Cardinality(DOMAIN bk) < BookCapacity, Len(dn) < DownstreamBound
  PROVE  Sound(n + 1, up, Append(dn, n), rs, Put(bk, n, e), Joined(ch, p, n),
               [ss EXCEPT ![p] = SentSession(ss[p], n, volume)], br)
<1> DEFINE b2 == Put(bk, n, e)
           c2 == Joined(ch, p, n)
           s == ss[p]
           t == SentSession(s, n, volume)
           ss2 == [ss EXCEPT ![p] = t]
           d2 == Append(dn, n)
<1>1. /\ Birth(ch, p, n, c2)
      /\ n \notin DOMAIN bk /\ n \notin DOMAIN br /\ n \notin Range(dn) /\ Quiet(rs, n) /\ n \notin Kids(ch, p)
      /\ p \in DOMAIN bk /\ p # n
  BY BirthFacts
<1>2. /\ DOMAIN b2 = DOMAIN bk \cup {n} /\ b2[n] = e /\ \A c \in DOMAIN bk : b2[c] = bk[c]
  BY <1>1 DEF Put
<1> HIDE DEF b2, c2
<1>3. Kids(c2, p) = Kids(ch, p) \cup {n}
  BY <1>1 DEF Birth
<1>4. /\ s \in Session /\ Balanced(s) /\ Schedule(s) /\ DOMAIN s.ledgers \subseteq Kids(ch, p)
      /\ SessionTrue(p, s, dn, rs, br, bk, ch)
  BY SoundSession
<1>5. /\ dn \in Seq(Nat) /\ Len(dn) <= DownstreamBound /\ \A i, j \in DOMAIN dn : dn[i] = dn[j] => i = j
      /\ ss \in Tables(Session) /\ n \in Nat
  BY DEF Sound, Typed, Bounded, OnItsWay
<1>6. /\ d2 \in Seq(Nat) /\ Len(d2) <= DownstreamBound /\ Range(d2) = Range(dn) \cup {n}
      /\ \A i, j \in DOMAIN d2 : d2[i] = d2[j] => i = j
  <2> DEFINE N == Len(dn)
  <2>1. /\ d2 \in Seq(Nat) /\ DOMAIN d2 = 1 .. N + 1 /\ DOMAIN dn = 1 .. N /\ N \in Nat /\ Len(d2) = N + 1
        /\ d2[N + 1] = n /\ \A i \in 1 .. N : d2[i] = dn[i]
    BY <1>5
  <2> HIDE DEF d2, N
  <2>2. 1 .. N + 1 = (1 .. N) \cup {N + 1}
    BY <2>1
  <2>3. Range(d2) = {d2[i] : i \in 1 .. N} \cup {n}
    BY <2>1, <2>2 DEF Range
  <2>4. {d2[i] : i \in 1 .. N} = {dn[i] : i \in 1 .. N}
    BY <2>1
  <2>5. Range(dn) = {dn[i] : i \in 1 .. N}
    BY <2>1 DEF Range
  <2>6. \A i \in 1 .. N : d2[i] # n
    BY <1>1, <2>1, <2>5
  <2>7. ASSUME NEW i \in 1 .. N + 1, NEW j \in 1 .. N + 1, d2[i] = d2[j] PROVE i = j
    <3>1. CASE i \in 1 .. N /\ j \in 1 .. N
      BY <1>5, <2>1, <2>7, <3>1
    <3>2. CASE i = N + 1 /\ j \in 1 .. N
      BY <2>1, <2>6, <2>7, <3>2
    <3>3. CASE j = N + 1 /\ i \in 1 .. N
      BY <2>1, <2>6, <2>7, <3>3
    <3> QED BY <2>1, <3>1, <3>2, <3>3
  <2>8. Len(d2) <= DownstreamBound
    BY <2>1, LimitsAssumption DEF N
  <2> QED BY <2>1, <2>3, <2>4, <2>5, <2>7, <2>8
<1> HIDE DEF d2
<1>7. n \notin DOMAIN s.ledgers
  BY <1>1, <1>4
<1>8. /\ WorkingVolume(s) = 0 /\ Takes(s, volume) /\ (s.algo = "TWAP" => ~ s.slice_consumed) /\ (s.terminal => s.failed)
      /\ e.volume_entrust = volume
  OBVIOUS
<1>9. \A c \in Kids(ch, p) : ~ Live(bk, c)
  BY WorkedOff
<1> HIDE DEF s
<1>10. /\ t \in Session /\ Balanced(t) /\ Schedule(t)
       /\ DOMAIN t.ledgers = DOMAIN s.ledgers \cup {n}
       /\ t.ledgers[n] = [entrust |-> volume, traded |-> 0, cancelled |-> 0,
                          finalized |-> FALSE, state |-> "TraderSubmitted"]
       /\ \A d \in DOMAIN s.ledgers : t.ledgers[d] = s.ledgers[d]
       /\ ConfirmedTraded(t) = ConfirmedTraded(s)
       /\ t.target = s.target
  <2>1. ChildSent(t, s, n, volume)
    BY <1>4, <1>5, <1>7, <1>8, SentSessionFacts
  <2> HIDE DEF t
  <2> QED BY ONLY <2>1 DEF ChildSent
<1>11. /\ ss2 \in Tables(Session) /\ DOMAIN ss2 = DOMAIN ss /\ ss2[p] = t /\ \A q \in DOMAIN ss \ {p} : ss2[q] = ss[q]
  <2> HIDE DEF t
  <2> QED BY <1>5, <1>10, ExceptTable, TableFacts
<1>12. volume \in Nat \ {0}
  BY <1>4, <1>8, BudgetFacts
<1> HIDE DEF t, ss2
<1>13. Ledgers(p, t, d2, rs, br, b2, c2)
  <2>1. Ledgers(p, s, dn, rs, br, bk, ch)
    BY <1>4 DEF SessionTrue
  <2>2. \A c : c # n => (Live(b2, c) <=> Live(bk, c)) /\ (c \in DOMAIN b2 <=> c \in DOMAIN bk)
                        /\ (c \in Range(d2) <=> c \in Range(dn))
    BY <1>2, <1>6 DEF Live
  <2>3. ASSUME NEW c \in DOMAIN s.ledgers PROVE LedgerTrue(t.ledgers[c], c, d2, rs, br, b2)
    <3>1. LedgerTrue(s.ledgers[c], c, dn, rs, br, bk) /\ c # n /\ t.ledgers[c] = s.ledgers[c]
      BY <1>7, <1>10, <2>1 DEF Ledgers
    <3> QED BY <1>2, <2>2, <3>1 DEF LedgerTrue
  <2>4. LedgerTrue(t.ledgers[n], n, d2, rs, br, b2)
    BY <1>1, <1>2, <1>8, <1>10, <1>12 DEF LedgerTrue
  <2>5. DOMAIN t.ledgers \subseteq Kids(c2, p)
    BY <1>3, <1>4, <1>10
  <2>6. ASSUME NEW c \in Kids(c2, p), c \notin DOMAIN t.ledgers
        PROVE  c \notin Range(d2) /\ c \notin DOMAIN br /\ Quiet(rs, c) /\ ~ Live(b2, c)
    <3>1. c # n /\ c \in Kids(ch, p) /\ c \notin DOMAIN s.ledgers
      BY <1>3, <1>10, <2>6
    <3> QED BY <2>1, <2>2, <3>1 DEF Ledgers
  <2> QED BY <1>10, <2>3, <2>4, <2>5, <2>6 DEF Ledgers
<1>14. HandledOf(Kids(c2, p), rs, br) = HandledOf(Kids(ch, p), rs, br)
  BY <1>1, <1>3, SoundTypes, JoinedHandled
<1>15. SessionTrue(p, ss2[p], d2, rs, br, b2, c2)
  BY <1>1, <1>2, <1>4, <1>10, <1>11, <1>13, <1>14 DEF SessionTrue
<1>16. e.volume_entrust # 0 /\ e.order_state \notin TerminalState
  BY <1>8, <1>12 DEF TerminalState
<1>17. Sound(n + 1, up, d2, rs, b2, c2, ss2, br)
  BY <1>6, <1>9, <1>11, <1>15, <1>16, ChildAdded DEF b2, c2
<1> QED BY <1>17 DEF b2, c2, d2, ss2, t, s

-----------------------------------------------------------------------------
(* The gateway and the broker move one child.                               *)

FilledOf(kids, br) == SumFunction([c \in kids \cap DOMAIN br |-> br[c].filled])

\* What the loop has handled of a family is what was filled and is not queued any more.
LEMMA HandledIs ==
  ASSUME NEW kids, NEW rs, NEW br
  PROVE  HandledOf(kids, rs, br) = FilledOf(kids, br) - QueuedFor(rs, kids)
BY DEF HandledOf, FilledOf, QueuedFor

\* The fills of a family are a natural number.
LEMMA FilledNat ==
  ASSUME NEW kids, IsFiniteSet(kids), NEW br \in Tables(BrokerOrder)
  PROVE  FilledOf(kids, br) \in Nat
<1> DEFINE D == kids \cap DOMAIN br
           f == [c \in D |-> br[c].filled]
<1>1. \A c \in D : f[c] \in Nat
  <2>1. \A c \in DOMAIN br : br[c] \in BrokerOrder
    BY TableFacts
  <2> QED BY <2>1 DEF BrokerOrder
<1>2. IsFiniteSet(D)
  BY FS_Subset
<1>3. FilledOf(kids, br) = SumFunctionOnSet(f, D)
  BY SumOf DEF FilledOf
<1> HIDE DEF D, f
<1> QED BY <1>1, <1>2, <1>3, SumNat

\* The fills of a family when one order's fills grow by v.
LEMMA FilledUpdate ==
  ASSUME NEW kids, IsFiniteSet(kids), NEW br \in Tables(BrokerOrder), NEW c \in DOMAIN br,
         NEW o \in BrokerOrder, NEW v, v \in Nat, o.filled = br[c].filled + v
  PROVE  /\ c \in kids => FilledOf(kids, [br EXCEPT ![c] = o]) = FilledOf(kids, br) + v
         /\ c \notin kids => FilledOf(kids, [br EXCEPT ![c] = o]) = FilledOf(kids, br)
<1> DEFINE b2 == [br EXCEPT ![c] = o]
           D == kids \cap DOMAIN br
           f == [d \in D |-> br[d].filled]
           g == [d \in D |-> b2[d].filled]
<1>1. DOMAIN b2 = DOMAIN br /\ b2[c] = o /\ \A d \in DOMAIN br \ {c} : b2[d] = br[d]
  BY TableFacts
<1>2. \A d \in DOMAIN br : br[d] \in BrokerOrder /\ br[d].filled \in Nat /\ b2[d].filled \in Nat
  <2> HIDE DEF b2
  <2>1. \A d \in DOMAIN br : br[d] \in BrokerOrder
    BY TableFacts
  <2>2. \A d \in DOMAIN br : b2[d] \in BrokerOrder
    BY <1>1, <2>1
  <2> QED BY <2>1, <2>2 DEF BrokerOrder
<1> HIDE DEF b2
<1>3. FilledOf(kids, br) = SumFunctionOnSet(f, D) /\ FilledOf(kids, b2) = SumFunctionOnSet(g, D)
  BY <1>1, SumOf DEF FilledOf
<1>4. IsFiniteSet(D)
  BY FS_Subset
<1>5. \A d \in D : f[d] \in Nat /\ g[d] \in Nat
  BY <1>2
<1>6. \A d \in D \ {c} : f[d] = g[d]
  BY <1>1
<1>7. c \in kids => c \in D /\ g[c] = f[c] + v
  BY <1>1
<1>8. c \notin kids => c \notin D
  OBVIOUS
<1> HIDE DEF D, f, g
<1>9. SumFunctionOnSet(f, D) \in Nat
  BY <1>4, <1>5, SumNat
<1>10. ASSUME c \in kids PROVE SumFunctionOnSet(g, D) = SumFunctionOnSet(f, D) + v
  <2>1. SumFunctionOnSet(g, D) = (SumFunctionOnSet(f, D) - f[c]) + g[c]
    BY <1>4, <1>5, <1>6, <1>7, <1>10, SumUpdate
  <2>2. f[c] \in Nat /\ g[c] = f[c] + v
    BY <1>5, <1>7, <1>10
  <2> QED BY <1>9, <2>1, <2>2
<1>11. ASSUME c \notin kids PROVE SumFunctionOnSet(g, D) = SumFunctionOnSet(f, D)
  BY <1>4, <1>6, <1>8, <1>11, SumEqual
<1> QED BY <1>3, <1>10, <1>11 DEF b2

\* The fills of a family when the broker receives an order.
LEMMA FilledPut ==
  ASSUME NEW kids, IsFiniteSet(kids), NEW br \in Tables(BrokerOrder), NEW c, c \notin DOMAIN br,
         NEW o, o.filled = 0
  PROVE  FilledOf(kids, Put(br, c, o)) = FilledOf(kids, br)
<1> DEFINE b2 == Put(br, c, o)
           D == kids \cap DOMAIN br
           E == kids \cap DOMAIN b2
           f == [d \in D |-> br[d].filled]
           g == [d \in E |-> b2[d].filled]
<1>1. DOMAIN b2 = DOMAIN br \cup {c} /\ b2[c] = o /\ \A d \in DOMAIN br : b2[d] = br[d]
  BY DEF Put
<1>2. \A d \in DOMAIN br : br[d] \in BrokerOrder /\ br[d].filled \in Nat
  <2>1. \A d \in DOMAIN br : br[d] \in BrokerOrder
    BY TableFacts
  <2> QED BY <2>1 DEF BrokerOrder
<1> HIDE DEF b2
<1>3. FilledOf(kids, br) = SumFunctionOnSet(f, D) /\ FilledOf(kids, b2) = SumFunctionOnSet(g, E)
  BY SumOf DEF FilledOf
<1>4. IsFiniteSet(D)
  BY FS_Subset
<1>5. \A d \in D : f[d] \in Nat /\ g[d] = f[d]
  BY <1>1, <1>2
<1>6. c \in kids => E = D \cup {c} /\ c \notin D /\ g[c] = 0
  BY <1>1
<1>7. c \notin kids => E = D
  BY <1>1
<1> HIDE DEF D, E, f, g
<1>8. SumFunctionOnSet(f, D) \in Nat /\ SumFunctionOnSet(g, D) = SumFunctionOnSet(f, D)
  BY <1>4, <1>5, SumNat, SumEqual
<1>9. ASSUME c \in kids PROVE SumFunctionOnSet(g, E) = SumFunctionOnSet(f, D)
  <2>1. \A d \in D : g[d] \in Int
    BY <1>5
  <2>2. c \notin D /\ g[c] \in Int /\ g[c] = 0 /\ E = D \cup {c}
    BY <1>6, <1>9
  <2>3. SumFunctionOnSet(g, D \cup {c}) = SumFunctionOnSet(g, D) + g[c]
    BY <1>4, <2>1, <2>2, SumAdd
  <2> QED BY <1>8, <2>2, <2>3
<1> QED BY <1>3, <1>7, <1>8, <1>9 DEF b2

\* Nothing that a step does to the orders other than c.
Elsewhere(c, dn, rs, br, dn2, rs2, br2) ==
  \A d : d # c => /\ d \in DOMAIN br2 <=> d \in DOMAIN br
                  /\ d \in DOMAIN br => br2[d] = br[d]
                  /\ Queued(rs2, d) = Queued(rs, d)
                  /\ Quiet(rs2, d) <=> Quiet(rs, d)
                  /\ d \in Range(dn2) <=> d \in Range(dn)

\* What may happen to the order c itself.
Moves(c, dn, rs, br, bk, dn2, rs2, br2) ==
  /\ c \in DOMAIN br \/ c \in Range(dn)
  /\ c \in DOMAIN bk /\ ChildEntry(c, rs, br, bk) => ChildEntry(c, rs2, br2, bk)
  /\ \A l \in Ledger : LedgerTrue(l, c, dn, rs, br, bk) => LedgerTrue(l, c, dn2, rs2, br2, bk)
  /\ c \in DOMAIN br2 \/ c \in Range(dn2) =>
       ExposureOf(c, br2, bk) \in Nat /\ ExposureOf(c, br2, bk) <= ExposureOf(c, br, bk)
  /\ NoMoreFills(c, dn, rs, br) => NoMoreFills(c, dn2, rs2, br2)

\* One child moves on, between queue, broker and responses, and the books stay true.
LEMMA ChildMoved ==
  ASSUME NEW n, NEW up, NEW dn, NEW rs, NEW bk, NEW ch, NEW ss, NEW br,
         Sound(n, up, dn, rs, bk, ch, ss, br), NEW c, NEW dn2, NEW rs2, NEW br2,
         Typed(n, up, dn2, rs2, bk, ch, ss, br2), Len(dn2) <= DownstreamBound,
         Belongs(dn2, rs2, br2, ch), Reported(rs2, br2), AtBroker(rs2, br2), OnItsWay(dn2, rs2, br2, bk),
         Elsewhere(c, dn, rs, br, dn2, rs2, br2), Moves(c, dn, rs, br, bk, dn2, rs2, br2),
         \A p : HandledOf(Kids(ch, p), rs2, br2) = HandledOf(Kids(ch, p), rs, br)
  PROVE  Sound(n, up, dn2, rs2, bk, ch, ss, br2)
<1>1. Booked(rs2, br2, bk, ch)
  <2>1. ASSUME NEW p \in DOMAIN ch, NEW d \in Kids(ch, p) \cap DOMAIN bk PROVE ChildEntry(d, rs2, br2, bk)
    <3>1. ChildEntry(d, rs, br, bk)
      BY DEF Sound, Booked
    <3>2. CASE d = c
      BY <3>1, <3>2 DEF Moves
    <3>3. CASE d # c
      BY <3>1, <3>3 DEF ChildEntry, Elsewhere
    <3> QED BY <3>2, <3>3
  <2> QED BY <2>1 DEF Booked
<1>2. Worked(dn2, rs2, br2, bk, ch, ss)
  <2>1. ASSUME NEW p \in DOMAIN ss PROVE SessionTrue(p, ss[p], dn2, rs2, br2, bk, ch)
    <3> DEFINE s == ss[p]
    <3>1. /\ s \in Session /\ SessionTrue(p, s, dn, rs, br, bk, ch)
      BY SoundSession
    <3>2. Ledgers(p, s, dn, rs, br, bk, ch)
      BY <3>1 DEF SessionTrue
    <3> HIDE DEF s
    <3>3. ASSUME NEW d \in DOMAIN s.ledgers PROVE LedgerTrue(s.ledgers[d], d, dn2, rs2, br2, bk)
      <4>1. LedgerTrue(s.ledgers[d], d, dn, rs, br, bk) /\ s.ledgers[d] \in Ledger
        BY <3>1, <3>2, SessionFacts DEF Ledgers
      <4>2. CASE d = c
        BY <4>1, <4>2 DEF Moves
      <4>3. CASE d # c
        BY <4>1, <4>3 DEF LedgerTrue, Elsewhere
      <4> QED BY <4>2, <4>3
    <3>4. ASSUME NEW d \in Kids(ch, p), d \notin DOMAIN s.ledgers
          PROVE  d \notin Range(dn2) /\ d \notin DOMAIN br2 /\ Quiet(rs2, d) /\ ~ Live(bk, d)
      <4>1. d \notin Range(dn) /\ d \notin DOMAIN br /\ Quiet(rs, d) /\ ~ Live(bk, d)
        BY <3>2, <3>4 DEF Ledgers
      <4>2. d # c
        BY <4>1 DEF Moves
      <4> QED BY <4>1, <4>2 DEF Elsewhere
    <3>5. Ledgers(p, s, dn2, rs2, br2, bk, ch)
      BY <3>2, <3>3, <3>4 DEF Ledgers
    <3> QED BY <3>1, <3>5 DEF SessionTrue, s
  <2> QED BY <2>1 DEF Worked
<1>3. Ended(dn2, rs2, br2, bk, ch, ss)
  <2>1. ASSUME NEW p \in DOMAIN ch \ DOMAIN ss PROVE Over(p, dn2, rs2, br2, bk, ch)
    <3> DEFINE kids == Kids(ch, p)
               S == SentOut(kids, dn, br)
               T == SentOut(kids, dn2, br2)
               f == [d \in S |-> ExposureOf(d, br, bk)]
               g == [d \in T |-> ExposureOf(d, br2, bk)]
    <3>1. Over(p, dn, rs, br, bk, ch) /\ bk[p].volume_entrust \in Nat
      BY SoundTypes DEF Sound, Ended, Parented
    <3>2. IsFiniteSet(kids)
      BY KidsFacts DEF Sound, Typed
    <3>3. IsFiniteSet(S) /\ IsFiniteSet(T)
      BY <3>2, FS_Subset DEF SentOut
    <3>4. T \in SUBSET S
      BY DEF SentOut, Elsewhere, Moves
    <3>5. \A d \in S : f[d] \in Nat
      <4>1. ASSUME NEW d \in S PROVE f[d] \in Nat
        <5>1. d \notin DOMAIN br => d \in DOMAIN bk
          BY DEF SentOut, Sound, OnItsWay, Live
        <5>2. ExposureOf(d, br, bk) \in Nat
          BY <5>1, SoundTypes DEF ExposureOf
        <5> QED BY <5>2
      <4> QED BY <4>1
    <3>6. \A d \in T : g[d] \in Nat /\ g[d] <= f[d]
      <4>1. ASSUME NEW d \in T PROVE g[d] \in Nat /\ g[d] <= f[d]
        <5>1. d \in S /\ f[d] \in Nat /\ f[d] = ExposureOf(d, br, bk) /\ g[d] = ExposureOf(d, br2, bk)
          BY <3>4, <3>5
        <5>2. d \in DOMAIN br2 \/ d \in Range(dn2)
          BY DEF SentOut
        <5> HIDE DEF f, g
        <5>3. CASE d = c
          BY <5>1, <5>2, <5>3 DEF Moves
        <5>4. CASE d # c
          <6>1. ExposureOf(d, br2, bk) = ExposureOf(d, br, bk)
            BY <5>4 DEF Elsewhere, ExposureOf
          <6> QED BY <5>1, <6>1
        <5> QED BY <5>3, <5>4
      <4> QED BY <4>1
    <3>7. /\ ExposureSum(kids, dn, br, bk) = SumFunctionOnSet(f, S)
          /\ ExposureSum(kids, dn2, br2, bk) = SumFunctionOnSet(g, T)
      BY SumOf DEF ExposureSum
    <3> HIDE DEF S, T, f, g
    <3>8. SumFunctionOnSet(g, T) <= SumFunctionOnSet(f, S)
      BY <3>3, <3>4, <3>5, <3>6, SumLess
    <3>9. SumFunctionOnSet(g, T) \in Nat /\ SumFunctionOnSet(f, S) \in Nat
      BY <3>3, <3>5, <3>6, SumNat
    <3>10. ExposureSum(kids, dn2, br2, bk) <= bk[p].volume_entrust
      <4>1. ExposureSum(kids, dn, br, bk) <= bk[p].volume_entrust
        BY <3>1 DEF Over
      <4> QED BY <3>1, <3>7, <3>8, <3>9, <4>1
    <3>11. \A d : NoMoreFills(d, dn, rs, br) => NoMoreFills(d, dn2, rs2, br2)
      <4>1. ASSUME NEW d, NoMoreFills(d, dn, rs, br) PROVE NoMoreFills(d, dn2, rs2, br2)
        <5>1. CASE d = c
          BY <4>1, <5>1 DEF Moves
        <5>2. CASE d # c
          BY <4>1, <5>2 DEF NoMoreFills, Elsewhere
        <5> QED BY <5>1, <5>2
      <4> QED BY <4>1
    <3> QED BY <3>1, <3>10, <3>11 DEF Over
  <2> QED BY <2>1 DEF Ended
<1>4. Bounded(dn2, bk)
  BY DEF Sound, Bounded
<1> QED BY <1>1, <1>2, <1>3, <1>4 DEF Sound

\* The same amount added on both sides.
LEMMA Shift ==
  ASSUME NEW a, a \in Nat, NEW b, b \in Nat, NEW e, e \in Nat, NEW q, q \in Nat, NEW w, w \in Nat, a + b = e + q
  PROVE  a + (b + w) = e + (q + w)
OBVIOUS

\* The broker reports r on the order c, which is o from then on.
LEMMA BrokerStep ==
  ASSUME NEW n, NEW up, NEW dn, NEW rs, NEW bk, NEW ch, NEW ss, NEW br,
         Sound(n, up, dn, rs, bk, ch, ss, br),
         NEW c \in DOMAIN br, br[c].phase # "done", NEW r \in Reports, r.internal_order_id = c,
         NEW o \in BrokerOrder, o.entrust = br[c].entrust, o.filled = br[c].filled + r.volume_traded,
         o.filled <= o.entrust, o.phase # "received",
         r.new_state \in TerminalState <=> o.phase = "done",
         r.new_state = "MarketAccepted" <=> r.volume_traded # 0,
         r.new_state = "BrokerAccepted" => br[c].phase = "received"
  PROVE  Sound(n, up, dn, Append(rs, r), bk, ch, ss, [br EXCEPT ![c] = o])
<1> DEFINE t == Append(rs, r)
           b2 == [br EXCEPT ![c] = o]
           v == r.volume_traded
           N == Len(rs)
<1>1. rs \in Seq(Reports) /\ br \in Tables(BrokerOrder) /\ v \in Nat
  BY DEF Sound, Typed, Reports
<1>2. b2 \in Tables(BrokerOrder)
  BY <1>1, ExceptTable
<1>3. DOMAIN b2 = DOMAIN br /\ b2[c] = o /\ \A d \in DOMAIN br \ {c} : b2[d] = br[d]
  BY <1>1, TableFacts
<1>4. /\ t \in Seq(Reports) /\ DOMAIN t = 1 .. N + 1 /\ DOMAIN rs = 1 .. N /\ N \in Nat
      /\ t[N + 1] = r /\ \A i \in 1 .. N : t[i] = rs[i]
  BY <1>1
<1>5. /\ \A d : d # c => /\ Queued(t, d) = Queued(rs, d)
                         /\ Quiet(t, d) <=> Quiet(rs, d)
      /\ Queued(t, c) = Queued(rs, c) + v /\ Queued(rs, c) \in Nat
  <2>1. /\ \A d : /\ Queued(rs, d) \in Nat
                  /\ d # r.internal_order_id => /\ Queued(Append(rs, r), d) = Queued(rs, d)
                                                /\ Quiet(Append(rs, r), d) <=> Quiet(rs, d)
        /\ Queued(Append(rs, r), r.internal_order_id)
             = Queued(rs, r.internal_order_id) + r.volume_traded
    BY <1>1, AppendFacts
  <2> QED BY <2>1
<1>6. \A p : HandledOf(Kids(ch, p), t, b2) = HandledOf(Kids(ch, p), rs, br)
  <2>1. ASSUME NEW p PROVE HandledOf(Kids(ch, p), t, b2) = HandledOf(Kids(ch, p), rs, br)
    <3> DEFINE kids == Kids(ch, p)
    <3>1. IsFiniteSet(kids)
      BY KidsFacts DEF Sound, Typed
    <3>2. FilledOf(kids, br) \in Nat /\ QueuedFor(rs, kids) \in Nat
      BY <1>1, <3>1, FilledNat, QueuedForTerm
    <3>3. /\ c \in kids => QueuedFor(t, kids) = QueuedFor(rs, kids) + v
          /\ c \notin kids => QueuedFor(t, kids) = QueuedFor(rs, kids)
      BY <1>1, QueuedForAppend
    <3>4. /\ c \in kids => FilledOf(kids, b2) = FilledOf(kids, br) + v
          /\ c \notin kids => FilledOf(kids, b2) = FilledOf(kids, br)
      BY <1>1, <3>1, FilledUpdate
    <3>5. /\ HandledOf(kids, t, b2) = FilledOf(kids, b2) - QueuedFor(t, kids)
          /\ HandledOf(kids, rs, br) = FilledOf(kids, br) - QueuedFor(rs, kids)
      BY HandledIs
    <3> HIDE DEF kids, t, b2, v
    <3>6. HandledOf(kids, t, b2) = HandledOf(kids, rs, br)
      <4>1. CASE c \in kids
        BY <1>1, <3>2, <3>3, <3>4, <3>5, <4>1
      <4>2. CASE c \notin kids
        BY <3>3, <3>4, <3>5, <4>2
      <4> QED BY <4>1, <4>2
    <3> QED BY <3>6 DEF kids
  <2> QED BY <2>1
<1> HIDE DEF t, b2, N
<1>7. /\ br[c].entrust \in Nat \ {0} /\ br[c].filled \in Nat /\ br[c].filled <= br[c].entrust
      /\ Queued(rs, c) <= br[c].filled
      /\ br[c].phase = "received" => Quiet(rs, c) /\ br[c].filled = 0 /\ Queued(rs, c) = 0
  BY SoundTypes DEF Sound, AtBroker
<1>8. Reported(rs, br)
  BY DEF Sound
<1>9. \A i \in 1 .. N : rs[i].internal_order_id = c => rs[i].new_state \notin TerminalState
  BY <1>4, <1>8 DEF Reported
<1>10. Reported(t, b2)
  <2>1. ASSUME NEW i \in DOMAIN t, NEW j \in DOMAIN t, i < j, t[i].internal_order_id = t[j].internal_order_id
        PROVE  t[i].new_state \notin TerminalState /\ t[j].new_state # "BrokerAccepted"
    <3>1. i \in 1 .. N /\ t[i] = rs[i]
      BY <1>4, <2>1
    <3>2. CASE j \in 1 .. N
      BY <1>4, <1>8, <2>1, <3>1, <3>2 DEF Reported
    <3>3. CASE j = N + 1
      <4>1. rs[i].internal_order_id = c /\ ~ Quiet(rs, c)
        BY <1>4, <2>1, <3>1, <3>3 DEF Quiet
      <4> QED BY <1>4, <1>7, <1>9, <3>1, <3>3, <4>1
    <3> QED BY <1>4, <3>2, <3>3
  <2>2. ASSUME NEW i \in DOMAIN t
        PROVE  /\ t[i].new_state = "MarketAccepted" <=> t[i].volume_traded # 0
               /\ t[i].new_state \in TerminalState
                    => (t[i].internal_order_id \in DOMAIN b2 => b2[t[i].internal_order_id].phase = "done")
               /\ t[i].new_state \notin TerminalState
                    => t[i].internal_order_id \in DOMAIN b2 /\ b2[t[i].internal_order_id].phase # "received"
               /\ t[i].new_state = "BrokerAccepted"
                    => Queued(t, t[i].internal_order_id) = b2[t[i].internal_order_id].filled
    <3> DEFINE d == t[i].internal_order_id
    <3>1. CASE i = N + 1
      <4>1. d = c /\ t[i] = r
        BY <1>4, <3>1
      <4>2. r.new_state = "BrokerAccepted" => Queued(t, c) = o.filled
        <5>1. SUFFICES ASSUME r.new_state = "BrokerAccepted" PROVE Queued(t, c) = o.filled
          OBVIOUS
        <5> QED BY <1>5, <1>7, <5>1
      <4>3. /\ r.new_state \in TerminalState => b2[c].phase = "done"
            /\ r.new_state \notin TerminalState => c \in DOMAIN b2 /\ b2[c].phase # "received"
            /\ r.new_state = "BrokerAccepted" => Queued(t, c) = b2[c].filled
        BY <1>3, <4>2
      <4>4. r.new_state = "MarketAccepted" <=> r.volume_traded # 0
        OBVIOUS
      <4>5. t[i].internal_order_id = c /\ t[i].new_state = r.new_state /\ t[i].volume_traded = r.volume_traded
        BY <4>1
      <4> HIDE DEF d
      <4>6. t[i].new_state = "MarketAccepted" <=> t[i].volume_traded # 0
        BY <4>4, <4>5
      <4>7. t[i].new_state \in TerminalState
              => (t[i].internal_order_id \in DOMAIN b2 => b2[t[i].internal_order_id].phase = "done")
        BY <4>3, <4>5
      <4>8. t[i].new_state \notin TerminalState
              => t[i].internal_order_id \in DOMAIN b2 /\ b2[t[i].internal_order_id].phase # "received"
        BY <4>3, <4>5
      <4>9. t[i].new_state = "BrokerAccepted"
              => Queued(t, t[i].internal_order_id) = b2[t[i].internal_order_id].filled
        BY <4>3, <4>5
      <4> QED BY <4>6, <4>7, <4>8, <4>9
    <3>2. CASE i \in 1 .. N
      <4>1. /\ rs[i].new_state = "MarketAccepted" <=> rs[i].volume_traded # 0
            /\ rs[i].new_state \in TerminalState => (d \in DOMAIN br => br[d].phase = "done")
            /\ rs[i].new_state \notin TerminalState => d \in DOMAIN br /\ br[d].phase # "received"
            /\ rs[i].new_state = "BrokerAccepted" => Queued(rs, d) = br[d].filled
            /\ t[i] = rs[i]
        BY <1>4, <1>8, <3>2 DEF Reported
      <4>2. CASE d # c
        <5>1. /\ d \in DOMAIN br <=> d \in DOMAIN b2
              /\ d \in DOMAIN br => b2[d] = br[d]
              /\ Queued(t, d) = Queued(rs, d)
          BY <1>3, <1>5, <4>2
        <5>2. \A x : x = d =>
                /\ rs[i].new_state \in TerminalState => (x \in DOMAIN b2 => b2[x].phase = "done")
                /\ rs[i].new_state \notin TerminalState => x \in DOMAIN b2 /\ b2[x].phase # "received"
                /\ rs[i].new_state = "BrokerAccepted" => Queued(t, x) = b2[x].filled
          <6> HIDE DEF d
          <6>1. rs[i].new_state = "BrokerAccepted" => rs[i].new_state \notin TerminalState
            BY DEF TerminalState
          <6> QED BY <4>1, <5>1, <6>1
        <5> QED BY <4>1, <5>2
      <4>3. CASE d = c
        <5>1. rs[i].new_state \notin TerminalState
          BY <1>9, <3>2, <4>1, <4>3
        <5>2. rs[i].new_state = "BrokerAccepted" => Queued(t, c) = o.filled
          BY <1>1, <1>5, <1>7, <4>1, <4>3
        <5> QED BY <1>3, <4>1, <4>3, <5>1, <5>2
      <4> QED BY <4>2, <4>3
    <3> QED BY <1>4, <3>1, <3>2
  <2> QED BY <2>1, <2>2 DEF Reported
<1>11. AtBroker(t, b2)
  <2>1. ASSUME NEW d \in DOMAIN b2
        PROVE  /\ b2[d].entrust # 0 /\ b2[d].filled <= b2[d].entrust
               /\ Queued(t, d) <= b2[d].filled
               /\ b2[d].phase = "received" => Quiet(t, d) /\ b2[d].filled = 0
    <3>1. CASE d = c
      <4>1. Queued(t, c) <= o.filled
        BY <1>1, <1>5, <1>7
      <4> QED BY <1>3, <1>7, <3>1, <4>1
    <3>2. CASE d # c
      BY <1>3, <1>5, <3>2 DEF Sound, AtBroker
    <3> QED BY <3>1, <3>2
  <2> QED BY <2>1 DEF AtBroker
<1>12. OnItsWay(dn, t, b2, bk)
  <2>1. OnItsWay(dn, rs, br, bk)
    BY DEF Sound
  <2>2. \A d \in Range(dn) : d # c
    BY <2>1 DEF OnItsWay
  <2> QED BY <1>3, <1>5, <2>1, <2>2 DEF OnItsWay
<1>13. Belongs(dn, t, b2, ch)
  <2>1. Belongs(dn, rs, br, ch)
    BY DEF Sound
  <2>2. \A i \in DOMAIN t : \E p \in DOMAIN ch : t[i].internal_order_id \in Kids(ch, p)
    <3>1. ASSUME NEW i \in DOMAIN t PROVE \E p \in DOMAIN ch : t[i].internal_order_id \in Kids(ch, p)
      <4>1. CASE i = N + 1
        BY <1>4, <2>1, <4>1 DEF Belongs
      <4>2. CASE i \in 1 .. N
        BY <1>4, <2>1, <4>2 DEF Belongs
      <4> QED BY <1>4, <4>1, <4>2
    <3> QED BY <3>1
  <2> QED BY <1>3, <2>1, <2>2 DEF Belongs
<1>14. Elsewhere(c, dn, rs, br, dn, t, b2)
  BY <1>3, <1>5 DEF Elsewhere
<1>15. Moves(c, dn, rs, br, bk, dn, t, b2)
  <2>1. ChildEntry(c, rs, br, bk) /\ c \in DOMAIN bk => ChildEntry(c, t, b2, bk)
    <3>1. SUFFICES ASSUME ChildEntry(c, rs, br, bk), c \in DOMAIN bk PROVE ChildEntry(c, t, b2, bk)
      OBVIOUS
    <3>2. bk[c].volume_remain \in Nat
      BY <3>1, SoundTypes
    <3>3. /\ bk[c].volume_entrust = br[c].entrust
          /\ bk[c].volume_remain + br[c].filled = br[c].entrust + Queued(rs, c)
          /\ bk[c].order_state \in TerminalState => bk[c].volume_remain = 0
      BY <3>1 DEF ChildEntry
    <3>4. bk[c].volume_remain + o.filled = o.entrust + Queued(t, c)
      <4>1. bk[c].volume_remain + (br[c].filled + v) = br[c].entrust + (Queued(rs, c) + v)
        <5>1. br[c].filled \in Nat /\ br[c].entrust \in Nat /\ Queued(rs, c) \in Nat /\ v \in Nat
          BY <1>1, <1>5, <1>7
        <5> DEFINE x == bk[c].volume_remain
                   y == br[c].filled
                   z == br[c].entrust
                   w == Queued(rs, c)
        <5>2. x \in Nat /\ y \in Nat /\ z \in Nat /\ w \in Nat /\ x + y = z + w
          BY <3>2, <3>3, <5>1
        <5> HIDE DEF x, y, z, w, v
        <5>3. x + (y + v) = z + (w + v)
          BY ONLY <5>1, <5>2
        <5> QED BY <5>3 DEF x, y, z, w
      <4>2. o.filled = br[c].filled + v /\ o.entrust = br[c].entrust
        OBVIOUS
      <4> QED BY <1>5, <4>1, <4>2
    <3> QED BY <1>3, <3>1, <3>3, <3>4 DEF ChildEntry
  <2>2. ASSUME NEW l \in Ledger, LedgerTrue(l, c, dn, rs, br, bk) PROVE LedgerTrue(l, c, dn, t, b2, bk)
    <3>1. ~ l.finalized /\ br[c].entrust = l.entrust /\ l.traded + Queued(rs, c) = br[c].filled
      BY <2>2 DEF LedgerTrue
    <3>2. l.traded \in Nat
      BY DEF Ledger
    <3>3. l.traded + Queued(t, c) = o.filled
      BY <1>1, <1>5, <1>7, <3>1, <3>2
    <3> QED BY <1>3, <2>2, <3>1, <3>3 DEF LedgerTrue
  <2>3. ExposureOf(c, b2, bk) \in Nat /\ ExposureOf(c, b2, bk) <= ExposureOf(c, br, bk)
    <3>1. o.filled \in Nat /\ o.entrust \in Nat
      BY DEF BrokerOrder
    <3> QED BY <1>3, <1>7, <3>1 DEF ExposureOf
  <2>4. NoMoreFills(c, dn, rs, br) => NoMoreFills(c, dn, t, b2)
    <3>1. SUFFICES ASSUME NoMoreFills(c, dn, rs, br) PROVE NoMoreFills(c, dn, t, b2)
      OBVIOUS
    <3>2. c \notin Range(dn) /\ Queued(rs, c) = 0 /\ br[c].filled = br[c].entrust
      BY <3>1 DEF NoMoreFills
    <3>3. v = 0
      BY <1>1, <1>7, <3>2
    <3>4. Queued(t, c) = 0 /\ o.filled = o.entrust
      BY <1>5, <1>7, <3>2, <3>3
    <3> QED BY <1>3, <3>2, <3>4 DEF NoMoreFills
  <2> QED BY <2>1, <2>2, <2>3, <2>4 DEF Moves
<1>16. Typed(n, up, dn, t, bk, ch, ss, b2) /\ Len(dn) <= DownstreamBound
  BY <1>2, <1>4 DEF Sound, Typed, Bounded
<1>17. Sound(n, up, dn, t, bk, ch, ss, b2)
  BY <1>6, <1>10, <1>11, <1>12, <1>13, <1>14, <1>15, <1>16, ChildMoved
<1> QED BY <1>17 DEF t, b2

\* A queue without repetition, with its head taken.
LEMMA TailDistinct ==
  ASSUME NEW dn \in Seq(Nat), dn # <<>>, \A i, j \in DOMAIN dn : dn[i] = dn[j] => i = j
  PROVE  /\ Tail(dn) \in Seq(Nat) /\ Head(dn) \in Range(dn) /\ Len(Tail(dn)) = Len(dn) - 1
         /\ \A i, j \in DOMAIN Tail(dn) : Tail(dn)[i] = Tail(dn)[j] => i = j
         /\ \A d : d \in Range(Tail(dn)) <=> d \in Range(dn) /\ d # Head(dn)
<1> DEFINE t == Tail(dn)
           N == Len(dn)
           h == Head(dn)
<1>1. /\ t \in Seq(Nat) /\ N \in Nat \ {0} /\ DOMAIN dn = 1 .. N /\ DOMAIN t = 1 .. N - 1
      /\ Len(t) = N - 1 /\ h = dn[1] /\ \A i \in 1 .. N - 1 : t[i] = dn[i + 1]
  OBVIOUS
<1> HIDE DEF t, N, h
<1>2. /\ 1 \in DOMAIN dn /\ \A i \in DOMAIN t : i + 1 \in DOMAIN dn /\ i + 1 # 1 /\ t[i] = dn[i + 1]
      /\ \A i \in DOMAIN dn : i # 1 => i - 1 \in DOMAIN t /\ dn[i] = t[i - 1]
  BY <1>1
<1>3. \A i, j \in DOMAIN t : t[i] = t[j] => i = j
  <2>1. ASSUME NEW i \in DOMAIN t, NEW j \in DOMAIN t, t[i] = t[j] PROVE i = j
    <3>1. i + 1 = j + 1
      BY <1>2, <2>1
    <3> QED BY <1>1, <3>1
  <2> QED BY <2>1
<1>4. h \in Range(dn)
  BY <1>1, <1>2 DEF Range
<1>5. ASSUME NEW d PROVE d \in Range(t) <=> d \in Range(dn) /\ d # h
  <2>1. ASSUME d \in Range(t) PROVE d \in Range(dn) /\ d # h
    <3>1. PICK i \in DOMAIN t : d = t[i]
      BY <2>1 DEF Range
    <3>2. i + 1 \in DOMAIN dn /\ d = dn[i + 1] /\ i + 1 # 1
      BY <1>2, <3>1
    <3> QED BY <1>1, <1>2, <3>2 DEF Range
  <2>2. ASSUME d \in Range(dn), d # h PROVE d \in Range(t)
    <3>1. PICK i \in DOMAIN dn : d = dn[i]
      BY <2>2 DEF Range
    <3>2. i # 1
      BY <1>1, <2>2, <3>1
    <3>3. i - 1 \in DOMAIN t /\ d = t[i - 1]
      BY <1>2, <3>1, <3>2
    <3> QED BY <3>3 DEF Range
  <2> QED BY <2>1, <2>2
<1>6. Len(t) = Len(dn) - 1
  BY <1>1 DEF N
<1> QED BY <1>1, <1>3, <1>4, <1>5, <1>6 DEF t, h

\* What holds of the order the gateway is about to take.
LEMMA OldestFacts ==
  ASSUME NEW n, NEW up, NEW dn, NEW rs, NEW bk, NEW ch, NEW ss, NEW br,
         Sound(n, up, dn, rs, bk, ch, ss, br), dn # <<>>, NEW c, c = Head(dn)
  PROVE  /\ c \in Nat /\ c \in Range(dn) /\ c \notin DOMAIN br /\ Quiet(rs, c) /\ Queued(rs, c) = 0
         /\ Live(bk, c) /\ c \in DOMAIN bk /\ bk[c] \in BookEntry /\ ChildEntry(c, rs, br, bk)
         /\ bk[c].volume_entrust \in Nat \ {0}
         /\ \E p \in DOMAIN ch : c \in Kids(ch, p)
         /\ OnItsWay(Tail(dn), rs, br, bk) /\ Tail(dn) \in Seq(Nat) /\ Len(Tail(dn)) <= DownstreamBound
         /\ \A d : d \in Range(Tail(dn)) <=> d \in Range(dn) /\ d # c
<1>1. dn \in Seq(Nat) /\ OnItsWay(dn, rs, br, bk) /\ Len(dn) <= DownstreamBound
  BY DEF Sound, Typed, Bounded
<1>2. /\ Tail(dn) \in Seq(Nat) /\ c \in Range(dn) /\ Len(Tail(dn)) = Len(dn) - 1
      /\ \A i, j \in DOMAIN Tail(dn) : Tail(dn)[i] = Tail(dn)[j] => i = j
      /\ \A d : d \in Range(Tail(dn)) <=> d \in Range(dn) /\ d # c
  BY <1>1, TailDistinct DEF OnItsWay
<1>3. c \in Nat /\ Len(Tail(dn)) <= DownstreamBound
  BY <1>1, <1>2, LimitsAssumption
<1>4. c \notin DOMAIN br /\ Quiet(rs, c) /\ Live(bk, c) /\ c \in DOMAIN bk
  BY <1>1, <1>2 DEF OnItsWay, Live
<1>5. bk[c] \in BookEntry /\ bk[c].volume_entrust \in Nat /\ Queued(rs, c) = 0
  BY <1>4, SoundTypes
<1>6. PICK p \in DOMAIN ch : c \in Kids(ch, p)
  BY <1>2 DEF Sound, Belongs
<1>7. ChildEntry(c, rs, br, bk)
  BY <1>4, <1>6 DEF Sound, Booked
<1>8. bk[c].volume_entrust \in Nat \ {0}
  BY <1>5, <1>7 DEF ChildEntry
<1>9. OnItsWay(Tail(dn), rs, br, bk)
  BY <1>1, <1>2 DEF OnItsWay
<1> QED BY <1>2, <1>3, <1>4, <1>5, <1>6, <1>7, <1>8, <1>9

\* The gateway hands the oldest child to the broker.
LEMMA GatewaySubmitted ==
  ASSUME NEW n, NEW up, NEW dn, NEW rs, NEW bk, NEW ch, NEW ss, NEW br,
         Sound(n, up, dn, rs, bk, ch, ss, br), dn # <<>>
  PROVE  Sound(n, up, Tail(dn), rs, bk, ch, ss,
               Put(br, Head(dn), [phase |-> "received", entrust |-> bk[Head(dn)].volume_entrust, filled |-> 0]))
<1> DEFINE c == Head(dn)
           o == [phase |-> "received", entrust |-> bk[c].volume_entrust, filled |-> 0]
           b2 == Put(br, c, o)
           t == Tail(dn)
<1>1. /\ c \in Nat /\ c \in Range(dn) /\ c \notin DOMAIN br /\ Quiet(rs, c) /\ Queued(rs, c) = 0
      /\ Live(bk, c) /\ c \in DOMAIN bk /\ bk[c] \in BookEntry /\ ChildEntry(c, rs, br, bk)
      /\ bk[c].volume_entrust \in Nat \ {0}
      /\ \E p \in DOMAIN ch : c \in Kids(ch, p)
      /\ OnItsWay(t, rs, br, bk) /\ t \in Seq(Nat) /\ Len(t) <= DownstreamBound
      /\ \A d : d \in Range(t) <=> d \in Range(dn) /\ d # c
  BY OldestFacts
<1>2. o \in BrokerOrder /\ o.phase = "received" /\ o.entrust = bk[c].volume_entrust /\ o.filled = 0
  BY <1>1 DEF BrokerOrder
<1> HIDE DEF o, c
<1>3. br \in Tables(BrokerOrder) /\ rs \in Seq(Reports)
  BY DEF Sound, Typed
<1>4. b2 \in Tables(BrokerOrder)
  BY <1>1, <1>2, <1>3, PutTable
<1>5. DOMAIN b2 = DOMAIN br \cup {c} /\ b2[c] = o /\ \A d \in DOMAIN br : b2[d] = br[d]
  BY <1>1 DEF Put
<1>6. \A p : HandledOf(Kids(ch, p), rs, b2) = HandledOf(Kids(ch, p), rs, br)
  <2>1. ASSUME NEW p PROVE HandledOf(Kids(ch, p), rs, b2) = HandledOf(Kids(ch, p), rs, br)
    <3>1. IsFiniteSet(Kids(ch, p))
      BY KidsFacts DEF Sound, Typed
    <3>2. FilledOf(Kids(ch, p), b2) = FilledOf(Kids(ch, p), br)
      BY <1>1, <1>2, <1>3, <3>1, FilledPut
    <3> QED BY <3>2, HandledIs
  <2> QED BY <2>1
<1> HIDE DEF b2, t
<1>7. \A i \in DOMAIN rs : rs[i].internal_order_id # c
  BY <1>1 DEF Quiet
<1>8. Reported(rs, b2)
  <2>1. Reported(rs, br)
    BY DEF Sound
  <2>2. \A i \in DOMAIN rs :
          /\ rs[i].internal_order_id \in DOMAIN b2 <=> rs[i].internal_order_id \in DOMAIN br
          /\ rs[i].internal_order_id \in DOMAIN br
               => b2[rs[i].internal_order_id] = br[rs[i].internal_order_id]
    BY <1>5, <1>7
  <2>3. ASSUME NEW i \in DOMAIN rs, NEW d, d = rs[i].internal_order_id
        PROVE  /\ rs[i].new_state = "MarketAccepted" <=> rs[i].volume_traded # 0
               /\ rs[i].new_state \in TerminalState => (d \in DOMAIN b2 => b2[d].phase = "done")
               /\ rs[i].new_state \notin TerminalState => d \in DOMAIN b2 /\ b2[d].phase # "received"
               /\ rs[i].new_state = "BrokerAccepted" => Queued(rs, d) = b2[d].filled
    <3>1. /\ rs[i].new_state = "MarketAccepted" <=> rs[i].volume_traded # 0
          /\ rs[i].new_state \in TerminalState => (d \in DOMAIN br => br[d].phase = "done")
          /\ rs[i].new_state \notin TerminalState => d \in DOMAIN br /\ br[d].phase # "received"
          /\ rs[i].new_state = "BrokerAccepted" => Queued(rs, d) = br[d].filled
      BY <2>1, <2>3 DEF Reported
    <3>2. rs[i].new_state = "BrokerAccepted" => rs[i].new_state \notin TerminalState
      BY DEF TerminalState
    <3>3. (d \in DOMAIN b2 <=> d \in DOMAIN br) /\ (d \in DOMAIN br => b2[d] = br[d])
      BY <2>2, <2>3
    <3> QED BY <3>1, <3>2, <3>3
  <2> QED BY <2>1, <2>3 DEF Reported
<1>9. AtBroker(rs, b2)
  <2>1. AtBroker(rs, br)
    BY DEF Sound
  <2>2. ASSUME NEW d \in DOMAIN b2
        PROVE  /\ b2[d].entrust # 0 /\ b2[d].filled <= b2[d].entrust
               /\ Queued(rs, d) <= b2[d].filled
               /\ b2[d].phase = "received" => Quiet(rs, d) /\ b2[d].filled = 0
    <3>1. CASE d = c
      BY <1>1, <1>2, <1>5, <3>1
    <3>2. CASE d # c
      <4>1. d \in DOMAIN br /\ b2[d] = br[d]
        BY <1>5, <3>2
      <4> QED BY <2>1, <4>1 DEF AtBroker
    <3> QED BY <3>1, <3>2
  <2> QED BY <2>2 DEF AtBroker
<1>10. OnItsWay(t, rs, b2, bk)
  BY <1>1, <1>5 DEF OnItsWay
<1>11. Belongs(t, rs, b2, ch)
  BY <1>1, <1>5 DEF Sound, Belongs
<1>12. Elsewhere(c, dn, rs, br, t, rs, b2)
  BY <1>1, <1>5 DEF Elsewhere
<1>13. Moves(c, dn, rs, br, bk, t, rs, b2)
  <2>1. ChildEntry(c, rs, b2, bk)
    <3>1. /\ bk[c].order_type = "New" /\ bk[c].volume_entrust # 0
          /\ bk[c].volume_remain = bk[c].volume_entrust
          /\ bk[c].volume_remain # 0 /\ bk[c].order_state \notin TerminalState
      BY <1>1 DEF ChildEntry, Live
    <3>2. bk[c].volume_remain + o.filled = o.entrust + Queued(rs, c)
      BY <1>1, <1>2, <3>1
    <3> QED BY <1>2, <1>5, <3>1, <3>2 DEF ChildEntry
  <2>2. ASSUME NEW l \in Ledger, LedgerTrue(l, c, dn, rs, br, bk) PROVE LedgerTrue(l, c, t, rs, b2, bk)
    <3>1. ~ l.finalized /\ l.traded = 0 /\ bk[c].volume_entrust = l.entrust
      BY <1>1, <2>2 DEF LedgerTrue
    <3>2. l.traded + Queued(rs, c) = o.filled
      BY <1>1, <1>2, <3>1
    <3> QED BY <1>2, <1>5, <2>2, <3>1, <3>2 DEF LedgerTrue
  <2>3. ExposureOf(c, b2, bk) \in Nat /\ ExposureOf(c, b2, bk) <= ExposureOf(c, br, bk)
    BY <1>1, <1>2, <1>5 DEF ExposureOf
  <2>4. ~ NoMoreFills(c, dn, rs, br)
    BY <1>1 DEF NoMoreFills
  <2> QED BY <1>1, <2>1, <2>2, <2>3, <2>4 DEF Moves
<1>14. Typed(n, up, t, rs, bk, ch, ss, b2)
  BY <1>1, <1>4 DEF Sound, Typed
<1>15. Sound(n, up, t, rs, bk, ch, ss, b2)
  BY <1>1, <1>6, <1>8, <1>9, <1>10, <1>11, <1>12, <1>13, <1>14, ChildMoved
<1> QED BY <1>15 DEF b2, o, c, t

\* The gateway refuses the oldest child and answers TraderError.
LEMMA GatewayRefused ==
  ASSUME NEW n, NEW up, NEW dn, NEW rs, NEW bk, NEW ch, NEW ss, NEW br,
         Sound(n, up, dn, rs, bk, ch, ss, br), dn # <<>>
  PROVE  Sound(n, up, Tail(dn), Append(rs, Response(Head(dn), "TraderError", 0, 0)), bk, ch, ss, br)
<1> DEFINE c == Head(dn)
           r == Response(c, "TraderError", 0, 0)
           w == Append(rs, r)
           t == Tail(dn)
           N == Len(rs)
<1>1. /\ c \in Nat /\ c \in Range(dn) /\ c \notin DOMAIN br /\ Quiet(rs, c) /\ Queued(rs, c) = 0
      /\ Live(bk, c) /\ c \in DOMAIN bk /\ bk[c] \in BookEntry /\ ChildEntry(c, rs, br, bk)
      /\ bk[c].volume_entrust \in Nat \ {0}
      /\ \E p \in DOMAIN ch : c \in Kids(ch, p)
      /\ OnItsWay(t, rs, br, bk) /\ t \in Seq(Nat) /\ Len(t) <= DownstreamBound
      /\ \A d : d \in Range(t) <=> d \in Range(dn) /\ d # c
  BY OldestFacts
<1>2. r \in Reports /\ r.internal_order_id = c /\ r.new_state = "TraderError" /\ r.volume_traded = 0
  BY <1>1 DEF Reports, Response
<1> HIDE DEF r, c
<1>3. rs \in Seq(Reports)
  BY DEF Sound, Typed
<1>4. /\ w \in Seq(Reports) /\ DOMAIN w = 1 .. N + 1 /\ DOMAIN rs = 1 .. N /\ N \in Nat
      /\ w[N + 1] = r /\ \A i \in 1 .. N : w[i] = rs[i]
  BY <1>2, <1>3
<1>5. /\ \A d : d # c => /\ Queued(w, d) = Queued(rs, d)
                         /\ Quiet(w, d) <=> Quiet(rs, d)
      /\ \A d : Queued(rs, d) \in Nat
      /\ Queued(w, c) = Queued(rs, c) + 0
  <2>1. /\ \A d : /\ Queued(rs, d) \in Nat
                  /\ d # r.internal_order_id => /\ Queued(Append(rs, r), d) = Queued(rs, d)
                                                /\ Quiet(Append(rs, r), d) <=> Quiet(rs, d)
        /\ Queued(Append(rs, r), r.internal_order_id)
             = Queued(rs, r.internal_order_id) + r.volume_traded
    BY <1>2, <1>3, AppendFacts
  <2> QED BY <1>2, <2>1
<1>6. \A p : HandledOf(Kids(ch, p), w, br) = HandledOf(Kids(ch, p), rs, br)
  <2>1. ASSUME NEW p PROVE HandledOf(Kids(ch, p), w, br) = HandledOf(Kids(ch, p), rs, br)
    <3>1. /\ QueuedFor(rs, Kids(ch, p)) \in Nat
          /\ r.internal_order_id \in Kids(ch, p)
               => QueuedFor(w, Kids(ch, p)) = QueuedFor(rs, Kids(ch, p)) + r.volume_traded
          /\ r.internal_order_id \notin Kids(ch, p)
               => QueuedFor(w, Kids(ch, p)) = QueuedFor(rs, Kids(ch, p))
      BY <1>2, <1>3, QueuedForAppend
    <3>2. QueuedFor(w, Kids(ch, p)) = QueuedFor(rs, Kids(ch, p))
      BY <1>2, <3>1
    <3> QED BY <3>2, HandledIs
  <2> QED BY <2>1
<1> HIDE DEF w, t, N
<1>7. \A i \in DOMAIN rs : rs[i].internal_order_id # c
  BY <1>1 DEF Quiet
<1>8. Reported(w, br)
  <2>0. Reported(rs, br)
    BY DEF Sound
  <2>1. ASSUME NEW i \in DOMAIN w, NEW j \in DOMAIN w, i < j, w[i].internal_order_id = w[j].internal_order_id
        PROVE  w[i].new_state \notin TerminalState /\ w[j].new_state # "BrokerAccepted"
    <3>1. i \in 1 .. N /\ w[i] = rs[i]
      BY <1>4, <2>1
    <3>2. j \in 1 .. N /\ w[j] = rs[j]
      BY <1>2, <1>4, <1>7, <2>1, <3>1
    <3> QED BY <1>4, <2>0, <2>1, <3>1, <3>2 DEF Reported
  <2>2. ASSUME NEW i \in DOMAIN w, NEW d, d = w[i].internal_order_id
        PROVE  /\ w[i].new_state = "MarketAccepted" <=> w[i].volume_traded # 0
               /\ w[i].new_state \in TerminalState => (d \in DOMAIN br => br[d].phase = "done")
               /\ w[i].new_state \notin TerminalState => d \in DOMAIN br /\ br[d].phase # "received"
               /\ w[i].new_state = "BrokerAccepted" => Queued(w, d) = br[d].filled
    <3>1. CASE i = N + 1
      <4>1. w[i] = r /\ d = c
        BY <1>2, <1>4, <2>2, <3>1
      <4>2. "TraderError" \in TerminalState
        BY DEF TerminalState
      <4> QED BY <1>1, <1>2, <4>1, <4>2
    <3>2. CASE i \in 1 .. N
      <4>1. w[i] = rs[i] /\ d = rs[i].internal_order_id /\ d # c /\ i \in DOMAIN rs
        BY <1>4, <1>7, <2>2, <3>2
      <4>2. /\ rs[i].new_state = "MarketAccepted" <=> rs[i].volume_traded # 0
            /\ rs[i].new_state \in TerminalState => (d \in DOMAIN br => br[d].phase = "done")
            /\ rs[i].new_state \notin TerminalState => d \in DOMAIN br /\ br[d].phase # "received"
            /\ rs[i].new_state = "BrokerAccepted" => Queued(rs, d) = br[d].filled
        BY <2>0, <4>1 DEF Reported
      <4>3. Queued(w, d) = Queued(rs, d)
        BY <1>5, <4>1
      <4> QED BY <4>1, <4>2, <4>3
    <3> QED BY <1>4, <3>1, <3>2
  <2> QED BY <2>1, <2>2 DEF Reported
<1>9. AtBroker(w, br)
  <2>1. AtBroker(rs, br)
    BY DEF Sound
  <2>2. \A d \in DOMAIN br : d # c
    BY <1>1
  <2> QED BY <1>5, <2>1, <2>2 DEF AtBroker
<1>10. OnItsWay(t, w, br, bk)
  BY <1>1, <1>5 DEF OnItsWay
<1>11. Belongs(t, w, br, ch)
  <2>1. Belongs(dn, rs, br, ch)
    BY DEF Sound
  <2>2. ASSUME NEW i \in DOMAIN w PROVE \E p \in DOMAIN ch : w[i].internal_order_id \in Kids(ch, p)
    <3>1. CASE i = N + 1
      BY <1>1, <1>2, <1>4, <3>1
    <3>2. CASE i \in 1 .. N
      BY <1>4, <2>1, <3>2 DEF Belongs
    <3> QED BY <1>4, <3>1, <3>2
  <2> QED BY <1>1, <2>1, <2>2 DEF Belongs
<1>12. Elsewhere(c, dn, rs, br, t, w, br)
  BY <1>1, <1>5 DEF Elsewhere
<1>13. Moves(c, dn, rs, br, bk, t, w, br)
  <2>1. ChildEntry(c, w, br, bk)
    BY <1>1 DEF ChildEntry, Live
  <2>2. ASSUME NEW l \in Ledger, LedgerTrue(l, c, dn, rs, br, bk) PROVE LedgerTrue(l, c, t, w, br, bk)
    <3>1. ~ l.finalized
      BY <1>1, <2>2 DEF LedgerTrue
    <3> QED BY <1>1, <2>2, <3>1 DEF LedgerTrue
  <2>3. ~ (c \in DOMAIN br \/ c \in Range(t))
    BY <1>1
  <2>4. ~ NoMoreFills(c, dn, rs, br)
    BY <1>1 DEF NoMoreFills
  <2> QED BY <1>1, <2>1, <2>2, <2>3, <2>4 DEF Moves
<1>14. Typed(n, up, t, w, bk, ch, ss, br)
  BY <1>1, <1>4 DEF Sound, Typed
<1>15. Sound(n, up, t, w, bk, ch, ss, br)
  BY <1>1, <1>6, <1>8, <1>9, <1>10, <1>11, <1>12, <1>13, <1>14, ChildMoved
<1> QED BY <1>15 DEF w, r, c, t

-----------------------------------------------------------------------------
(* The loop takes a response.                                               *)

\* The oldest response r and the order c it is about; t is what is left of the queue.
Answer(dn, rs, br, r, c, t) ==
  /\ r \in Reports /\ c \in Nat /\ t \in Seq(Reports) /\ r.volume_traded \in Nat
  /\ ~ Quiet(rs, c) /\ c \notin Range(dn)
  /\ Queued(rs, c) = r.volume_traded + Queued(t, c)
  /\ Queued(t, c) \in Nat /\ Queued(rs, c) \in Nat
  /\ \A d : d # c => Queued(t, d) = Queued(rs, d) /\ (Quiet(t, d) <=> Quiet(rs, d))
  /\ r.new_state \in TerminalState => /\ Quiet(t, c) /\ r.volume_traded = 0
                                      /\ c \in DOMAIN br => br[c].phase = "done"
  /\ r.new_state \notin TerminalState => c \in DOMAIN br
  /\ r.new_state \notin TerminalState /\ r.volume_traded = 0 => Queued(rs, c) = br[c].filled
  /\ Reported(t, br)

\* What the oldest response says about its child.
LEMMA ResponseFacts ==
  ASSUME NEW n, NEW up, NEW dn, NEW rs, NEW bk, NEW ch, NEW ss, NEW br,
         Sound(n, up, dn, rs, bk, ch, ss, br), rs # <<>>, NEW r, r = Head(rs),
         NEW c, c = r.internal_order_id, NEW t, t = Tail(rs)
  PROVE  Answer(dn, rs, br, r, c, t)
<1> DEFINE N == Len(rs)
<1>1. rs \in Seq(Reports) /\ Reported(rs, br) /\ OnItsWay(dn, rs, br, bk)
  BY DEF Sound, Typed
<1>2. /\ t \in Seq(Reports) /\ r \in Reports /\ N \in Nat \ {0} /\ DOMAIN rs = 1 .. N /\ DOMAIN t = 1 .. N - 1
      /\ r = rs[1] /\ \A i \in 1 .. N - 1 : t[i] = rs[i + 1]
  BY <1>1
<1> HIDE DEF N
<1>3. /\ 1 \in DOMAIN rs
      /\ \A i \in DOMAIN t : i + 1 \in DOMAIN rs /\ 1 < i + 1 /\ t[i] = rs[i + 1] /\ i \in Nat
  BY <1>2
<1>4. c \in Nat /\ r.volume_traded \in Nat
      /\ r.new_state \in {"TraderError", "BrokerAccepted", "BrokerRejected", "MarketAccepted", "Finished"}
  BY <1>2 DEF Reports
<1>5. ~ Quiet(rs, c)
  BY <1>2, <1>3 DEF Quiet
<1>6. c \notin Range(dn)
  BY <1>1, <1>5 DEF OnItsWay
<1>7. /\ \A d : /\ Queued(t, d) \in Nat
                /\ d # c => Queued(t, d) = Queued(rs, d) /\ (Quiet(t, d) <=> Quiet(rs, d))
      /\ Queued(rs, c) = r.volume_traded + Queued(t, c)
  BY <1>1, TailFacts
<1>8. Queued(rs, c) \in Nat
  BY <1>4, <1>7
<1>9. /\ r.new_state = "MarketAccepted" <=> r.volume_traded # 0
      /\ r.new_state \in TerminalState => (c \in DOMAIN br => br[c].phase = "done")
      /\ r.new_state \notin TerminalState => c \in DOMAIN br /\ br[c].phase # "received"
      /\ r.new_state = "BrokerAccepted" => Queued(rs, c) = br[c].filled
  BY <1>1, <1>2, <1>3 DEF Reported
<1>10. ASSUME r.new_state \in TerminalState PROVE Quiet(t, c) /\ r.volume_traded = 0
  <2>1. r.volume_traded = 0
    BY <1>9, <1>10 DEF TerminalState
  <2>2. \A i \in DOMAIN t : t[i].internal_order_id # c
    BY <1>1, <1>2, <1>3, <1>10 DEF Reported
  <2> QED BY <2>1, <2>2 DEF Quiet
<1>11. r.new_state \notin TerminalState /\ r.volume_traded = 0 => Queued(rs, c) = br[c].filled
  BY <1>4, <1>9 DEF TerminalState
<1>12. Reported(t, br)
  <2>1. ASSUME NEW i \in DOMAIN t, NEW j \in DOMAIN t, i < j, t[i].internal_order_id = t[j].internal_order_id
        PROVE  t[i].new_state \notin TerminalState /\ t[j].new_state # "BrokerAccepted"
    <3>1. i + 1 \in DOMAIN rs /\ j + 1 \in DOMAIN rs /\ i + 1 < j + 1 /\ t[i] = rs[i + 1] /\ t[j] = rs[j + 1]
      BY <1>3, <2>1
    <3> QED BY <1>1, <2>1, <3>1 DEF Reported
  <2>2. ASSUME NEW i \in DOMAIN t, NEW d, d = t[i].internal_order_id
        PROVE  /\ t[i].new_state = "MarketAccepted" <=> t[i].volume_traded # 0
               /\ t[i].new_state \in TerminalState => (d \in DOMAIN br => br[d].phase = "done")
               /\ t[i].new_state \notin TerminalState => d \in DOMAIN br /\ br[d].phase # "received"
               /\ t[i].new_state = "BrokerAccepted" => Queued(t, d) = br[d].filled
    <3>1. i + 1 \in DOMAIN rs /\ 1 < i + 1 /\ t[i] = rs[i + 1] /\ d = rs[i + 1].internal_order_id
      BY <1>3, <2>2
    <3>2. /\ t[i].new_state = "MarketAccepted" <=> t[i].volume_traded # 0
          /\ t[i].new_state \in TerminalState => (d \in DOMAIN br => br[d].phase = "done")
          /\ t[i].new_state \notin TerminalState => d \in DOMAIN br /\ br[d].phase # "received"
          /\ t[i].new_state = "BrokerAccepted" => Queued(rs, d) = br[d].filled
      BY <1>1, <3>1 DEF Reported
    <3>3. d = c => t[i].new_state # "BrokerAccepted"
      BY <1>1, <1>2, <1>3, <3>1, ZenonT(120) DEF Reported
    <3>4. d # c => Queued(t, d) = Queued(rs, d)
      BY <1>7
    <3> QED BY <3>2, <3>3, <3>4
  <2> QED BY <2>1, <2>2 DEF Reported
<1> QED BY <1>2, <1>4, <1>5, <1>6, <1>7, <1>8, <1>9, <1>10, <1>11, <1>12 DEF Answer

\* The entry of a child that r reports on.
LEMMA UpdatedEntry ==
  ASSUME NEW e \in BookEntry, NEW r \in Reports, NEW f, f = UpdateEntry(e, r)
  PROVE  /\ f \in BookEntry /\ f.order_type = e.order_type /\ f.volume_entrust = e.volume_entrust
         /\ f.volume_remain = Less(e.volume_remain, r.volume_traded)
         /\ f.order_state = IF f.volume_remain = 0 /\ r.volume_traded > 0 /\ r.new_state \notin TerminalState
                            THEN "Finished" ELSE r.new_state
<1>1. /\ e.volume_entrust \in Nat /\ e.volume_traded \in Nat /\ e.volume_remain \in Nat
  BY DEF BookEntry
<1>2. r.volume_traded \in Nat /\ r.new_state \in OrderState
  BY DEF Reports, OrderState
<1> DEFINE a == Smaller(e.volume_entrust, e.volume_traded + r.volume_traded)
           b == Less(e.volume_remain, r.volume_traded)
           s == IF b = 0 /\ r.volume_traded > 0 /\ r.new_state \notin TerminalState THEN "Finished" ELSE r.new_state
           x == [e EXCEPT !.volume_traded = a]
           y == [x EXCEPT !.volume_remain = b]
<1>3. a \in Nat /\ b \in Nat
  BY <1>1, <1>2 DEF Smaller, Less
<1>4. s \in OrderState
  BY <1>2 DEF OrderState
<1>5. f = [e EXCEPT !.volume_traded = a, !.volume_remain = b, !.order_state = s]
  BY DEF UpdateEntry
<1> HIDE DEF a, b, s
<1>6. x \in BookEntry /\ x.order_type = e.order_type /\ x.volume_entrust = e.volume_entrust
  BY <1>3 DEF BookEntry
<1>7. f = [y EXCEPT !.order_state = s]
  BY <1>5
<1> HIDE DEF x
<1>8. y \in BookEntry /\ y.order_type = x.order_type /\ y.volume_entrust = x.volume_entrust /\ y.volume_remain = b
  BY <1>3, <1>6 DEF BookEntry
<1> HIDE DEF y
<1>9. f \in BookEntry /\ f.order_type = y.order_type /\ f.volume_entrust = y.volume_entrust
      /\ f.volume_remain = y.volume_remain /\ f.order_state = s
  BY <1>4, <1>7, <1>8 DEF BookEntry
<1> QED BY <1>6, <1>8, <1>9 DEF b, s

\* What a response does to the entry of its order: f is the entry afterwards.
Heard(f, r, c, t, br, bk) ==
  /\ f \in BookEntry /\ f.order_type = "New" /\ f.volume_entrust = bk[c].volume_entrust
  /\ f.volume_entrust # 0
  /\ c \in DOMAIN br => /\ f.volume_entrust = br[c].entrust
                        /\ f.volume_remain + br[c].filled = br[c].entrust + Queued(t, c)
  /\ c \notin DOMAIN br => f.volume_remain = f.volume_entrust
  /\ f.order_state \notin TerminalState => f.volume_remain # 0 /\ Live(bk, c)
  /\ f.order_state \in TerminalState /\ c \in DOMAIN br =>
       f.volume_remain = 0 \/ (Quiet(t, c) /\ br[c].phase = "done")
  /\ r.new_state \in TerminalState => f.order_state \in TerminalState

\* The child's entry once the response is applied to it.
LEMMA HeardEntry ==
  ASSUME NEW n, NEW up, NEW dn, NEW rs, NEW bk, NEW ch, NEW ss, NEW br,
         Sound(n, up, dn, rs, bk, ch, ss, br), rs # <<>>, NEW r, r = Head(rs),
         NEW c, c = r.internal_order_id, NEW t, t = Tail(rs), c \in DOMAIN bk, NEW f, f = UpdateEntry(bk[c], r)
  PROVE  Heard(f, r, c, t, br, bk)
<1> DEFINE e == bk[c]
           v == r.volume_traded
<1>1. /\ r \in Reports /\ c \in Nat /\ t \in Seq(Reports) /\ v \in Nat
      /\ ~ Quiet(rs, c) /\ c \notin Range(dn)
      /\ Queued(rs, c) = v + Queued(t, c)
      /\ Queued(t, c) \in Nat /\ Queued(rs, c) \in Nat
      /\ r.new_state \in TerminalState => /\ Quiet(t, c) /\ v = 0
                                          /\ c \in DOMAIN br => br[c].phase = "done"
      /\ r.new_state \notin TerminalState => c \in DOMAIN br
      /\ r.new_state \notin TerminalState /\ v = 0 => Queued(rs, c) = br[c].filled
  <2>1. Answer(dn, rs, br, r, c, t)
    BY ResponseFacts
  <2> QED BY ONLY <2>1 DEF Answer
<1>2. PICK p \in DOMAIN ch : c \in Kids(ch, p)
  <2>1. rs \in Seq(Reports)
    BY DEF Sound, Typed
  <2>2. 1 \in DOMAIN rs /\ r = rs[1]
    BY <2>1
  <2> QED BY <2>2 DEF Sound, Belongs
<1>3. e \in BookEntry /\ e.volume_remain \in Nat /\ e.volume_entrust \in Nat
  BY SoundTypes
<1>4. ChildEntry(c, rs, br, bk)
  BY <1>2 DEF Sound, Booked
<1>5. /\ f \in BookEntry /\ f.order_type = e.order_type /\ f.volume_entrust = e.volume_entrust
      /\ f.volume_remain = Less(e.volume_remain, v)
      /\ f.order_state = IF f.volume_remain = 0 /\ v > 0 /\ r.new_state \notin TerminalState
                         THEN "Finished" ELSE r.new_state
  <2> HIDE DEF e
  <2> QED BY <1>1, <1>3, UpdatedEntry, SMTT(120) DEF e
<1>6. /\ e.order_type = "New" /\ e.volume_entrust # 0
      /\ c \in DOMAIN br => /\ e.volume_entrust = br[c].entrust
                            /\ e.volume_remain + br[c].filled = br[c].entrust + Queued(rs, c)
      /\ c \notin DOMAIN br => e.volume_remain = e.volume_entrust
      /\ e.order_state \in TerminalState /\ c \in DOMAIN br => e.volume_remain = 0
      /\ Live(bk, c) <=> e.order_state \notin TerminalState
  BY <1>1, <1>4 DEF ChildEntry, Live
<1>7. c \in DOMAIN br => br[c].filled \in Nat /\ br[c].entrust \in Nat /\ br[c].filled <= br[c].entrust
  BY SoundTypes DEF Sound, AtBroker
<1>8. "Finished" \in TerminalState
  BY DEF TerminalState
<1> HIDE DEF e, v
<1>9. CASE c \in DOMAIN br
  <2> DEFINE q == Queued(rs, c)
             u == Queued(t, c)
             F == br[c].filled
             E == br[c].entrust
  <2>1. /\ q = v + u /\ u \in Nat /\ q \in Nat /\ F \in Nat /\ E \in Nat /\ F <= E /\ e.volume_remain + F = E + q
        /\ e.volume_entrust = E /\ E # 0 /\ v \in Nat /\ e.volume_remain \in Nat
    BY <1>1, <1>3, <1>6, <1>7, <1>9
  <2>2. r.new_state \notin TerminalState /\ v = 0 => q = F
    BY <1>1
  <2> HIDE DEF q, u, F, E
  <2>3. f.volume_remain = e.volume_remain - v
    BY <1>5, <2>1 DEF Less
  <2>4. f.volume_remain + F = E + u
    <3> DEFINE R == e.volume_remain
               G == f.volume_remain
    <3>1. R \in Nat /\ R + F = E + q /\ G = R - v
      BY <2>1, <2>3
    <3> HIDE DEF R, G
    <3>2. G + F = E + u
      BY <2>1, <3>1
    <3> QED BY <3>2 DEF G
  <2>5. r.new_state \notin TerminalState /\ v = 0 => f.volume_remain # 0 /\ e.volume_remain # 0
    BY <2>1, <2>2, <2>3
  <2>6. r.new_state \notin TerminalState => e.order_state \notin TerminalState
    <3>1. SUFFICES ASSUME r.new_state \notin TerminalState, e.order_state \in TerminalState PROVE FALSE
      OBVIOUS
    <3>2. e.volume_remain = 0
      BY <1>6, <1>9, <3>1
    <3>3. v = 0
      BY <2>1, <3>2
    <3> QED BY <2>5, <3>1, <3>2, <3>3
  <2>7. f.order_state \notin TerminalState => r.new_state \notin TerminalState /\ f.volume_remain # 0
    BY <1>5, <1>8, <2>1, <2>5
  <2>8. f.order_state \in TerminalState => f.volume_remain = 0 \/ r.new_state \in TerminalState
    BY <1>5, <1>8
  <2>9. r.new_state \in TerminalState => f.order_state \in TerminalState
    BY <1>5, <1>8
  <2> QED BY <1>1, <1>5, <1>6, <1>9, <2>1, <2>4, <2>6, <2>7, <2>8, <2>9 DEF e, u, F, E, Heard
<1>10. CASE c \notin DOMAIN br
  <2>1. r.new_state \in TerminalState /\ v = 0
    BY <1>1, <1>10
  <2>2. f.volume_remain = e.volume_remain /\ f.order_state = r.new_state
    BY <1>3, <1>5, <2>1 DEF Less
  <2> QED BY <1>5, <1>6, <1>10, <2>1, <2>2 DEF e, Heard
<1> QED BY <1>9, <1>10

\* The session s has heard r of its child c, and is u afterwards.
Advised(u, s, c, r, dn, t, br, b2) ==
  /\ u \in Session /\ Schedule(u) /\ DOMAIN u.ledgers = DOMAIN s.ledgers
  /\ c \in DOMAIN u.ledgers
  /\ \A d \in DOMAIN s.ledgers \ {c} : u.ledgers[d] = s.ledgers[d]
  /\ LedgerTrue(u.ledgers[c], c, dn, t, br, b2)
  /\ ConfirmedTraded(u) = ConfirmedTraded(s) + r.volume_traded
  /\ u.target = s.target

\* The parent's session once it has heard the response.
LEMMA HeardByParent ==
  ASSUME NEW n, NEW up, NEW dn, NEW rs, NEW bk, NEW ch, NEW ss, NEW br,
         Sound(n, up, dn, rs, bk, ch, ss, br), NEW r, NEW c, NEW t, Answer(dn, rs, br, r, c, t),
         c = r.internal_order_id,
         NEW p \in DOMAIN ss, c \in Kids(ch, p), ss[p].terminal => ss[p].failed, NEW u, u = OnTradeResponse(ss[p], r),
         NEW b2, c \in DOMAIN b2 => c \in DOMAIN bk /\ b2[c].volume_entrust = bk[c].volume_entrust,
         r.new_state \in TerminalState => ~ Live(b2, c)
  PROVE  Advised(u, ss[p], c, r, dn, t, br, b2)
<1> DEFINE s == ss[p]
           l == s.ledgers[c]
           v == r.volume_traded
<1>1. /\ s \in Session /\ Balanced(s) /\ Schedule(s) /\ SessionTrue(p, s, dn, rs, br, bk, ch)
  BY SoundSession
<1>2. /\ r \in Reports /\ c \in Nat /\ v \in Nat
      /\ ~ Quiet(rs, c) /\ c \notin Range(dn)
      /\ Queued(rs, c) = v + Queued(t, c)
      /\ Queued(t, c) \in Nat /\ Queued(rs, c) \in Nat
      /\ r.new_state \in TerminalState => /\ Quiet(t, c) /\ v = 0
                                          /\ c \in DOMAIN br => br[c].phase = "done"
      /\ r.new_state \notin TerminalState => c \in DOMAIN br
  BY DEF Answer
<1>3. s.terminal => s.failed
  OBVIOUS
<1>4. u = OnTradeResponse(s, r)
  OBVIOUS
<1> HIDE DEF s, v
<1>5. c \in DOMAIN s.ledgers /\ LedgerTrue(l, c, dn, rs, br, bk)
  BY <1>1, <1>2 DEF SessionTrue, Ledgers
<1>6. l \in Ledger
  BY <1>1, <1>5, SessionFacts
<1>7. l.entrust \in Nat /\ l.traded \in Nat
  BY <1>6 DEF Ledger
<1> HIDE DEF l
<1>8. /\ ~ l.finalized
      /\ c \in DOMAIN br => br[c].entrust = l.entrust /\ l.traded + Queued(rs, c) = br[c].filled
      /\ c \notin DOMAIN br => l.traded = 0
      /\ c \in DOMAIN bk => bk[c].volume_entrust = l.entrust
  BY <1>2, <1>5 DEF LedgerTrue
<1>9. c \in DOMAIN br => br[c].filled \in Nat /\ br[c].filled <= br[c].entrust
  BY SoundTypes DEF Sound, AtBroker
<1>10. l.traded + v <= l.entrust
  <2>1. CASE c \in DOMAIN br
    <3> DEFINE q == Queued(rs, c)
               w == Queued(t, c)
    <3>1. q = v + w /\ q \in Nat /\ w \in Nat /\ v \in Nat /\ l.traded + q <= l.entrust
      BY <1>2, <1>8, <1>9, <2>1
    <3> HIDE DEF q, w
    <3> QED BY <1>7, <3>1
  <2>2. CASE c \notin DOMAIN br
    BY <1>2, <1>7, <1>8, <2>2
  <2> QED BY <2>1, <2>2
<1>11. /\ u \in Session /\ Balanced(u) /\ Schedule(u) /\ DOMAIN u.ledgers = DOMAIN s.ledgers
       /\ \A d \in DOMAIN s.ledgers \ {c} : u.ledgers[d] = s.ledgers[d]
       /\ u.ledgers[c] \in Ledger
       /\ u.ledgers[c].entrust = l.entrust
       /\ u.ledgers[c].traded = l.traded + v
       /\ u.ledgers[c].traded + u.ledgers[c].cancelled <= u.ledgers[c].entrust
       /\ ~ u.ledgers[c].finalized => u.ledgers[c].cancelled = 0
       /\ u.ledgers[c].finalized => r.new_state \in TerminalState
       /\ ConfirmedTraded(u) = ConfirmedTraded(s) + v
       /\ u.target = s.target
  BY <1>1, <1>2, <1>3, <1>4, <1>5, <1>8, <1>10, HeardSession DEF l, v
<1>12. LedgerTrue(u.ledgers[c], c, dn, t, br, b2)
  <2> DEFINE m == u.ledgers[c]
  <2>1. /\ m.entrust = l.entrust /\ m.traded = l.traded + v /\ m.traded + m.cancelled <= m.entrust
        /\ ~ m.finalized => m.cancelled = 0
        /\ m.finalized => r.new_state \in TerminalState
    BY <1>11
  <2> HIDE DEF m
  <2>2. ASSUME c \in DOMAIN br PROVE br[c].entrust = m.entrust /\ m.traded + Queued(t, c) = br[c].filled
    <3> DEFINE q == Queued(rs, c)
               w == Queued(t, c)
    <3>1. q = v + w /\ q \in Nat /\ w \in Nat /\ v \in Nat /\ l.traded + q = br[c].filled
      BY <1>2, <1>8, <2>2
    <3> HIDE DEF q, w
    <3>2. (l.traded + v) + w = br[c].filled
      BY <1>7, <3>1
    <3> QED BY <1>8, <2>1, <2>2, <3>2 DEF w
  <2>3. c \notin DOMAIN br => m.traded = 0
    BY <1>2, <1>7, <1>8, <2>1
  <2>4. c \in DOMAIN b2 => b2[c].volume_entrust = m.entrust
    BY <1>8, <2>1
  <2>5. m.finalized => /\ c \notin Range(dn) /\ Quiet(t, c)
                       /\ c \in DOMAIN br => br[c].phase = "done"
                       /\ ~ Live(b2, c)
    BY <1>2, <2>1
  <2>6. LedgerTrue(m, c, dn, t, br, b2)
    BY <2>1, <2>2, <2>3, <2>4, <2>5 DEF LedgerTrue
  <2> QED BY <2>6 DEF m
<1> QED BY <1>5, <1>11, <1>12 DEF s, v, Advised

\* What has been handled of a family, with one response taken.
LEMMA HandledTail ==
  ASSUME NEW rs \in Seq(Reports), rs # <<>>, NEW kids, IsFiniteSet(kids), NEW br \in Tables(BrokerOrder)
  PROVE  /\ HandledOf(kids, rs, br) \in Int
         /\ Head(rs).internal_order_id \in kids
              => HandledOf(kids, Tail(rs), br) = HandledOf(kids, rs, br) + Head(rs).volume_traded
         /\ Head(rs).internal_order_id \notin kids
              => HandledOf(kids, Tail(rs), br) = HandledOf(kids, rs, br)
<1> DEFINE a == QueuedFor(rs, kids)
           b == QueuedFor(Tail(rs), kids)
           f == FilledOf(kids, br)
           v == Head(rs).volume_traded
<1>1. /\ b \in Nat
      /\ Head(rs).internal_order_id \in kids => a = v + b
      /\ Head(rs).internal_order_id \notin kids => a = b
  BY QueuedForTail
<1>2. f \in Nat /\ v \in Nat
  <2>1. Head(rs) \in Reports
    OBVIOUS
  <2> QED BY <2>1, FilledNat DEF Reports
<1>3. HandledOf(kids, rs, br) = f - a /\ HandledOf(kids, Tail(rs), br) = f - b
  BY HandledIs
<1> HIDE DEF a, b, f, v
<1>4. CASE Head(rs).internal_order_id \in kids
  <2>1. f - a \in Int /\ f - b = (f - a) + v
    BY <1>1, <1>2, <1>4
  <2> QED BY <1>3, <1>4, <2>1 DEF v
<1>5. CASE Head(rs).internal_order_id \notin kids
  <2>1. f - a \in Int /\ f - b = f - a
    BY <1>1, <1>2, <1>5
  <2> QED BY <1>3, <1>5, <2>1
<1> QED BY <1>4, <1>5

\* The book over D, and the sessions, once the response r of the child c of p
\* is applied.
BookWith(bk, D, c, r) == [id \in D |-> IF id = c THEN UpdateEntry(bk[c], r) ELSE bk[id]]

SessionsWith(ss, p, r) == IF p \in DOMAIN ss THEN [ss EXCEPT ![p] = OnTradeResponse(ss[p], r)] ELSE ss

\* Handling the oldest response, in the book and in the session, keeps everything sound.
LEMMA ResponseHandled ==
  ASSUME NEW n, NEW up, NEW dn, NEW rs, NEW bk, NEW ch, NEW ss, NEW br,
         Sound(n, up, dn, rs, bk, ch, ss, br), rs # <<>>, NEW r, r = Head(rs),
         NEW c, c = r.internal_order_id, NEW p \in DOMAIN ch, c \in Kids(ch, p),
         \A q \in DOMAIN ss : ss[q].terminal => ss[q].failed,
         NEW D, D \in SUBSET DOMAIN bk, DOMAIN bk \ {c} \subseteq D,
         NEW b2, b2 = BookWith(bk, D, c, r), NEW ss2, ss2 = SessionsWith(ss, p, r)
  PROVE  Sound(n, up, dn, Tail(rs), b2, ch, ss2, br)
<1> /\ b2 = [id \in D |-> IF id = c THEN UpdateEntry(bk[c], r) ELSE bk[id]]
    /\ ss2 = IF p \in DOMAIN ss THEN [ss EXCEPT ![p] = OnTradeResponse(ss[p], r)] ELSE ss
  BY DEF BookWith, SessionsWith
<1> DEFINE t == Tail(rs)
           v == r.volume_traded
<1>1. Answer(dn, rs, br, r, c, t)
  BY ResponseFacts
<1>2. /\ rs \in Seq(Reports) /\ bk \in Tables(BookEntry) /\ br \in Tables(BrokerOrder) /\ ss \in Tables(Session)
      /\ n \in Nat \ {0}
  BY DEF Sound, Typed
<1>3. \A kids : IsFiniteSet(kids) =>
        /\ HandledOf(kids, rs, br) \in Int
        /\ c \in kids => HandledOf(kids, t, br) = HandledOf(kids, rs, br) + v
        /\ c \notin kids => HandledOf(kids, t, br) = HandledOf(kids, rs, br)
  BY <1>2, HandledTail
<1> HIDE DEF t, v
<1>4. /\ r \in Reports /\ c \in Nat /\ t \in Seq(Reports) /\ v \in Nat
      /\ ~ Quiet(rs, c) /\ c \notin Range(dn)
      /\ Queued(rs, c) = v + Queued(t, c)
      /\ Queued(t, c) \in Nat /\ Queued(rs, c) \in Nat
      /\ \A d : d # c => Queued(t, d) = Queued(rs, d) /\ (Quiet(t, d) <=> Quiet(rs, d))
      /\ Reported(t, br)
  BY <1>1 DEF Answer, v
<1>5. Families(n, ch)
  BY DEF Sound
<1>6. /\ \A q : IsFiniteSet(Kids(ch, q)) /\ Kids(ch, q) \subseteq Issued(n)
      /\ \A q : q # p => c \notin Kids(ch, q)
      /\ c \notin DOMAIN ch /\ c \notin DOMAIN ss
  <2>1. \A q : IsFiniteSet(Kids(ch, q)) /\ Kids(ch, q) \subseteq Issued(n) /\ (q \notin DOMAIN ch => Kids(ch, q) = {})
    BY <1>2, <1>5, KidsFacts
  <2>2. \A q \in DOMAIN ch : q # p => c \notin Kids(ch, q)
    BY <1>5 DEF Families
  <2>3. c \notin DOMAIN ch /\ c \notin DOMAIN ss
    BY <1>5 DEF Families, Sound, Parented
  <2> QED BY <2>1, <2>2, <2>3
<1> DEFINE f == UpdateEntry(bk[c], r)
<1>7. /\ DOMAIN b2 = D /\ b2 = [id \in DOMAIN b2 |-> b2[id]]
      /\ c \in D => b2[c] = f
      /\ \A d : d # c => (d \in DOMAIN b2 <=> d \in DOMAIN bk) /\ (d \in DOMAIN bk => b2[d] = bk[d])
  OBVIOUS
<1>8. ASSUME c \in DOMAIN bk
      PROVE  /\ f \in BookEntry /\ f.order_type = "New" /\ f.volume_entrust = bk[c].volume_entrust
             /\ f.volume_entrust # 0
             /\ c \in DOMAIN br => /\ f.volume_entrust = br[c].entrust
                                   /\ f.volume_remain + br[c].filled = br[c].entrust + Queued(t, c)
             /\ c \notin DOMAIN br => f.volume_remain = f.volume_entrust
             /\ f.order_state \notin TerminalState => f.volume_remain # 0 /\ Live(bk, c)
             /\ f.order_state \in TerminalState /\ c \in DOMAIN br =>
                  f.volume_remain = 0 \/ (Quiet(t, c) /\ br[c].phase = "done")
             /\ r.new_state \in TerminalState => f.order_state \in TerminalState
  <2>1. t = Tail(rs)
    BY DEF t
  <2> HIDE DEF f
  <2>2. f = UpdateEntry(bk[c], r)
    BY DEF f
  <2>3. Heard(f, r, c, t, br, bk)
    BY <1>8, <2>1, <2>2, HeardEntry
  <2> QED BY ONLY <2>3 DEF Heard
<1> HIDE DEF f
<1>9. /\ c \in DOMAIN b2 => c \in DOMAIN bk /\ b2[c] = f
      /\ \A d : d # c => (Live(b2, d) <=> Live(bk, d))
      /\ Live(b2, c) => Live(bk, c)
      /\ r.new_state \in TerminalState => ~ Live(b2, c)
  <2>1. c \in DOMAIN b2 => c \in DOMAIN bk /\ b2[c] = f
    BY <1>7
  <2>2. \A d : d # c => (Live(b2, d) <=> Live(bk, d))
    BY <1>7 DEF Live
  <2>3. Live(b2, c) => f.order_state \notin TerminalState /\ c \in DOMAIN bk
    BY <2>1 DEF Live
  <2> QED BY <1>8, <2>1, <2>2, <2>3
<1>10. b2 \in Tables(BookEntry)
  <2>1. DOMAIN bk \subseteq Nat /\ \A d \in DOMAIN bk : bk[d] \in BookEntry
    BY <1>2, TableFacts
  <2>2. DOMAIN b2 \subseteq Nat /\ \A d \in DOMAIN b2 : b2[d] \in BookEntry
    BY <1>7, <1>8, <1>9, <2>1
  <2>3. b2 = [id \in DOMAIN b2 |-> b2[id]]
    BY <1>7
  <2> QED BY ONLY <2>2, <2>3, TableIntro
<1>11. p \in DOMAIN ss =>
         /\ DOMAIN ss2 = DOMAIN ss /\ ss2[p] = OnTradeResponse(ss[p], r)
         /\ \A q \in DOMAIN ss \ {p} : ss2[q] = ss[q]
  BY <1>2, TableFacts
<1>12. ASSUME p \in DOMAIN ss
       PROVE  /\ ss2[p] \in Session /\ Schedule(ss2[p]) /\ DOMAIN ss2[p].ledgers = DOMAIN ss[p].ledgers
              /\ c \in DOMAIN ss2[p].ledgers
              /\ \A d \in DOMAIN ss[p].ledgers \ {c} : ss2[p].ledgers[d] = ss[p].ledgers[d]
              /\ LedgerTrue(ss2[p].ledgers[c], c, dn, t, br, b2)
              /\ ConfirmedTraded(ss2[p]) = ConfirmedTraded(ss[p]) + v
              /\ ss2[p].target = ss[p].target
  <2>1. c \in DOMAIN b2 => c \in DOMAIN bk /\ b2[c].volume_entrust = bk[c].volume_entrust
    BY <1>8, <1>9
  <2>2. ss2[p] = OnTradeResponse(ss[p], r) /\ (ss[p].terminal => ss[p].failed)
    BY <1>11, <1>12
  <2>3. r.new_state \in TerminalState => ~ Live(b2, c)
    BY <1>9
  <2>4. Advised(ss2[p], ss[p], c, r, dn, t, br, b2)
    <3>1. Sound(n, up, dn, rs, bk, ch, ss, br) /\ c = r.internal_order_id /\ c \in Kids(ch, p)
      OBVIOUS
    <3> QED BY ONLY <1>1, <1>12, <2>1, <2>2, <2>3, <3>1, HeardByParent
  <2> QED BY ONLY <2>4 DEF v, Advised
<1>13. ss2 \in Tables(Session) /\ DOMAIN ss2 = DOMAIN ss
  <2>1. CASE p \in DOMAIN ss
    <3>1. OnTradeResponse(ss[p], r) \in Session
      BY <1>11, <1>12, <2>1
    <3>2. ss2 = [ss EXCEPT ![p] = OnTradeResponse(ss[p], r)]
      BY <2>1
    <3>3. [ss EXCEPT ![p] = OnTradeResponse(ss[p], r)] \in Tables(Session)
      BY ONLY <1>2, <2>1, <3>1, ExceptTable
    <3> QED BY ONLY <1>11, <2>1, <3>2, <3>3
  <2>2. CASE p \notin DOMAIN ss
    BY <1>2, <2>2
  <2> QED BY <2>1, <2>2
<1>14. /\ \A q \in DOMAIN ss : q # p => ss2[q] = ss[q]
  BY <1>11
<1>15. Typed(n, up, dn, t, b2, ch, ss2, br)
  BY <1>4, <1>10, <1>13 DEF Sound, Typed
<1>16. Bounded(dn, b2)
  <2>1. IsFiniteSet(DOMAIN bk)
    <3>1. DOMAIN bk \subseteq Issued(n)
      BY DEF Sound, Parented
    <3> QED BY <1>2, <3>1, IssuedFacts, FS_Subset
  <2>2. Cardinality(DOMAIN b2) <= Cardinality(DOMAIN bk) /\ IsFiniteSet(DOMAIN b2)
    BY <1>7, <2>1, FS_Subset
  <2>3. Cardinality(DOMAIN bk) \in Nat /\ Cardinality(DOMAIN b2) \in Nat
    BY <2>1, <2>2, FS_CardinalityType
  <2>4. Cardinality(DOMAIN bk) <= BookCapacity /\ Len(dn) <= DownstreamBound
    BY DEF Sound, Bounded
  <2> QED BY <2>2, <2>3, <2>4, LimitsAssumption DEF Bounded
<1>17. Waiters(n, up, b2, ch)
  BY <1>7 DEF Sound, Waiters
<1>18. Parented(n, b2, ch, ss2)
  <2>1. Parented(n, bk, ch, ss)
    BY DEF Sound
  <2>2. \A q \in DOMAIN ch \cup DOMAIN ss : q # c /\ q \in DOMAIN bk
    BY <1>6, <2>1 DEF Parented
  <2>3. \A q \in DOMAIN ch \cup DOMAIN ss : q \in DOMAIN b2 /\ b2[q] = bk[q]
    BY <1>7, <2>2
  <2> QED BY <1>7, <1>13, <2>1, <2>3 DEF Parented
<1>19. Belongs(dn, t, br, ch)
  <2>1. Belongs(dn, rs, br, ch)
    BY DEF Sound
  <2>2. \A i \in DOMAIN t : i + 1 \in DOMAIN rs /\ t[i] = rs[i + 1]
    BY <1>2 DEF t
  <2> QED BY <2>1, <2>2 DEF Belongs
<1>20. AtBroker(t, br)
  <2>1. AtBroker(rs, br)
    BY DEF Sound
  <2>2. ASSUME NEW d \in DOMAIN br PROVE Queued(t, d) <= br[d].filled /\ (br[d].phase = "received" => Quiet(t, d))
    <3>1. CASE d # c
      BY <1>4, <2>1, <3>1 DEF AtBroker
    <3>2. CASE d = c
      <4>1. Queued(rs, c) <= br[c].filled /\ br[c].phase # "received" /\ br[c].filled \in Nat
        BY <1>4, <2>1, <3>2, SoundTypes DEF AtBroker
      <4>2. Queued(t, c) <= Queued(rs, c)
        BY <1>4
      <4> QED BY <1>4, <3>2, <4>1, <4>2
    <3> QED BY <3>1, <3>2
  <2> QED BY <2>1, <2>2 DEF AtBroker
<1>21. OnItsWay(dn, t, br, b2)
  <2>1. OnItsWay(dn, rs, br, bk)
    BY DEF Sound
  <2>2. \A d \in Range(dn) : d # c
    BY <1>4
  <2> QED BY <1>4, <1>9, <2>1, <2>2 DEF OnItsWay
<1>22. Booked(t, br, b2, ch)
  <2>1. ASSUME NEW q \in DOMAIN ch, NEW d \in Kids(ch, q) \cap DOMAIN b2 PROVE ChildEntry(d, t, br, b2)
    <3>1. CASE d = c
      <4>1. c \in DOMAIN bk /\ b2[c] = f
        BY <1>9, <3>1
      <4>2. Live(b2, c) => f.order_state \notin TerminalState
        BY <4>1 DEF Live
      <4> QED BY <1>8, <3>1, <4>1, <4>2 DEF ChildEntry
    <3>2. CASE d # c
      <4>1. d \in DOMAIN bk /\ b2[d] = bk[d] /\ (Live(b2, d) <=> Live(bk, d))
        BY <1>7, <1>9, <3>2
      <4>2. ChildEntry(d, rs, br, bk)
        BY <4>1 DEF Sound, Booked
      <4>3. Queued(t, d) = Queued(rs, d) /\ (Quiet(t, d) <=> Quiet(rs, d))
        BY <1>4, <3>2
      <4> QED BY <4>1, <4>2, <4>3 DEF ChildEntry
    <3> QED BY <3>1, <3>2
  <2> QED BY <2>1 DEF Booked
<1>23. OneLive(b2, ch)
  <2>1. \A d : Live(b2, d) => Live(bk, d)
    BY <1>9
  <2> QED BY <2>1 DEF Sound, OneLive
<1>24. Worked(dn, t, br, b2, ch, ss2)
  <2>1. ASSUME NEW q \in DOMAIN ss2 PROVE SessionTrue(q, ss2[q], dn, t, br, b2, ch)
    <3>1. q \in DOMAIN ss /\ q \in DOMAIN bk /\ q # c
      BY <1>6, <1>13 DEF Sound, Parented
    <3>2. SessionTrue(q, ss[q], dn, rs, br, bk, ch) /\ b2[q] = bk[q]
      BY <1>7, <3>1 DEF Sound, Worked
    <3>3. Ledgers(q, ss[q], dn, rs, br, bk, ch)
      BY <3>2 DEF SessionTrue
    <3>4. ASSUME NEW d \in DOMAIN ss[q].ledgers, d # c PROVE LedgerTrue(ss[q].ledgers[d], d, dn, t, br, b2)
      <4>1. LedgerTrue(ss[q].ledgers[d], d, dn, rs, br, bk)
        BY <3>3 DEF Ledgers
      <4>2. Queued(t, d) = Queued(rs, d) /\ (Quiet(t, d) <=> Quiet(rs, d)) /\ (Live(b2, d) <=> Live(bk, d))
            /\ (d \in DOMAIN b2 <=> d \in DOMAIN bk) /\ (d \in DOMAIN bk => b2[d] = bk[d])
        BY <1>4, <1>7, <1>9, <3>4
      <4> QED BY <4>1, <4>2 DEF LedgerTrue
    <3>5. ASSUME NEW d \in Kids(ch, q), d \notin DOMAIN ss[q].ledgers
          PROVE  d \notin Range(dn) /\ d \notin DOMAIN br /\ Quiet(t, d) /\ ~ Live(b2, d)
      <4>1. d \notin Range(dn) /\ d \notin DOMAIN br /\ Quiet(rs, d) /\ ~ Live(bk, d)
        BY <3>3, <3>5 DEF Ledgers
      <4>2. d # c
        BY <1>4, <4>1
      <4> QED BY <1>4, <1>9, <4>1, <4>2
    <3>6. CASE q # p
      <4>1. c \notin Kids(ch, q) /\ ss2[q] = ss[q]
        BY <1>6, <1>14, <3>1, <3>6
      <4>2. HandledOf(Kids(ch, q), t, br) = HandledOf(Kids(ch, q), rs, br)
        BY <1>3, <1>6, <4>1
      <4>3. \A d \in DOMAIN ss[q].ledgers : d # c
        BY <3>3, <4>1 DEF Ledgers
      <4>4. Ledgers(q, ss[q], dn, t, br, b2, ch)
        BY <3>3, <3>4, <3>5, <4>3 DEF Ledgers
      <4> QED BY <3>2, <4>1, <4>2, <4>4 DEF SessionTrue
    <3>7. CASE q = p
      <4>1. HandledOf(Kids(ch, q), t, br) = HandledOf(Kids(ch, q), rs, br) + v
        BY <1>3, <1>6, <3>7
      <4>2. Ledgers(q, ss2[q], dn, t, br, b2, ch)
        <5>1. ASSUME NEW d \in DOMAIN ss2[q].ledgers PROVE LedgerTrue(ss2[q].ledgers[d], d, dn, t, br, b2)
          <6>1. CASE d = c
            BY <1>12, <3>1, <3>7, <6>1
          <6>2. CASE d # c
            BY <1>12, <3>1, <3>4, <3>7, <6>2
          <6> QED BY <6>1, <6>2
        <5>2. DOMAIN ss2[q].ledgers = DOMAIN ss[q].ledgers
          BY <1>12, <3>1, <3>7
        <5> QED BY <3>3, <3>5, <5>1, <5>2 DEF Ledgers
      <4>3. /\ Schedule(ss2[q]) /\ ConfirmedTraded(ss2[q]) = ConfirmedTraded(ss[q]) + v /\ ss2[q].target = ss[q].target
        BY <1>12, <3>1, <3>7
      <4> QED BY <3>2, <4>1, <4>2, <4>3 DEF SessionTrue
    <3> QED BY <3>6, <3>7
  <2> QED BY <2>1 DEF Worked
<1>25. Ended(dn, t, br, b2, ch, ss2)
  <2>1. ASSUME NEW q \in DOMAIN ch \ DOMAIN ss2 PROVE Over(q, dn, t, br, b2, ch)
    <3> DEFINE kids == Kids(ch, q)
    <3>1. Over(q, dn, rs, br, bk, ch) /\ q \in DOMAIN bk /\ q # c
      BY <1>6, <1>13 DEF Sound, Ended, Parented
    <3>2. b2[q] = bk[q] /\ IsFiniteSet(kids)
      BY <1>6, <1>7, <3>1
    <3>3. ExposureSum(kids, dn, br, b2) = ExposureSum(kids, dn, br, bk)
      <4>1. ASSUME NEW d \in SentOut(kids, dn, br) PROVE ExposureOf(d, br, b2) = ExposureOf(d, br, bk)
        <5>1. d \notin DOMAIN br => d # c /\ d \in DOMAIN bk
          BY <1>4 DEF SentOut, Sound, OnItsWay, Live
        <5> QED BY <1>7, <5>1 DEF ExposureOf
      <4>2. [d \in SentOut(kids, dn, br) |-> ExposureOf(d, br, b2)]
              = [d \in SentOut(kids, dn, br) |-> ExposureOf(d, br, bk)]
        BY <4>1
      <4> QED BY <4>2 DEF ExposureSum
    <3>4. ASSUME bk[q].order_state # "TraderError"
          PROVE  /\ bk[q].volume_traded = HandledOf(kids, t, br)
                 /\ \A d \in kids : NoMoreFills(d, dn, t, br)
      <4>1. bk[q].volume_traded = HandledOf(kids, rs, br) /\ \A d \in kids : NoMoreFills(d, dn, rs, br)
        BY <3>1, <3>4 DEF Over
      <4>2. c \in kids => v = 0 /\ Queued(t, c) = 0
        <5>1. SUFFICES ASSUME c \in kids PROVE v = 0 /\ Queued(t, c) = 0
          OBVIOUS
        <5>2. Queued(rs, c) = 0
          BY <4>1, <5>1 DEF NoMoreFills
        <5> QED BY <1>4, <5>2
      <4>3. HandledOf(kids, t, br) = HandledOf(kids, rs, br)
        <5>1. /\ HandledOf(kids, rs, br) \in Int
              /\ c \in kids => HandledOf(kids, t, br) = HandledOf(kids, rs, br) + v
              /\ c \notin kids => HandledOf(kids, t, br) = HandledOf(kids, rs, br)
          BY <1>3, <3>2
        <5> HIDE DEF kids
        <5> QED BY <4>2, <5>1
      <4>4. \A d \in kids : Queued(t, d) = 0
        <5>1. \A d \in kids : Queued(rs, d) = 0
          BY <4>1 DEF NoMoreFills
        <5> QED BY <1>4, <4>2, <5>1
      <4> QED BY <4>1, <4>3, <4>4 DEF NoMoreFills
    <3> QED BY <3>1, <3>2, <3>3, <3>4 DEF Over
  <2> QED BY <2>1 DEF Ended
<1>26. Sound(n, up, dn, t, b2, ch, ss2, br)
  BY <1>4, <1>5, <1>15, <1>16, <1>17, <1>18, <1>19, <1>20, <1>21, <1>22, <1>23, <1>24, <1>25 DEF Sound
<1> QED BY <1>26 DEF t

-----------------------------------------------------------------------------
(* Worlds: what a handler of the loop works on.                             *)

Worldly(n, k, dn, bk, ch, ss) ==
  [next_order_id |-> n, pool |-> k, downstream |-> dn, book |-> bk, children |-> ch, sessions |-> ss]

IsWorld(w) == w = Worldly(w.next_order_id, w.pool, w.downstream, w.book, w.children, w.sessions)

\* The fields of a world.
LEMMA WorldlyFacts ==
  ASSUME NEW n, NEW k, NEW dn, NEW bk, NEW ch, NEW ss, NEW w, w = Worldly(n, k, dn, bk, ch, ss)
  PROVE  /\ w.next_order_id = n /\ w.pool = k /\ w.downstream = dn /\ w.book = bk /\ w.children = ch
         /\ w.sessions = ss /\ IsWorld(w)
BY DEF Worldly, IsWorld

\* The fields of a fresh entry.
LEMMA EntryFacts ==
  ASSUME NEW type, NEW parent, NEW orig, NEW volume, NEW state, NEW state2
  PROVE  /\ [Entry(type, parent, orig, volume, state) EXCEPT !.order_state = state2]
              = Entry(type, parent, orig, volume, state2)
         /\ Entry(type, parent, orig, volume, state).parent_order_id = parent
         /\ Entry(type, parent, orig, volume, state).order_type = type
         /\ Entry(type, parent, orig, volume, state).order_state = state
         /\ Entry(type, parent, orig, volume, state).volume_entrust = volume
         /\ Entry(type, parent, orig, volume, state).volume_remain = volume
         /\ Entry(type, parent, orig, volume, state).volume_traded = 0
BY DEF Entry

\* What the router can make of an internal order of a parent p.
Sending(o, n, k, dn, bk, ch, ss, id, type, p, orig, volume) ==
  \/ ~ o.sent /\ o.world = Worldly(n, k, dn, bk, ch, ss)
  \/ ~ o.sent /\ k < PoolCapacity /\ o.world = Worldly(n, k + 1, dn, bk, ch, ss)
  \/ /\ ~ o.sent /\ k < PoolCapacity /\ Cardinality(DOMAIN bk) < BookCapacity
     /\ o.world = Worldly(n, k + 1, dn, Put(bk, id, Entry(type, p, orig, volume, "TraderError")),
                          Joined(ch, p, id), ss)
  \/ /\ o.sent /\ k < PoolCapacity /\ Cardinality(DOMAIN bk) < BookCapacity
     /\ Len(dn) < DownstreamBound
     /\ o.world = Worldly(n, k + 1, Append(dn, id),
                          Put(bk, id, Entry(type, p, orig, volume, "TraderSubmitted")),
                          Joined(ch, p, id), ss)

\* The three ends of submit_internal_order: no room, no slot or no queue, sent.
LEMMA SendChild ==
  ASSUME NEW n, NEW k, NEW dn, NEW bk, NEW ch, NEW ss, NEW w, w = Worldly(n, k, dn, bk, ch, ss),
         k \in Nat, dn \in Seq(Nat), IsFiniteSet(DOMAIN bk),
         NEW id, NEW type, NEW p, p # NoOne, NEW orig, NEW volume,
         NEW o, o = SendInternal(w, id, Entry(type, p, orig, volume, "TraderPending"))
  PROVE  Sending(o, n, k, dn, bk, ch, ss, id, type, p, orig, volume)
<1> DEFINE e == Entry(type, p, orig, volume, "TraderPending")
           slotted == [w EXCEPT !.pool = w.pool + 1]
           added == AddOrder(slotted, id, e)
<1>1. /\ w.next_order_id = n /\ w.pool = k /\ w.downstream = dn /\ w.book = bk /\ w.children = ch /\ w.sessions = ss
  BY WorldlyFacts
<1>2. slotted = Worldly(n, k + 1, dn, bk, ch, ss)
  BY <1>1 DEF Worldly
<1>3. e.parent_order_id = p /\ \A state : [e EXCEPT !.order_state = state] = Entry(type, p, orig, volume, state)
  BY EntryFacts
<1> HIDE DEF e, slotted
<1>4. /\ slotted.book = bk /\ slotted.children = ch
  BY <1>2, WorldlyFacts
<1>5. added = Worldly(n, k + 1, dn, Put(bk, id, e), Joined(ch, p, id), ss)
  <2>1. ChildrenOf(slotted, p) = Sent(ch, p)
    BY <1>4 DEF ChildrenOf, Sent
  <2>2. added = [slotted EXCEPT !.book = Put(bk, id, e), !.children = Joined(ch, p, id)]
    BY <1>3, <1>4, <2>1 DEF AddOrder, Joined
  <2> HIDE DEF added
  <2> QED BY <1>2, <2>2 DEF Worldly
<1> HIDE DEF added
<1>6. added.book = Put(bk, id, e) /\ added.book[id] = e
  <2>1. added.book = Put(bk, id, e)
    BY <1>5, WorldlyFacts
  <2>2. Put(bk, id, e)[id] = e
    BY DEF Put
  <2> QED BY <2>1, <2>2
<1>7. ASSUME NEW state
      PROVE  [added EXCEPT !.book[id].order_state = state]
               = Worldly(n, k + 1, dn, Put(bk, id, Entry(type, p, orig, volume, state)), Joined(ch, p, id), ss)
  <2> DEFINE b == Put(bk, id, e)
             f == Entry(type, p, orig, volume, state)
             b2 == Put(bk, id, f)
             c2 == Joined(ch, p, id)
             k2 == k + 1
  <2>1. [e EXCEPT !.order_state = state] = f
    BY <1>3
  <2>2. [b EXCEPT ![id] = f] = b2
    BY DEF Put
  <2>3. added = Worldly(n, k2, dn, b, c2, ss) /\ b[id] = e
    BY <1>5, <1>6
  <2> HIDE DEF b, b2, f, c2, k2
  <2>4. [added EXCEPT !.book[id].order_state = state]
          = [added EXCEPT !.book = [b EXCEPT ![id] = [e EXCEPT !.order_state = state]]]
    BY ONLY <2>3 DEF Worldly
  <2>5. [added EXCEPT !.book[id].order_state = state] = [added EXCEPT !.book = b2]
    BY ONLY <2>1, <2>2, <2>4
  <2>6. [added EXCEPT !.book = b2] = Worldly(n, k2, dn, b2, c2, ss)
    BY ONLY <2>3 DEF Worldly
  <2> QED BY ONLY <2>5, <2>6 DEF b2, f, c2, k2
<1>8. [added EXCEPT !.downstream = Append(w.downstream, id), !.book[id].order_state = "TraderSubmitted"]
        = Worldly(n, k + 1, Append(dn, id), Put(bk, id, Entry(type, p, orig, volume, "TraderSubmitted")),
                  Joined(ch, p, id), ss)
  <2> DEFINE d2 == Append(dn, id)
             y == [added EXCEPT !.book[id].order_state = "TraderSubmitted"]
             b2 == Put(bk, id, Entry(type, p, orig, volume, "TraderSubmitted"))
             c2 == Joined(ch, p, id)
             k2 == k + 1
  <2>1. y = Worldly(n, k2, dn, b2, c2, ss)
    BY <1>7
  <2>2. [added EXCEPT !.downstream = Append(w.downstream, id), !.book[id].order_state = "TraderSubmitted"]
          = [y EXCEPT !.downstream = d2]
    BY <1>1, <1>5 DEF Worldly
  <2> HIDE DEF y, d2, b2, c2, k2
  <2>3. [y EXCEPT !.downstream = d2] = Worldly(n, k2, d2, b2, c2, ss)
    BY ONLY <2>1 DEF Worldly
  <2> QED BY ONLY <2>2, <2>3 DEF d2, b2, c2, k2
<1>9. /\ k \in Nat /\ PoolCapacity \in Nat /\ Len(dn) \in Nat /\ DownstreamBound \in Nat
  BY LimitsAssumption
<1>10. CASE w.pool >= PoolCapacity
  <2>1. o = [world |-> w, sent |-> FALSE]
    BY <1>10 DEF SendInternal
  <2> QED BY <2>1 DEF Sending
<1>11. CASE ~ (w.pool >= PoolCapacity) /\ ~ CanAdd(w, id)
  <2>1. o = [world |-> slotted, sent |-> FALSE]
    BY <1>11 DEF SendInternal, slotted
  <2>2. k < PoolCapacity
    BY <1>1, <1>9, <1>11
  <2> QED BY <1>2, <2>1, <2>2 DEF Sending
<1>12. CASE ~ (w.pool >= PoolCapacity) /\ CanAdd(w, id) /\ Len(w.downstream) >= DownstreamBound
  <2>1. o = [world |-> [added EXCEPT !.book[id].order_state = "TraderError"], sent |-> FALSE]
    BY <1>12 DEF SendInternal, added, slotted, e
  <2>2. k < PoolCapacity /\ Cardinality(DOMAIN bk) < BookCapacity
    BY <1>1, <1>9, <1>12 DEF CanAdd
  <2>3. o.world = [added EXCEPT !.book[id].order_state = "TraderError"] /\ ~ o.sent
    BY <2>1
  <2> QED BY <1>7, <2>2, <2>3 DEF Sending
<1>13. CASE ~ (w.pool >= PoolCapacity) /\ CanAdd(w, id) /\ ~ (Len(w.downstream) >= DownstreamBound)
  <2>1. o = [world |-> [added EXCEPT !.downstream = Append(w.downstream, id),
                                     !.book[id].order_state = "TraderSubmitted"], sent |-> TRUE]
    BY <1>13 DEF SendInternal, added, slotted, e
  <2>2. k < PoolCapacity /\ Cardinality(DOMAIN bk) < BookCapacity /\ Len(dn) < DownstreamBound
    BY <1>1, <1>9, <1>13 DEF CanAdd
  <2>3. /\ o.world = [added EXCEPT !.downstream = Append(w.downstream, id),
                                   !.book[id].order_state = "TraderSubmitted"]
        /\ o.sent
    BY <2>1
  <2> QED BY <1>8, <2>2, <2>3 DEF Sending
<1> QED BY <1>10, <1>11, <1>12, <1>13

\* What the world of a handler may be after it has tried to send a child of p: n, k, dn, bk, ch and ss
\* are the world before.
Outcome(w, t, n, k, dn, bk, ch, ss, up, rs, br, p) ==
  \E k2, dn2, bk2, ch2 :
    /\ w = Worldly(n + 1, k2, dn2, bk2, ch2, [ss EXCEPT ![p] = t])
    /\ k2 \in 0 .. PoolCapacity
    /\ Sound(n + 1, up, dn2, rs, bk2, ch2, [ss EXCEPT ![p] = t], br)
    /\ DOMAIN bk \subseteq DOMAIN bk2
    /\ \A q \in DOMAIN bk : bk2[q] = bk[q]

FailedSession(s) == [s EXCEPT !.failed = TRUE, !.terminal = TRUE]

\* The entries the book has keep their place when another one joins them.
LEMMA PutKeeps ==
  ASSUME NEW f, NEW n, n \notin DOMAIN f, NEW e
  PROVE  DOMAIN f \subseteq DOMAIN Put(f, n, e) /\ \A q \in DOMAIN f : Put(f, n, e)[q] = f[q]
BY DEF Put

\* The session's fields after submit_child has sent, and after it has failed.
SentIn(w, p, x, y) == [w EXCEPT !.sessions[p].ledgers = x, !.sessions[p].slice_consumed = y]

WithLedgers(s, x, y) == [s EXCEPT !.ledgers = x, !.slice_consumed = y]

FailedIn(w, p) == [w EXCEPT !.sessions[p].failed = TRUE, !.sessions[p].terminal = TRUE]

\* The world in which a session has sent a child.
LEMMA SentWorld ==
  ASSUME NEW n, NEW k, NEW dn, NEW bk, NEW ch, NEW ss, NEW p \in DOMAIN ss, NEW w, w = Worldly(n, k, dn, bk, ch, ss),
         ss = [q \in DOMAIN ss |-> ss[q]], ss[p] \in Session, NEW x, NEW y
  PROVE  SentIn(w, p, x, y)
           = Worldly(n, k, dn, bk, ch, [ss EXCEPT ![p] = WithLedgers(ss[p], x, y)])
<1> DEFINE t1 == [ss EXCEPT ![p] = [ss[p] EXCEPT !.ledgers = x, !.slice_consumed = y]]
<1>1. [ss EXCEPT ![p].ledgers = x, ![p].slice_consumed = y] = t1
  BY DEF Session
<1>2. [w EXCEPT !.sessions[p].ledgers = x, !.sessions[p].slice_consumed = y]
        = [w EXCEPT !.sessions = [ss EXCEPT ![p].ledgers = x, ![p].slice_consumed = y]]
  BY DEF Worldly
<1> HIDE DEF t1
<1>3. [w EXCEPT !.sessions = t1] = Worldly(n, k, dn, bk, ch, t1)
  BY DEF Worldly
<1> QED BY ONLY <1>1, <1>2, <1>3 DEF t1, SentIn, WithLedgers

\* The world in which a session has failed.
LEMMA FailedWorld ==
  ASSUME NEW n, NEW k, NEW dn, NEW bk, NEW ch, NEW ss, NEW p \in DOMAIN ss, NEW w, w = Worldly(n, k, dn, bk, ch, ss),
         ss = [q \in DOMAIN ss |-> ss[q]], ss[p] \in Session
  PROVE  FailedIn(w, p)
           = Worldly(n, k, dn, bk, ch, [ss EXCEPT ![p] = FailedSession(ss[p])])
<1> DEFINE t2 == [ss EXCEPT ![p] = FailedSession(ss[p])]
<1>1. [ss EXCEPT ![p].failed = TRUE, ![p].terminal = TRUE] = t2
  BY DEF Session, FailedSession
<1>2. [w EXCEPT !.sessions[p].failed = TRUE, !.sessions[p].terminal = TRUE]
        = [w EXCEPT !.sessions = [ss EXCEPT ![p].failed = TRUE, ![p].terminal = TRUE]]
  BY DEF Worldly
<1> HIDE DEF t2
<1>3. [w EXCEPT !.sessions = t2] = Worldly(n, k, dn, bk, ch, t2)
  BY DEF Worldly
<1> QED BY ONLY <1>1, <1>2, <1>3 DEF t2, FailedIn

\* A session that fails.
LEMMA SessionFails ==
  ASSUME NEW n, NEW up, NEW dn, NEW rs, NEW bk, NEW ch, NEW ss, NEW br,
         Sound(n, up, dn, rs, bk, ch, ss, br), NEW p \in DOMAIN ss
  PROVE  Sound(n, up, dn, rs, bk, ch, [ss EXCEPT ![p] = FailedSession(ss[p])], br)
<1> DEFINE s == ss[p]
           t == [s EXCEPT !.failed = TRUE, !.terminal = TRUE]
<1>1. s \in Session /\ Balanced(s) /\ Schedule(s)
  BY SoundSession
<1>2. t \in Session /\ Schedule(t) /\ t.ledgers = s.ledgers /\ t.target = s.target
  <2> HIDE DEF s
  <2> QED BY <1>1, EndedSession
<1>3. FailedSession(ss[p]) = t
  BY DEF FailedSession
<1> HIDE DEF t
<1>4. Sound(n, up, dn, rs, bk, ch, [ss EXCEPT ![p] = t], br)
  BY <1>2, SessionChanged
<1> QED BY <1>3, <1>4

\* send_internal says whether it has sent.
LEMMA SendIsDecided ==
  ASSUME NEW w, NEW id, NEW e
  PROVE  SendInternal(w, id, e).sent \in BOOLEAN
<1> DEFINE slotted == [w EXCEPT !.pool = w.pool + 1]
           added == AddOrder(slotted, id, e)
           pushed == [added EXCEPT !.downstream = Append(w.downstream, id),
                                   !.book[id].order_state = "TraderSubmitted"]
           errored == [added EXCEPT !.book[id].order_state = "TraderError"]
           r == SendInternal(w, id, e)
<1>1. r = IF w.pool >= PoolCapacity THEN [world |-> w, sent |-> FALSE]
          ELSE IF ~ CanAdd(w, id) THEN [world |-> slotted, sent |-> FALSE]
          ELSE IF Len(w.downstream) >= DownstreamBound THEN [world |-> errored, sent |-> FALSE]
          ELSE [world |-> pushed, sent |-> TRUE]
  BY DEF SendInternal
<1> HIDE DEF slotted, added, pushed, errored, r
<1>2. r.sent = TRUE \/ r.sent = FALSE
  BY ONLY <1>1
<1>3. r.sent \in BOOLEAN
  BY ONLY <1>2
<1> QED BY <1>3 DEF r
\* submit_child: a child is sent and the session's ledger has it, or the session has failed.
LEMMA ChildSubmitted ==
  ASSUME NEW n, NEW up, NEW dn, NEW rs, NEW bk, NEW ch, NEW ss, NEW br,
         Sound(n, up, dn, rs, bk, ch, ss, br), NEW p \in DOMAIN ss, NEW k \in 0 .. PoolCapacity,
         WorkingVolume(ss[p]) = 0, ss[p].algo = "TWAP" => ~ ss[p].slice_consumed,
         ss[p].terminal => ss[p].failed, NEW volume, Takes(ss[p], volume),
         NEW w, w = Worldly(n, k, dn, bk, ch, ss), NEW o, o = SubmitChild(w, p, volume)
  PROVE  /\ o.sent \in BOOLEAN
         /\ Outcome(o.world, IF o.sent THEN SentSession(ss[p], n, volume) ELSE FailedSession(ss[p]),
                    n, k, dn, bk, ch, ss, up, rs, br, p)
<1> DEFINE s == ss[p]
           w1 == [w EXCEPT !.next_order_id = n + 1]
           i == SendInternal(w1, n, Entry("New", p, NoOne, volume, "TraderPending"))
           ledger == [entrust |-> volume, traded |-> 0, cancelled |-> 0, finalized |-> FALSE,
                      state |-> "TraderSubmitted"]
<1>1. /\ w.next_order_id = n /\ w.sessions = ss
  BY WorldlyFacts
<1>2. w1 = Worldly(n + 1, k, dn, bk, ch, ss)
  BY <1>1 DEF Worldly
<1>3. o = [sent |-> i.sent,
           world |-> IF i.sent
                     THEN [i.world EXCEPT !.sessions[p].ledgers = Put(s.ledgers, n, ledger),
                                          !.sessions[p].slice_consumed = (s.algo = "TWAP")]
                     ELSE [i.world EXCEPT !.sessions[p].failed = TRUE, !.sessions[p].terminal = TRUE]]
  BY <1>1 DEF SubmitChild
<1>4. o.sent = i.sent /\ i.sent \in BOOLEAN
  <2>1. i.sent \in BOOLEAN
    BY SendIsDecided
  <2> HIDE DEF i
  <2>2. o.sent = i.sent
    BY ONLY <1>3
  <2> QED BY <2>1, <2>2
<1>5. /\ s \in Session /\ Balanced(s) /\ Schedule(s) /\ p \in DOMAIN bk /\ ss = [q \in DOMAIN ss |-> ss[q]]
  BY SoundSession, TableFacts DEF Sound, Typed
<1>6. /\ n \notin DOMAIN bk /\ n \in Nat \ {0}
      /\ dn \in Seq(Nat) /\ IsFiniteSet(DOMAIN bk) /\ p \in Nat \ {0} /\ k \in Nat /\ k \in 0 .. PoolCapacity
  <2>1. n \in Nat \ {0} /\ n \notin DOMAIN bk /\ dn \in Seq(Nat) /\ DOMAIN bk \subseteq Issued(n)
    BY NobodyKnows DEF Sound, Typed, Parented
  <2>2. IsFiniteSet(DOMAIN bk) /\ Issued(n) \subseteq Nat \ {0}
    BY <2>1, IssuedFacts, FS_Subset
  <2> QED BY <1>5, <2>1, <2>2, LimitsAssumption
<1>7. volume \in Nat \ {0}
  <2> HIDE DEF s
  <2> QED BY <1>5, BudgetFacts DEF s
<1>8. /\ Sound(n + 1, up, dn, rs, bk, ch, ss, br)
      /\ Sound(n + 1, up, dn, rs, bk, ch, [ss EXCEPT ![p] = FailedSession(s)], br)
  BY IdTaken, SessionFails
<1>9. k < PoolCapacity => k + 1 \in 0 .. PoolCapacity
  BY <1>6, LimitsAssumption
<1> HIDE DEF w1, i, s, ledger
<1>10. \/ ~ i.sent /\ i.world = Worldly(n + 1, k, dn, bk, ch, ss)
       \/ ~ i.sent /\ k < PoolCapacity /\ i.world = Worldly(n + 1, k + 1, dn, bk, ch, ss)
       \/ /\ ~ i.sent /\ k < PoolCapacity /\ Cardinality(DOMAIN bk) < BookCapacity
          /\ i.world = Worldly(n + 1, k + 1, dn, Put(bk, n, Entry("New", p, NoOne, volume, "TraderError")),
                               Joined(ch, p, n), ss)
       \/ /\ i.sent /\ k < PoolCapacity /\ Cardinality(DOMAIN bk) < BookCapacity
          /\ Len(dn) < DownstreamBound
          /\ i.world = Worldly(n + 1, k + 1, Append(dn, n),
                               Put(bk, n, Entry("New", p, NoOne, volume, "TraderSubmitted")),
                               Joined(ch, p, n), ss)
  <2>1. p # NoOne
    BY <1>6 DEF NoOne
  <2>2. i = SendInternal(w1, n, Entry("New", p, NoOne, volume, "TraderPending"))
    BY DEF i
  <2>3. k \in Nat /\ dn \in Seq(Nat) /\ IsFiniteSet(DOMAIN bk)
    BY <1>6
  <2>4. Sending(i, n + 1, k, dn, bk, ch, ss, n, "New", p, NoOne, volume)
    BY ONLY <1>2, <2>1, <2>2, <2>3, SendChild
  <2> QED BY ONLY <2>4 DEF Sending
<1>11. ASSUME NEW k2, NEW dn2, NEW bk2, NEW ch2, k2 \in 0 .. PoolCapacity, ~ i.sent,
              i.world = Worldly(n + 1, k2, dn2, bk2, ch2, ss),
              Sound(n + 1, up, dn2, rs, bk2, ch2, ss, br),
              DOMAIN bk \subseteq DOMAIN bk2, \A q \in DOMAIN bk : bk2[q] = bk[q]
       PROVE  Outcome(o.world, FailedSession(s), n, k, dn, bk, ch, ss, up, rs, br, p)
  <2>1. o.world = [i.world EXCEPT !.sessions[p].failed = TRUE, !.sessions[p].terminal = TRUE]
    BY <1>3, <1>11
  <2>2. ss = [q \in DOMAIN ss |-> ss[q]] /\ ss[p] \in Session
    BY <1>5 DEF s
  <2>3. o.world = Worldly(n + 1, k2, dn2, bk2, ch2, [ss EXCEPT ![p] = FailedSession(s)])
    <3> DEFINE iw == i.world
               m == n + 1
    <3>1. iw = Worldly(m, k2, dn2, bk2, ch2, ss) /\ p \in DOMAIN ss
      BY <1>11
    <3> HIDE DEF iw, m
    <3>2. FailedIn(iw, p)
            = Worldly(m, k2, dn2, bk2, ch2, [ss EXCEPT ![p] = FailedSession(ss[p])])
      BY ONLY <3>1, <2>2, FailedWorld
    <3> QED BY ONLY <2>1, <3>2 DEF iw, m, s, FailedIn
  <2>4. Sound(n + 1, up, dn2, rs, bk2, ch2, [ss EXCEPT ![p] = FailedSession(s)], br)
    BY <1>11, SessionFails DEF s
  <2> QED BY ONLY <1>11, <2>3, <2>4 DEF Outcome
<1>12. CASE ~ i.sent /\ i.world = Worldly(n + 1, k, dn, bk, ch, ss)
  <2>1. Outcome(o.world, FailedSession(s), n, k, dn, bk, ch, ss, up, rs, br, p)
    BY <1>6, <1>8, <1>11, <1>12
  <2> QED BY <1>4, <1>12, <2>1 DEF s
<1>13. CASE ~ i.sent /\ k < PoolCapacity /\ i.world = Worldly(n + 1, k + 1, dn, bk, ch, ss)
  <2>1. Outcome(o.world, FailedSession(s), n, k, dn, bk, ch, ss, up, rs, br, p)
    BY <1>8, <1>9, <1>11, <1>13
  <2> QED BY <1>4, <1>13, <2>1 DEF s
<1>14. CASE /\ ~ i.sent /\ k < PoolCapacity /\ Cardinality(DOMAIN bk) < BookCapacity
            /\ i.world = Worldly(n + 1, k + 1, dn, Put(bk, n, Entry("New", p, NoOne, volume, "TraderError")),
                                 Joined(ch, p, n), ss)
  <2> DEFINE e == Entry("New", p, NoOne, volume, "TraderError")
  <2>1. e \in BookEntry
    BY <1>6, <1>7 DEF Entry, BookEntry, OrderType, OrderState, NoOne
  <2>2. /\ e.order_type = "New" /\ e.volume_entrust # 0 /\ e.volume_remain = e.volume_entrust
        /\ e.order_state \in TerminalState
    BY <1>7 DEF Entry, TerminalState
  <2> HIDE DEF e
  <2>3. Sound(n + 1, up, dn, rs, Put(bk, n, e), Joined(ch, p, n), ss, br)
    BY <1>14, <2>1, <2>2, DeadChild
  <2>4. DOMAIN bk \subseteq DOMAIN Put(bk, n, e) /\ \A q \in DOMAIN bk : Put(bk, n, e)[q] = bk[q]
    BY <1>6, PutKeeps
  <2>5. i.world = Worldly(n + 1, k + 1, dn, Put(bk, n, e), Joined(ch, p, n), ss)
    BY <1>14 DEF e
  <2>6. Outcome(o.world, FailedSession(s), n, k, dn, bk, ch, ss, up, rs, br, p)
    BY ONLY <1>9, <1>11, <1>14, <2>3, <2>4, <2>5
  <2> QED BY <1>4, <1>14, <2>6 DEF s
<1>15. CASE /\ i.sent /\ k < PoolCapacity /\ Cardinality(DOMAIN bk) < BookCapacity
            /\ Len(dn) < DownstreamBound
            /\ i.world = Worldly(n + 1, k + 1, Append(dn, n),
                                 Put(bk, n, Entry("New", p, NoOne, volume, "TraderSubmitted")),
                                 Joined(ch, p, n), ss)
  <2> DEFINE e == Entry("New", p, NoOne, volume, "TraderSubmitted")
             bk2 == Put(bk, n, e)
             dn2 == Append(dn, n)
             ch2 == Joined(ch, p, n)
             ss2 == [ss EXCEPT ![p] = SentSession(ss[p], n, volume)]
  <2>1. e \in BookEntry
    BY <1>6, <1>7 DEF Entry, BookEntry, OrderType, OrderState, NoOne
  <2>2. /\ e.order_type = "New" /\ e.volume_entrust = volume /\ e.volume_remain = e.volume_entrust
        /\ e.order_state = "TraderSubmitted"
    BY DEF Entry, s
  <2> HIDE DEF e
  <2>3. Sound(n + 1, up, dn2, rs, bk2, ch2, ss2, br)
    BY <1>15, <2>1, <2>2, SentChild
  <2>4. DOMAIN bk \subseteq DOMAIN bk2 /\ \A q \in DOMAIN bk : bk2[q] = bk[q]
    BY <1>6, PutKeeps
  <2>5. i.world = Worldly(n + 1, k + 1, dn2, bk2, ch2, ss)
    BY <1>15 DEF e
  <2>6. o.world = [i.world EXCEPT !.sessions[p].ledgers = Put(s.ledgers, n, ledger),
                                  !.sessions[p].slice_consumed = (s.algo = "TWAP")]
    BY <1>3, <1>15
  <2>7. SentSession(ss[p], n, volume) = [ss[p] EXCEPT !.ledgers = Put(s.ledgers, n, ledger), !.slice_consumed = (s.algo = "TWAP")]
    BY DEF SentSession, s, ledger
  <2>8. ss = [q \in DOMAIN ss |-> ss[q]] /\ ss[p] \in Session
    BY <1>5 DEF s
  <2> HIDE DEF bk2, dn2, ch2
  <2>9. o.world = Worldly(n + 1, k + 1, dn2, bk2, ch2, ss2)
    <3> DEFINE iw == i.world
               m == n + 1
               k2 == k + 1
               x == Put(s.ledgers, n, ledger)
               y == (s.algo = "TWAP")
    <3>1. iw = Worldly(m, k2, dn2, bk2, ch2, ss) /\ p \in DOMAIN ss
      BY <2>5
    <3> HIDE DEF iw, m, k2, x, y
    <3>2. SentIn(iw, p, x, y)
            = Worldly(m, k2, dn2, bk2, ch2, [ss EXCEPT ![p] = WithLedgers(ss[p], x, y)])
      BY ONLY <3>1, <2>8, SentWorld
    <3> QED BY ONLY <2>6, <2>7, <3>2 DEF iw, m, k2, x, y, SentIn, WithLedgers
  <2>10. Outcome(o.world, SentSession(ss[p], n, volume), n, k, dn, bk, ch, ss, up, rs, br, p)
    BY ONLY <1>9, <1>15, <2>3, <2>4, <2>9 DEF Outcome
  <2> QED BY <1>4, <1>15, <2>10
<1> QED BY <1>10, <1>12, <1>13, <1>14, <1>15

-----------------------------------------------------------------------------
(* Cancels.  The router gives the first live child the id of the client's   *)
(* cancel, which the book has already: nothing is ever sent.                *)

Alive(bk, c) == c \in DOMAIN bk /\ bk[c].order_type = "New" /\ bk[c].order_state \notin TerminalState

\* An internal order with an id the book knows.
LEMMA KnownIdRefused ==
  ASSUME NEW n, NEW k, k \in 0 .. PoolCapacity, NEW dn, NEW bk, NEW ch, NEW ss, NEW w, w = Worldly(n, k, dn, bk, ch, ss),
         NEW id, id \in DOMAIN bk, NEW e
  PROVE  \E k2 \in 0 .. PoolCapacity :
           SendInternal(w, id, e) = [world |-> Worldly(n, k2, dn, bk, ch, ss), sent |-> FALSE]
<1>1. w.pool = k /\ w.book = bk
  BY DEF Worldly
<1>2. PoolCapacity \in Nat /\ k \in Nat
  BY LimitsAssumption
<1>3. CASE k >= PoolCapacity
  BY <1>1, <1>3 DEF SendInternal
<1>4. CASE k < PoolCapacity
  <2>1. SendInternal(w, id, e) = [world |-> [w EXCEPT !.pool = k + 1], sent |-> FALSE]
    BY <1>1, <1>2, <1>4 DEF SendInternal, CanAdd
  <2>2. [w EXCEPT !.pool = k + 1] = Worldly(n, k + 1, dn, bk, ch, ss)
    BY DEF Worldly
  <2>3. k + 1 \in 0 .. PoolCapacity
    BY <1>2, <1>4
  <2> QED BY <2>1, <2>2, <2>3
<1> QED BY <1>2, <1>3, <1>4

\* The state of the fan-out before and after the live child.
Fan(w, used) == [world |-> w, used |-> used, sent |-> FALSE, failed |-> used]

\* What the loop body makes of a child: v is the world after the live one.
FanRule(w, v, bk, orig, cancel) ==
  \A c : /\ Alive(bk, c) => CancelChild(Fan(w, FALSE), orig, cancel, c) = Fan(v, TRUE)
         /\ ~ Alive(bk, c) => /\ CancelChild(Fan(w, FALSE), orig, cancel, c) = Fan(w, FALSE)
                              /\ CancelChild(Fan(v, TRUE), orig, cancel, c) = Fan(v, TRUE)

\* One child of the fan-out: a child that is over is passed over, a live one is refused.
LEMMA FanStep ==
  ASSUME NEW n, NEW k, k \in 0 .. PoolCapacity, NEW dn, NEW bk, NEW ch, NEW ss, NEW w, w = Worldly(n, k, dn, bk, ch, ss),
         NEW cancel, cancel \in DOMAIN bk, NEW orig
  PROVE  \E k2 \in 0 .. PoolCapacity : FanRule(w, Worldly(n, k2, dn, bk, ch, ss), bk, orig, cancel)
<1>1. w.book = bk
  BY DEF Worldly
<1>2. CASE k >= PoolCapacity
  <2>1. ASSUME NEW c PROVE SendInternal(w, cancel, Entry("Cancel", orig, c, 0, "TraderPending"))
                             = [world |-> w, sent |-> FALSE]
    BY <1>2 DEF SendInternal, Worldly
  <2>2. ASSUME NEW c, Alive(bk, c)
        PROVE  CancelChild(Fan(w, FALSE), orig, cancel, c) = Fan(w, TRUE)
    <3> DEFINE f == Fan(w, FALSE)
               i == SendInternal(w, cancel, Entry("Cancel", orig, c, 0, "TraderPending"))
    <3>1. f.world = w /\ f.used = FALSE /\ f.sent = FALSE /\ f.failed = FALSE
      BY DEF Fan
    <3>2. i = [world |-> w, sent |-> FALSE]
      BY <2>1
    <3> HIDE DEF f, i
    <3>3. CancelChild(f, orig, cancel, c)
            = [world |-> i.world, used |-> TRUE, sent |-> FALSE \/ i.sent, failed |-> FALSE \/ ~ i.sent]
      BY <1>1, <3>1, <2>2 DEF CancelChild, Alive, i
    <3>4. CancelChild(f, orig, cancel, c) = [world |-> w, used |-> TRUE, sent |-> FALSE, failed |-> TRUE]
      BY <3>2, <3>3
    <3> QED BY <3>4 DEF Fan, f
  <2>3. ASSUME NEW c, ~ Alive(bk, c)
        PROVE  /\ CancelChild(Fan(w, FALSE), orig, cancel, c) = Fan(w, FALSE)
               /\ CancelChild(Fan(w, TRUE), orig, cancel, c) = Fan(w, TRUE)
    BY <1>1, <2>3 DEF CancelChild, Fan, Alive
  <2> QED BY <2>2, <2>3 DEF FanRule
<1>3. CASE ~ (k >= PoolCapacity)
  <2> DEFINE v == Worldly(n, k + 1, dn, bk, ch, ss)
  <2>1. ASSUME NEW c PROVE SendInternal(w, cancel, Entry("Cancel", orig, c, 0, "TraderPending"))
                             = [world |-> v, sent |-> FALSE]
    <3>1. w.pool = k /\ ~ CanAdd(w, cancel)
      BY <1>1 DEF Worldly, CanAdd
    <3>2. [w EXCEPT !.pool = k + 1] = v
      BY DEF Worldly
    <3> QED BY <1>3, <3>1, <3>2 DEF SendInternal
  <2>2. v.book = bk
    BY DEF Worldly
  <2>3. k + 1 \in 0 .. PoolCapacity
    BY <1>3, LimitsAssumption
  <2> HIDE DEF v
  <2>4. ASSUME NEW c, Alive(bk, c)
        PROVE  CancelChild(Fan(w, FALSE), orig, cancel, c) = Fan(v, TRUE)
    <3> DEFINE f == Fan(w, FALSE)
               i == SendInternal(w, cancel, Entry("Cancel", orig, c, 0, "TraderPending"))
    <3>1. f.world = w /\ f.used = FALSE /\ f.sent = FALSE /\ f.failed = FALSE
      BY DEF Fan
    <3>2. i = [world |-> v, sent |-> FALSE]
      BY <2>1
    <3> HIDE DEF f, i
    <3>3. CancelChild(f, orig, cancel, c)
            = [world |-> i.world, used |-> TRUE, sent |-> FALSE \/ i.sent, failed |-> FALSE \/ ~ i.sent]
      BY <1>1, <3>1, <2>4 DEF CancelChild, Alive, i
    <3>4. CancelChild(f, orig, cancel, c) = [world |-> v, used |-> TRUE, sent |-> FALSE, failed |-> TRUE]
      BY <3>2, <3>3
    <3> QED BY <3>4 DEF Fan, f
  <2>5. ASSUME NEW c, ~ Alive(bk, c)
        PROVE  /\ CancelChild(Fan(w, FALSE), orig, cancel, c) = Fan(w, FALSE)
               /\ CancelChild(Fan(v, TRUE), orig, cancel, c) = Fan(v, TRUE)
    BY <1>1, <2>2, <2>5 DEF CancelChild, Fan, Alive
  <2>6. FanRule(w, v, bk, orig, cancel)
    BY <2>4, <2>5 DEF FanRule
  <2> QED BY <2>3, <2>6 DEF v
<1> QED BY <1>2, <1>3

\* Where two functions of 0 .. m follow the same steps, they agree.
LEMMA SameSteps ==
  ASSUME NEW L \in Nat, NEW f, NEW g, f[0] = g[0],
         \A m \in 1 .. L : f[m - 1] = g[m - 1] => f[m] = g[m]
  PROVE  f[L] = g[L]
<1> DEFINE bad == {s \in SUBSET (1 .. L) : \E m \in 0 .. L : s = 1 .. m /\ f[m] # g[m]}
<1> SUFFICES ASSUME f[L] # g[L] PROVE FALSE
  OBVIOUS
<1>1. 1 .. L \in bad
  OBVIOUS
<1>2. bad \subseteq SUBSET (1 .. L) /\ bad # {} /\ IsFiniteSet(1 .. L)
  <2>1. IsFiniteSet(1 .. L)
    BY FS_Interval
  <2> QED BY <1>1, <2>1
<1>3. PICK s \in bad : \A u \in bad : u \subseteq s => u = s
  <2> DEFINE I == 1 .. L
  <2>1. bad \subseteq SUBSET I /\ bad # {} /\ IsFiniteSet(I)
    BY <1>2
  <2> HIDE DEF bad, I
  <2> QED BY <2>1, MinimalSubset
<1>4. PICK m \in 0 .. L : s = 1 .. m /\ f[m] # g[m]
  BY <1>3
<1>5. m \in 1 .. L /\ m - 1 \in 0 .. L /\ f[m - 1] # g[m - 1]
  BY <1>4
<1>6. 1 .. (m - 1) \in bad
  BY <1>5
<1>7. 1 .. (m - 1) \subseteq 1 .. m /\ 1 .. (m - 1) # 1 .. m
  <2>1. m \in 1 .. m /\ m \notin 1 .. (m - 1)
    BY <1>5
  <2> QED BY <1>5, <2>1
<1> HIDE DEF bad
<1> QED BY <1>3, <1>4, <1>6, <1>7

\* The world after a cancel has been routed.
Routed(o, n, dn, bk, ch, ss, orig) ==
  \E k2 \in 0 .. PoolCapacity :
    \/ o = [world |-> Worldly(n, k2, dn, bk, ch, ss), sent |-> FALSE]
    \/ /\ orig \in DOMAIN ch /\ orig \in DOMAIN bk
       /\ o = [world |-> Worldly(n, k2, dn, [bk EXCEPT ![orig].order_state = "TraderError"], ch, ss), sent |-> FALSE]

\* A routed cancel changes the pool and at most the order's own state.
LEMMA CancelRouted ==
  ASSUME NEW n, NEW k, k \in 0 .. PoolCapacity, NEW dn, NEW bk, NEW ch, NEW ss, NEW w, w = Worldly(n, k, dn, bk, ch, ss),
         NEW cancel, cancel \in DOMAIN bk, NEW orig, NEW kids, kids = Sent(ch, orig), Len(kids) \in Nat,
         \A i, j \in 1 .. Len(kids) : Alive(bk, kids[i]) /\ Alive(bk, kids[j]) => i = j
  PROVE  Routed(RouteCancel(w, orig, cancel), n, dn, bk, ch, ss, orig)
<1>1. w.book = bk /\ ChildrenOf(w, orig) = kids
  BY DEF Worldly, ChildrenOf, Sent
<1>2. CASE kids = <<>>
  <2>1. RouteCancel(w, orig, cancel) = SendInternal(w, cancel, Entry("Cancel", NoOne, orig, 0, "TraderPending"))
    BY <1>1, <1>2 DEF RouteCancel
  <2> DEFINE e == Entry("Cancel", NoOne, orig, 0, "TraderPending")
  <2> HIDE DEF e
  <2>2. \E k2 \in 0 .. PoolCapacity :
           SendInternal(w, cancel, e) = [world |-> Worldly(n, k2, dn, bk, ch, ss), sent |-> FALSE]
    BY KnownIdRefused
  <2> QED BY <2>1, <2>2 DEF Routed, e
<1>3. CASE kids # <<>>
  <2>1. PICK k2 \in 0 .. PoolCapacity : FanRule(w, Worldly(n, k2, dn, bk, ch, ss), bk, orig, cancel)
    BY FanStep
  <2> DEFINE v == Worldly(n, k2, dn, bk, ch, ss)
             L == Len(kids)
             some(m) == \E i \in 1 .. m : Alive(bk, kids[i])
             at(m) == IF some(m) THEN Fan(v, TRUE) ELSE Fan(w, FALSE)
             body(g, m) == IF m = 0 THEN [world |-> w, used |-> FALSE, sent |-> FALSE, failed |-> FALSE]
                           ELSE CancelChild(g[m - 1], orig, cancel, kids[m])
             fix(g) == g = [m \in 0 .. L |-> body(g, m)]
             it == CHOOSE g : fix(g)
             F == [m \in 0 .. L |-> at(m)]
  <2>2. ASSUME NEW m \in 1 .. L PROVE at(m) = CancelChild(at(m - 1), orig, cancel, kids[m])
    <3>1. L \in Nat /\ m - 1 \in Nat /\ 1 .. (m - 1) \subseteq 1 .. L /\ m \in Nat
      BY <2>2
    <3>2. some(m) <=> some(m - 1) \/ Alive(bk, kids[m])
      <4>1. \A i \in 1 .. m : i = m \/ i \in 1 .. (m - 1)
        BY <3>1
      <4>2. 1 .. (m - 1) \subseteq 1 .. m /\ m \in 1 .. m
        BY <3>1, <2>2
      <4> QED BY <4>1, <4>2
    <3>3. some(m - 1) => ~ Alive(bk, kids[m])
      <4>1. m \notin 1 .. (m - 1)
        BY <3>1
      <4> QED BY <3>1, <4>1
    <3> HIDE DEF some, v
    <3>4. CASE some(m - 1)
      BY <2>1, <3>2, <3>3, <3>4 DEF v, FanRule
    <3>5. CASE ~ some(m - 1)
      BY <2>1, <3>2, <3>5 DEF v, FanRule
    <3> QED BY <3>4, <3>5
  <2>3. at(0) = Fan(w, FALSE) /\ Fan(w, FALSE) = [world |-> w, used |-> FALSE, sent |-> FALSE, failed |-> FALSE]
    <3>1. ~ some(0)
      OBVIOUS
    <3> QED BY <3>1 DEF Fan
  <2> HIDE DEF at
  <2>4. fix(F)
    <3>1. ASSUME NEW m \in 0 .. L PROVE F[m] = body(F, m)
      <4>1. CASE m = 0
        BY <2>3, <4>1
      <4>2. CASE m # 0
        <5>1. m \in 1 .. L /\ m - 1 \in 0 .. L
          BY <4>2
        <5> QED BY <2>2, <4>2, <5>1
      <4> QED BY <4>1, <4>2
    <3> QED BY <3>1
  <2>5. fix(it)
    BY <2>4
  <2>6. RouteCancel(w, orig, cancel)
          = [world |-> IF it[L].failed /\ orig \in DOMAIN it[L].world.book
                       THEN [it[L].world EXCEPT !.book[orig].order_state = "TraderError"] ELSE it[L].world,
             sent |-> it[L].sent]
    BY <1>1, <1>3 DEF RouteCancel
  <2> HIDE DEF it
  <2>7. it[L] = F[L]
    <3>1. L \in Nat
      OBVIOUS
    <3>2. it[0] = F[0]
      <4>1. 0 \in 0 .. L
        BY <3>1
      <4>2. it[0] = body(it, 0) /\ F[0] = at(0)
        BY <2>5, <4>1
      <4> QED BY <2>3, <4>2
    <3>3. \A m \in 1 .. L : it[m - 1] = F[m - 1] => it[m] = F[m]
      <4> SUFFICES ASSUME NEW m \in 1 .. L, it[m - 1] = F[m - 1] PROVE it[m] = F[m]
        OBVIOUS
      <4>1. m \in 0 .. L /\ m - 1 \in 0 .. L /\ m # 0
        BY <3>1
      <4>2. it[m] = CancelChild(it[m - 1], orig, cancel, kids[m])
        BY <2>5, <4>1
      <4> QED BY <2>2, <4>1, <4>2
    <3> HIDE DEF F, L
    <3> QED BY <3>1, <3>2, <3>3, SameSteps
  <2>8. it[L] = Fan(v, TRUE) \/ it[L] = Fan(w, FALSE)
    <3>1. L \in 0 .. L
      OBVIOUS
    <3>2. F[L] = at(L)
      BY <3>1
    <3> QED BY <2>7, <3>2 DEF at
  <2>9. orig \in DOMAIN ch
    BY <1>3 DEF Sent
  <2>10. CASE it[L] = Fan(w, FALSE)
    <3>1. ~ it[L].failed /\ it[L].world = w /\ it[L].sent = FALSE
      BY <2>10 DEF Fan
    <3>2. RouteCancel(w, orig, cancel) = [world |-> w, sent |-> FALSE]
      BY <2>6, <3>1
    <3> QED BY <3>2 DEF Routed
  <2>11. CASE it[L] = Fan(v, TRUE)
    <3>1. it[L].failed /\ it[L].world = v /\ it[L].sent = FALSE /\ v.book = bk
      BY <2>11 DEF Fan, Worldly
    <3>2. CASE orig \notin DOMAIN bk
      BY <2>6, <3>1, <3>2 DEF Routed
    <3>3. CASE orig \in DOMAIN bk
      <4>1. [v EXCEPT !.book[orig].order_state = "TraderError"]
              = Worldly(n, k2, dn, [bk EXCEPT ![orig].order_state = "TraderError"], ch, ss)
        BY DEF Worldly
      <4>2. RouteCancel(w, orig, cancel)
              = [world |-> Worldly(n, k2, dn, [bk EXCEPT ![orig].order_state = "TraderError"], ch, ss), sent |-> FALSE]
        BY <2>6, <3>1, <3>3, <4>1
      <4> QED BY <2>1, <2>9, <3>3, <4>2 DEF Routed
    <3> QED BY <3>2, <3>3
  <2> QED BY <2>8, <2>10, <2>11
<1> QED BY <1>2, <1>3

\* The entries of the parents with a session, after some of them were marked as failed.
Remarked(bk, bk2, ss) ==
  \A p \in DOMAIN ss : /\ bk2[p].volume_traded = bk[p].volume_traded
                       /\ bk2[p].order_state = bk[p].order_state \/ bk2[p].order_state = "TraderError"

\* The loop's place does not depend on the entries that a cancel marks.
LEMMA TurnRemarked ==
  ASSUME NEW lp, NEW ss, NEW bk, NEW bk2, Turn(lp, ss, bk), Remarked(bk, bk2, ss)
  PROVE  Turn(lp, ss, bk2)
<1>1. \A p \in DOMAIN ss : Mirrored(p, ss[p], lp, bk2[p])
  BY DEF Turn, Remarked, Mirrored
<1>2. lp.fallback # NoOne => lp.fallback \in lp.todo /\ Retried(ss[lp.fallback], bk2[lp.fallback])
  BY DEF Turn, Remarked, Retried
<1> QED BY <1>1, <1>2 DEF Turn

CancelTaken(v, n, up, dn, rs, bk, ch, ss, br) ==
  \E k2 \in 0 .. PoolCapacity : \E bk2 :
    /\ v = Worldly(n, k2, dn, bk2, ch, ss)
    /\ Sound(n, Tail(up), dn, rs, bk2, ch, ss, br)
    /\ Remarked(bk, bk2, ss)

Marked(x) == [x EXCEPT !.order_state = "TraderError"]

\* Marking an entry changes its state only.
LEMMA MarkedFacts ==
  ASSUME NEW x \in BookEntry
  PROVE  /\ Marked(x) \in BookEntry /\ Marked(x).order_state = "TraderError" /\ Marked(x).order_type = x.order_type
         /\ Marked(x).volume_entrust = x.volume_entrust /\ Marked(x).volume_traded = x.volume_traded
BY DEF Marked, BookEntry, OrderState

\* The book bk3 has an entry for id besides those of bk, some parents of which it marks.
Booking(bk, bk3, id, ch) ==
  /\ DOMAIN bk3 = DOMAIN bk \cup {id}
  /\ bk3 = [x \in DOMAIN bk3 |-> bk3[x]]
  /\ \A c \in DOMAIN bk : bk3[c] = bk[c] \/ (c \in DOMAIN ch /\ bk3[c] = Marked(bk[c]))
  /\ bk3[id] \in BookEntry

\* A request is taken and booked, with nothing but marks on other entries.
LEMMA RequestBooked ==
  ASSUME NEW n, NEW up, NEW dn, NEW rs, NEW bk, NEW ch, NEW ss, NEW br,
         Sound(n, up, dn, rs, bk, ch, ss, br), up # <<>>, NEW id, id = Head(up).id,
         Cardinality(DOMAIN bk) < BookCapacity, NEW bk3, Booking(bk, bk3, id, ch)
  PROVE  Sound(n, Tail(up), dn, rs, bk3, ch, ss, br) /\ Remarked(bk, bk3, ss)
<1>1. /\ Sound(n, Tail(up), dn, rs, bk, ch, ss, br)
      /\ id \in Issued(n) /\ id \notin DOMAIN bk /\ id \notin DOMAIN ch
      /\ \A p \in DOMAIN ch : id \notin Kids(ch, p)
      /\ \A i \in DOMAIN Tail(up) : Tail(up)[i].id # id
  BY RequestTaken
<1>2. /\ n \in Nat \ {0} /\ bk \in Tables(BookEntry) /\ DOMAIN bk \subseteq Issued(n)
      /\ DOMAIN ch \subseteq DOMAIN bk /\ DOMAIN ss \subseteq DOMAIN bk
      /\ \A p \in DOMAIN ch : Kids(ch, p) \cap DOMAIN ch = {}
  BY DEF Sound, Typed, Parented, Families
<1>3. /\ DOMAIN bk \subseteq Nat /\ \A c \in DOMAIN bk : bk[c] \in BookEntry
  BY <1>2, TableFacts
<1>4. id \in Nat
  BY <1>1, <1>2, IssuedFacts
<1>5. ASSUME NEW x \in BookEntry
      PROVE  /\ Marked(x) \in BookEntry /\ Marked(x).order_state = "TraderError" /\ Marked(x).order_type = x.order_type
             /\ Marked(x).volume_entrust = x.volume_entrust /\ Marked(x).volume_traded = x.volume_traded
  BY MarkedFacts
<1>6. /\ DOMAIN bk3 = DOMAIN bk \cup {id}
      /\ bk3 = [x \in DOMAIN bk3 |-> bk3[x]]
      /\ \A c \in DOMAIN bk : bk3[c] = bk[c] \/ (c \in DOMAIN ch /\ bk3[c] = Marked(bk[c]))
      /\ bk3[id] \in BookEntry
  BY DEF Booking
<1>7. bk3 \in Tables(BookEntry)
  <2>1. \A x \in DOMAIN bk3 : bk3[x] \in BookEntry
    BY <1>3, <1>5, <1>6
  <2>2. DOMAIN bk3 \subseteq Nat
    BY <1>3, <1>4, <1>6
  <2> QED BY <1>6, <2>1, <2>2, TableIntro
<1>8. Cardinality(DOMAIN bk3) <= BookCapacity
  <2>1. IsFiniteSet(DOMAIN bk)
    BY <1>2, IssuedFacts, FS_Subset
  <2>2. Cardinality(DOMAIN bk \cup {id}) = Cardinality(DOMAIN bk) + 1 /\ Cardinality(DOMAIN bk) \in Nat
    BY <1>1, <2>1, FS_AddElement, FS_CardinalityType
  <2> QED BY <1>6, <2>2, LimitsAssumption
<1>9. DOMAIN bk \subseteq DOMAIN bk3 /\ DOMAIN bk3 \subseteq Issued(n)
  BY <1>1, <1>2, <1>6
<1>10. \A i \in DOMAIN Tail(up) : Tail(up)[i].id \notin DOMAIN bk3
  <2>1. \A i \in DOMAIN Tail(up) : Tail(up)[i].id \notin DOMAIN bk
    BY <1>1 DEF Sound, Waiters
  <2> QED BY <1>1, <1>6, <2>1
<1>11. \A p \in DOMAIN ch : \A c \in Kids(ch, p) :
         /\ c \in DOMAIN bk3 => c \in DOMAIN bk
         /\ c \in DOMAIN bk => bk3[c] = bk[c]
  BY <1>1, <1>2, <1>6
<1>12. \A c \in DOMAIN bk : /\ bk3[c].order_type = bk[c].order_type /\ bk3[c].volume_entrust = bk[c].volume_entrust
                            /\ bk3[c].volume_traded = bk[c].volume_traded
                            /\ bk3[c].order_state = "TraderError" \/ bk3[c].order_state = bk[c].order_state
  <2> TAKE c \in DOMAIN bk
  <2>1. CASE bk3[c] = bk[c]
    BY <2>1
  <2>2. CASE bk3[c] = Marked(bk[c])
    <3>1. bk[c] \in BookEntry
      BY <1>3
    <3> QED BY <1>5, <2>2, <3>1
  <2> QED BY <1>6, <2>1, <2>2
<1>13. Sound(n, Tail(up), dn, rs, bk3, ch, ss, br)
  <2>1. \A p \in DOMAIN ch \cup DOMAIN ss :
           bk3[p].order_type = bk[p].order_type /\ bk3[p].volume_entrust = bk[p].volume_entrust
    BY <1>2, <1>12
  <2>2. \A p \in DOMAIN ch \ DOMAIN ss :
           \/ bk3[p].order_state = "TraderError"
           \/ bk3[p].order_state = bk[p].order_state /\ bk3[p].volume_traded = bk[p].volume_traded
    BY <1>2, <1>12
  <2> DEFINE up2 == Tail(up)
  <2>3. /\ Sound(n, up2, dn, rs, bk, ch, ss, br) /\ \A i \in DOMAIN up2 : up2[i].id \notin DOMAIN bk3
    BY <1>1, <1>10
  <2> HIDE DEF up2
  <2>4. Sound(n, up2, dn, rs, bk3, ch, ss, br)
    BY ONLY <1>7, <1>8, <1>9, <1>11, <2>1, <2>2, <2>3, BookChanged
  <2> QED BY <2>4 DEF up2
<1>14. Remarked(bk, bk3, ss)
  BY <1>2, <1>12 DEF Remarked
<1> QED BY <1>13, <1>14

\* The book after a cancel of orig with the id id: bk3 is bk2 with the cancel's entry ended.
LEMMA CancelBooked ==
  ASSUME NEW bk, NEW ch, NEW id, id \notin DOMAIN bk, DOMAIN ch \subseteq DOMAIN bk,
         NEW e \in BookEntry, NEW orig,
         NEW bk2, bk2 = Put(bk, id, e) \/ (orig \in DOMAIN ch /\ bk2 = [Put(bk, id, e) EXCEPT ![orig].order_state = "TraderError"]),
         NEW bk3, bk3 = [bk2 EXCEPT ![id].order_state = "TraderError"]
  PROVE  Booking(bk, bk3, id, ch)
<1>1. /\ DOMAIN bk3 = DOMAIN bk \cup {id}
      /\ bk3 = [x \in DOMAIN bk3 |-> bk3[x]]
      /\ \A c \in DOMAIN bk : bk3[c] = bk[c] \/ (c \in DOMAIN ch /\ bk3[c] = Marked(bk[c]))
      /\ bk3[id] = Marked(e)
  <2>1. CASE bk2 = Put(bk, id, e)
    BY <2>1 DEF Put, Marked
  <2>2. CASE orig \in DOMAIN ch /\ bk2 = [Put(bk, id, e) EXCEPT ![orig].order_state = "TraderError"]
    BY <2>2 DEF Put, Marked
  <2> QED BY <2>1, <2>2
<1>2. bk3[id] \in BookEntry
  BY <1>1, MarkedFacts
<1> QED BY <1>1, <1>2 DEF Booking

\* The book after a request that was not a cancel.
LEMMA PutBooked ==
  ASSUME NEW bk, NEW ch, NEW id, id \notin DOMAIN bk, NEW e \in BookEntry
  PROVE  Booking(bk, Put(bk, id, e), id, ch)
BY DEF Booking, Put

\* A cancel request is taken and routed.
LEMMA CancelHandled ==
  ASSUME NEW n, NEW up, NEW dn, NEW rs, NEW bk, NEW ch, NEW ss, NEW br,
         Sound(n, up, dn, rs, bk, ch, ss, br), up # <<>>, NEW q, q = Head(up), NEW k \in 0 .. PoolCapacity,
         NEW w, w = Worldly(n, k, dn, bk, ch, ss), CanAdd(w, q.id),
         NEW added, added = AddOrder(w, q.id, Entry("Cancel", NoOne, q.orig, 0, "RiskControllerAccepted")),
         NEW o, o = RouteCancel(added, q.orig, q.id),
         NEW v, v = IF o.sent THEN o.world ELSE [o.world EXCEPT !.book[q.id].order_state = "TraderError"]
  PROVE  CancelTaken(v, n, up, dn, rs, bk, ch, ss, br)
<1> DEFINE id == q.id
           orig == q.orig
           e == Entry("Cancel", NoOne, orig, 0, "RiskControllerAccepted")
           bk1 == Put(bk, id, e)
           kids == Sent(ch, orig)
<1>1. /\ q \in Request /\ id \notin DOMAIN bk /\ \A p \in DOMAIN ch : id \notin Kids(ch, p)
  BY RequestTaken
<1>2. orig \in Nat
  BY <1>1 DEF Request
<1>3. e \in BookEntry /\ e.parent_order_id = NoOne
  BY <1>2 DEF Entry, BookEntry, OrderType, OrderState, NoOne
<1>4. w.book = bk /\ w.children = ch /\ Cardinality(DOMAIN bk) < BookCapacity
  BY DEF Worldly, CanAdd
<1> HIDE DEF e
<1>5. added = Worldly(n, k, dn, bk1, ch, ss)
  <2>1. added = [w EXCEPT !.book = bk1, !.children = ch]
    BY <1>3, <1>4 DEF AddOrder, e
  <2> HIDE DEF bk1
  <2> QED BY <2>1 DEF Worldly
<1>6. /\ id \in DOMAIN bk1 /\ \A c \in DOMAIN bk1 : c # id => c \in DOMAIN bk /\ bk1[c] = bk[c]
  BY DEF Put
<1>7. kids \in Seq(Nat) /\ Len(kids) \in Nat /\ (orig \notin DOMAIN ch => kids = <<>>)
  <2>1. ch \in Lineages
    BY DEF Sound, Typed
  <2>2. orig \in DOMAIN ch => ch[orig] \in Seq(Nat)
    BY <2>1, TableFacts DEF Lineages
  <2>3. orig \notin DOMAIN ch => kids = <<>>
    BY DEF Sent
  <2>4. kids \in Seq(Nat)
    BY ONLY <2>2, <2>3 DEF Sent, kids
  <2> HIDE DEF kids
  <2> QED BY ONLY <2>3, <2>4
<1>8. \A i, j \in 1 .. Len(kids) : Alive(bk1, kids[i]) /\ Alive(bk1, kids[j]) => i = j
  <2> SUFFICES ASSUME NEW i \in 1 .. Len(kids), NEW j \in 1 .. Len(kids), Alive(bk1, kids[i]), Alive(bk1, kids[j])
               PROVE  i = j
    OBVIOUS
  <2>1. orig \in DOMAIN ch /\ kids = ch[orig] /\ DOMAIN kids = 1 .. Len(kids)
    <3>1. orig \in DOMAIN ch
      <4>1. i \in {} => FALSE
        OBVIOUS
      <4>2. kids = <<>> => 1 .. Len(kids) = {}
        BY ONLY TRUE
      <4> QED BY <1>7, <4>1, <4>2
    <3>2. DOMAIN kids = 1 .. Len(kids)
      <4> HIDE DEF kids
      <4> QED BY ONLY <1>7
    <3> QED BY <3>1, <3>2 DEF Sent
  <2>2. kids[i] \in Kids(ch, orig) /\ kids[j] \in Kids(ch, orig)
    BY <2>1 DEF Kids, Range
  <2>3. Live(bk, kids[i]) /\ Live(bk, kids[j])
    BY <1>1, <1>6, <2>1, <2>2 DEF Alive, Live
  <2>4. kids[i] = kids[j]
    BY <2>1, <2>2, <2>3 DEF Sound, OneLive
  <2>5. \A a, b \in DOMAIN ch[orig] : ch[orig][a] = ch[orig][b] => a = b
    BY <2>1 DEF Sound, Families
  <2> HIDE DEF kids
  <2> QED BY <2>1, <2>4, <2>5
<1>9. Routed(o, n, dn, bk1, ch, ss, orig)
  <2>1. /\ k \in 0 .. PoolCapacity /\ id \in DOMAIN bk1 /\ kids = Sent(ch, orig)
        /\ o = RouteCancel(added, orig, id)
    BY <1>6
  <2> HIDE DEF bk1, kids, id, orig
  <2> QED BY ONLY <1>5, <1>7, <1>8, <2>1, CancelRouted
<1>10. PICK k2 \in 0 .. PoolCapacity :
    \/ o = [world |-> Worldly(n, k2, dn, bk1, ch, ss), sent |-> FALSE]
    \/ /\ orig \in DOMAIN ch /\ orig \in DOMAIN bk1
       /\ o = [world |-> Worldly(n, k2, dn, [bk1 EXCEPT ![orig].order_state = "TraderError"], ch, ss), sent |-> FALSE]
  BY <1>9 DEF Routed
<1> DEFINE bk2 == o.world.book
           bk3 == [bk2 EXCEPT ![id].order_state = "TraderError"]
<1>11. /\ bk2 = bk1 \/ (orig \in DOMAIN ch /\ bk2 = [bk1 EXCEPT ![orig].order_state = "TraderError"])
       /\ o.world = Worldly(n, k2, dn, bk2, ch, ss)
       /\ o.sent = FALSE
  <2> HIDE DEF bk1, orig
  <2>1. CASE o = [world |-> Worldly(n, k2, dn, bk1, ch, ss), sent |-> FALSE]
    <3>1. o.world = Worldly(n, k2, dn, bk1, ch, ss) /\ o.sent = FALSE
      BY ONLY <2>1
    <3>2. bk2 = bk1
      BY ONLY <3>1 DEF Worldly, bk2
    <3> QED BY <3>1, <3>2
  <2> DEFINE bm == [bk1 EXCEPT ![orig].order_state = "TraderError"]
  <2>2. CASE orig \in DOMAIN ch /\ o = [world |-> Worldly(n, k2, dn, bm, ch, ss), sent |-> FALSE]
    <3> HIDE DEF bm
    <3>1. o.world = Worldly(n, k2, dn, bm, ch, ss) /\ o.sent = FALSE
      BY ONLY <2>2
    <3>2. bk2 = bm
      BY ONLY <3>1 DEF Worldly, bk2
    <3> QED BY <2>2, <3>1, <3>2 DEF bm
  <2> QED BY <1>10, <2>1, <2>2
<1> HIDE DEF bk2
<1>12. v = Worldly(n, k2, dn, bk3, ch, ss)
  <2>1. v = [o.world EXCEPT !.book[id].order_state = "TraderError"]
    BY <1>11
  <2> DEFINE ow == o.world
  <2>2. ow = Worldly(n, k2, dn, bk2, ch, ss) /\ v = [ow EXCEPT !.book[id].order_state = "TraderError"]
    BY <1>11, <2>1
  <2> HIDE DEF id, ow
  <2>3. v = [ow EXCEPT !.book = bk3]
    BY ONLY <2>2 DEF Worldly
  <2> HIDE DEF bk3
  <2> QED BY ONLY <2>2, <2>3 DEF Worldly
<1>13. Sound(n, Tail(up), dn, rs, bk3, ch, ss, br) /\ Remarked(bk, bk3, ss)
  <2>1. id = Head(up).id /\ Sound(n, up, dn, rs, bk, ch, ss, br) /\ up # <<>>
    OBVIOUS
  <2>2. bk2 = Put(bk, id, e) \/ (orig \in DOMAIN ch /\ bk2 = [Put(bk, id, e) EXCEPT ![orig].order_state = "TraderError"])
    BY <1>11
  <2>3. bk3 = [bk2 EXCEPT ![id].order_state = "TraderError"]
    OBVIOUS
  <2>4. e \in BookEntry /\ Cardinality(DOMAIN bk) < BookCapacity /\ id \notin DOMAIN bk /\ DOMAIN ch \subseteq DOMAIN bk
    BY <1>1, <1>3, <1>4 DEF Sound, Parented
  <2> HIDE DEF id, orig, bk3, bk1
  <2>5. CASE bk2 = Put(bk, id, e)
    <3>1. Booking(bk, bk3, id, ch)
      BY ONLY <2>3, <2>4, <2>5, CancelBooked
    <3> QED BY ONLY <2>1, <2>4, <3>1, RequestBooked
  <2>6. CASE orig \in DOMAIN ch /\ bk2 = [Put(bk, id, e) EXCEPT ![orig].order_state = "TraderError"]
    <3>1. Booking(bk, bk3, id, ch)
      BY ONLY <2>3, <2>4, <2>6, CancelBooked
    <3> QED BY ONLY <2>1, <2>4, <3>1, RequestBooked
  <2> QED BY <2>2, <2>5, <2>6
<1> QED BY <1>12, <1>13 DEF CancelTaken

-----------------------------------------------------------------------------
(* The mirror: sync_parent_view.                                            *)

\* Aggregation yields a state of an order.
LEMMA FurthestState ==
  ASSUME NEW states, "TraderPending" \in states
  PROVE  Furthest(states) \in OrderState
<1> DEFINE ranks == {i \in DOMAIN Progress : Progress[i] \in states}
<1>1. DOMAIN Progress = 1 .. 7 /\ Progress[4] = "TraderPending"
  BY DEF Progress
<1>2. \A i \in 1 .. 7 : Progress[i] \in OrderState
  BY DEF Progress, OrderState
<1>3. ranks \subseteq 1 .. 7 /\ 4 \in ranks
  BY <1>1
<1>4. \E x \in ranks : \A y \in ranks : x >= y
  <2> HIDE DEF ranks
  <2>1. \A y \in ranks : y \in {1, 2, 3, 4, 5, 6, 7}
    BY <1>3
  <2>2. CASE 7 \in ranks
    BY <2>1, <2>2
  <2>3. CASE 7 \notin ranks /\ 6 \in ranks
    BY <2>1, <2>3
  <2>4. CASE 7 \notin ranks /\ 6 \notin ranks /\ 5 \in ranks
    BY <2>1, <2>4
  <2>5. CASE 7 \notin ranks /\ 6 \notin ranks /\ 5 \notin ranks
    BY <1>3, <2>1, <2>5
  <2> QED BY <2>2, <2>3, <2>4, <2>5
<1>5. Max(ranks) \in ranks
  <2> HIDE DEF ranks
  <2> QED BY <1>4 DEF Max
<1>6. Furthest(states) = Progress[Max(ranks)]
  BY DEF Furthest
<1> HIDE DEF ranks
<1> QED BY <1>2, <1>3, <1>5, <1>6

\* What the parent shows of a session.
Shows(e2, e, s) ==
  /\ e2 \in BookEntry /\ e2.order_type = e.order_type /\ e2.volume_entrust = e.volume_entrust
  /\ e2.volume_traded = ConfirmedTraded(s)
  /\ s.failed => e2.order_state = "TraderError"

\* What the parent's entry shows after a refresh (sync_managed_parent_view).
LEMMA ViewFacts ==
  ASSUME NEW e \in BookEntry, NEW s \in Session, Balanced(s), NEW e2, e2 = ParentView(e, s)
  PROVE  Shows(e2, e, s)
<1> DEFINE st == DeriveParentState(s)
           xs == DeriveExecutionState(s)
           ct == ConfirmedTraded(s)
           rt == RemainingTarget(s)
           wv == WorkingVolume(s)
           sv == SchedulableVolume(s)
<1>1. ct \in Nat /\ wv \in Nat
  BY LedgerSums
<1>2. rt \in Nat
  <2>1. s.target \in Nat
    BY DEF Session
  <2> HIDE DEF ct
  <2>2. rt = Less(s.target, ct)
    BY DEF RemainingTarget, ct
  <2> HIDE DEF rt
  <2> QED BY <1>1, <2>1, <2>2 DEF Less
<1>3. sv \in Nat
  <2>1. sv = Less(rt, wv)
    BY DEF SchedulableVolume
  <2> HIDE DEF sv, rt, wv
  <2> QED BY <1>1, <1>2, <2>1 DEF Less
<1>4. st \in OrderState
  <2> DEFINE f == Furthest({"TraderPending"} \cup {s.ledgers[c].state : c \in DOMAIN s.ledgers})
  <2>1. f \in OrderState
    BY FurthestState
  <2> HIDE DEF f
  <2>2. st = IF s.failed THEN "TraderError" ELSE IF s.terminal THEN "Finished" ELSE f
    BY DEF DeriveParentState, f
  <2> HIDE DEF st
  <2> QED BY <2>1, <2>2 DEF OrderState
<1>5. xs \in {"None", "Running", "Cancelling", "Failed", "Finished"}
  BY DEF DeriveExecutionState
<1>6. s.failed => st = "TraderError"
  BY DEF DeriveParentState
<1>7. e2 = [e EXCEPT !.order_state = st, !.execution_state = xs, !.volume_traded = ct, !.volume_remain = rt,
                     !.working_volume = wv, !.schedulable_volume = sv]
  BY DEF ParentView
<1> HIDE DEF st, xs, ct, rt, wv, sv
<1>8. /\ e2 \in BookEntry /\ e2.order_type = e.order_type /\ e2.volume_entrust = e.volume_entrust
      /\ e2.volume_traded = ct /\ e2.order_state = st
  BY ONLY <1>1, <1>2, <1>3, <1>4, <1>5, <1>7, e \in BookEntry DEF BookEntry
<1> QED BY <1>6, <1>8 DEF Shows, ct

\* The world after a sync of p's entry.
Refreshing(v, n, k, dn, bk, ch, ss, up, rs, br, p) ==
  \E bk2 : /\ v = Worldly(n, k, dn, bk2, ch, ss)
           /\ Sound(n, up, dn, rs, bk2, ch, ss, br)
           /\ Shows(bk2[p], bk[p], ss[p])
           /\ DOMAIN bk2 = DOMAIN bk /\ \A q \in DOMAIN bk \ {p} : bk2[q] = bk[q]

\* Refreshing the parent's entry keeps everything sound.
LEMMA ParentSynced ==
  ASSUME NEW n, NEW up, NEW dn, NEW rs, NEW bk, NEW ch, NEW ss, NEW br,
         Sound(n, up, dn, rs, bk, ch, ss, br), NEW p \in DOMAIN ss, NEW k,
         NEW w, w = Worldly(n, k, dn, bk, ch, ss)
  PROVE  Refreshing(Synced(w, p), n, k, dn, bk, ch, ss, up, rs, br, p)
<1> DEFINE e2 == ParentView(bk[p], ss[p])
           bk2 == [bk EXCEPT ![p] = e2]
<1>1. w.book = bk /\ w.sessions = ss
  BY DEF Worldly
<1>2. ss[p] \in Session /\ Balanced(ss[p]) /\ bk[p] \in BookEntry /\ p \in DOMAIN bk
  BY SoundSession
<1>3. Shows(e2, bk[p], ss[p])
  BY <1>2, ViewFacts
<1>4. Synced(w, p) = [w EXCEPT !.book[p] = e2]
  BY <1>1 DEF Synced
<1> HIDE DEF e2
<1>5. Synced(w, p) = Worldly(n, k, dn, bk2, ch, ss)
  <2> DEFINE v == [w EXCEPT !.book[p] = e2]
  <2>1. v = [w EXCEPT !.book = bk2]
    BY <1>1 DEF Worldly
  <2>2. Synced(w, p) = v
    BY <1>4
  <2> HIDE DEF v, bk2
  <2> QED BY ONLY <2>1, <2>2, w = Worldly(n, k, dn, bk, ch, ss) DEF Worldly
<1>6. /\ bk \in Tables(BookEntry) /\ DOMAIN bk \subseteq Issued(n) /\ Cardinality(DOMAIN bk) <= BookCapacity
      /\ \A i \in DOMAIN up : up[i].id \notin DOMAIN bk
      /\ \A q \in DOMAIN ch : Kids(ch, q) \cap DOMAIN ss = {}
  BY DEF Sound, Typed, Parented, Bounded, Waiters
<1>7. bk2 \in Tables(BookEntry) /\ DOMAIN bk2 = DOMAIN bk
  <2>1. e2 \in BookEntry
    BY <1>3 DEF Shows
  <2> QED BY <1>2, <1>6, <2>1, ExceptTable
<1>8. bk2[p] = e2 /\ \A q \in DOMAIN bk \ {p} : bk2[q] = bk[q]
  BY <1>2
<1> HIDE DEF bk2
<1>9. Sound(n, up, dn, rs, bk2, ch, ss, br)
  <2>1. Cardinality(DOMAIN bk2) <= BookCapacity /\ DOMAIN bk \subseteq DOMAIN bk2 /\ DOMAIN bk2 \subseteq Issued(n)
    BY <1>6, <1>7
  <2>2. \A i \in DOMAIN up : up[i].id \notin DOMAIN bk2
    BY <1>6, <1>7
  <2>3. \A q \in DOMAIN ch : \A c \in Kids(ch, q) :
           /\ c \in DOMAIN bk2 => c \in DOMAIN bk
           /\ c \in DOMAIN bk => bk2[c] = bk[c]
    BY <1>6, <1>7, <1>8
  <2>4. \A q \in DOMAIN ch \cup DOMAIN ss :
           bk2[q].order_type = bk[q].order_type /\ bk2[q].volume_entrust = bk[q].volume_entrust
    <3>1. DOMAIN ch \cup DOMAIN ss \subseteq DOMAIN bk
      BY DEF Sound, Parented
    <3> QED BY <1>3, <1>8, <3>1 DEF Shows
  <2>5. \A q \in DOMAIN ch \ DOMAIN ss :
           \/ bk2[q].order_state = "TraderError"
           \/ bk2[q].order_state = bk[q].order_state /\ bk2[q].volume_traded = bk[q].volume_traded
    <3>1. DOMAIN ch \subseteq DOMAIN bk
      BY DEF Sound, Parented
    <3> QED BY <1>8, <3>1
  <2> QED BY ONLY <1>7, <2>1, <2>2, <2>3, <2>4, <2>5, BookChanged, Sound(n, up, dn, rs, bk, ch, ss, br)
<1>10. Shows(bk2[p], bk[p], ss[p])
  BY <1>3, <1>8
<1> QED BY <1>5, <1>7, <1>8, <1>9, <1>10 DEF Refreshing

-----------------------------------------------------------------------------
(* The loop's turn.                                                         *)

\* Two sessions that differ in nothing but their age and the prediction they saw last.
Alike(s, t) ==
  /\ t \in Session /\ t.algo = s.algo /\ t.target = s.target /\ t.ledgers = s.ledgers
  /\ t.cancel_requested = s.cancel_requested /\ t.failed = s.failed /\ t.terminal = s.terminal
  /\ t.slice = s.slice /\ t.slice_consumed = s.slice_consumed

SameWork(s, t) ==
  /\ Schedule(s) => Schedule(t)
  /\ Balanced(s) => Balanced(t)
  /\ Budget(t) = Budget(s)
  /\ ConfirmedTraded(t) = ConfirmedTraded(s) /\ WorkingVolume(t) = WorkingVolume(s)

\* Sessions that differ only in their clocks have done the same work.
LEMMA AlikeFacts ==
  ASSUME NEW s, NEW t, Alike(s, t)
  PROVE  SameWork(s, t)
<1>1. /\ t.algo = s.algo /\ t.target = s.target /\ t.ledgers = s.ledgers
      /\ t.cancel_requested = s.cancel_requested /\ t.failed = s.failed /\ t.terminal = s.terminal
      /\ t.slice = s.slice /\ t.slice_consumed = s.slice_consumed
  BY DEF Alike
<1>2. /\ ConfirmedTraded(t) = ConfirmedTraded(s) /\ WorkingVolume(t) = WorkingVolume(s)
      /\ SentVolume(t) = SentVolume(s) /\ CommittedVolume(t) = CommittedVolume(s)
      /\ Balanced(t) <=> Balanced(s)
  BY <1>1, SameLedgers
<1>3. Slices(t) = Slices(s)
  BY <1>1 DEF Slices
<1>4. Schedule(s) => Schedule(t)
  <2>1. (Sliced(s) => Sliced(t)) /\ (FullyWorked(s) => FullyWorked(t))
    BY <1>1, <1>2, <1>3 DEF Sliced, FullyWorked
  <2> QED BY <1>1, <1>2, <2>1 DEF Schedule
<1>5. RemainingTarget(t) = RemainingTarget(s)
  BY <1>1, <1>2 DEF RemainingTarget
<1>6. SchedulableVolume(t) = SchedulableVolume(s)
  BY <1>2, <1>5 DEF SchedulableVolume
<1>7. Budget(t) = Budget(s)
  BY <1>1, <1>6 DEF Budget, SlicesDone
<1> QED BY <1>2, <1>4, <1>7 DEF SameWork

\* The loop after the tick of p.
After(lp, p) ==
  IF lp.phase = "start" THEN [phase |-> "orders", todo |-> {}, fallback |-> NoOne]
  ELSE [lp EXCEPT !.todo = @ \ {p}, !.fallback = NoOne]

\* Only p's session and entry differ.
OnlyAt(p, ss, ss2, bk, bk2) ==
  DOMAIN ss2 = DOMAIN ss /\ \A q \in DOMAIN ss \ {p} : ss2[q] = ss[q] /\ bk2[q] = bk[q]

\* The tick is done with one session.
LEMMA TurnTicked ==
  ASSUME NEW lp \in Loops, NEW ss, NEW bk, Turn(lp, ss, bk), NEW p \in lp.todo, NEW ss2, NEW bk2,
         OnlyAt(p, ss, ss2, bk, bk2),
         bk2[p].volume_traded = ConfirmedTraded(ss2[p]),
         ss2[p].terminal /\ ~ ss2[p].failed => lp.phase = "tick",
         ss2[p].terminal /\ ss2[p].failed => bk2[p].order_state = "TraderError"
  PROVE  After(lp, p) \in Loops /\ Turn(After(lp, p), ss2, bk2)
<1> DEFINE lp2 == After(lp, p)
<1>1. /\ p \in DOMAIN ss /\ lp.todo \subseteq DOMAIN ss /\ lp.phase \in {"start", "tick"}
      /\ lp.phase = "start" => lp.todo = {p}
  BY DEF Turn, Loops
<1>2. DOMAIN ss2 = DOMAIN ss /\ \A q \in DOMAIN ss \ {p} : ss2[q] = ss[q] /\ bk2[q] = bk[q]
  BY DEF OnlyAt
<1>3. /\ lp2 \in Loops /\ lp2.fallback = NoOne /\ lp2.todo = lp.todo \ {p} /\ lp2.phase \in {"orders", "tick"}
      /\ lp2.phase = "tick" <=> lp.phase = "tick"
      /\ lp2.phase = "orders" => lp2.todo = {}
  BY <1>1 DEF After, Loops, NoOne
<1> HIDE DEF lp2
<1>4. ASSUME NEW q \in DOMAIN ss2 PROVE Mirrored(q, ss2[q], lp2, bk2[q])
  <2>1. CASE q = p
    BY <1>1, <1>3, <2>1 DEF Mirrored
  <2>2. CASE q # p
    <3>1. Mirrored(q, ss[q], lp, bk[q])
      BY <1>2, <1>4 DEF Turn
    <3>2. q \notin lp2.todo => q \notin lp.todo
      BY <1>3, <2>2
    <3>3. ss2[q] = ss[q] /\ bk2[q] = bk[q]
      BY <1>2, <1>4, <2>2
    <3> QED BY <1>1, <1>3, <3>1, <3>2, <3>3 DEF Mirrored
  <2> QED BY <2>1, <2>2
<1>5. lp2.todo \subseteq DOMAIN ss2
  BY <1>1, <1>2, <1>3
<1> QED BY <1>3, <1>4, <1>5 DEF Turn, lp2

\* The tick leaves one session for the fallback price.
LEMMA TurnRetried ==
  ASSUME NEW lp \in Loops, NEW ss, NEW bk, Turn(lp, ss, bk), NEW p \in lp.todo, NEW ss2, NEW bk2,
         OnlyAt(p, ss, ss2, bk, bk2), p \in Nat \ {0}, Retried(ss2[p], bk2[p])
  PROVE  [lp EXCEPT !.fallback = p] \in Loops /\ Turn([lp EXCEPT !.fallback = p], ss2, bk2)
<1> DEFINE lp2 == [lp EXCEPT !.fallback = p]
<1>1. /\ p \in DOMAIN ss /\ lp.todo \subseteq DOMAIN ss /\ lp.phase \in {"start", "tick"}
      /\ lp.phase = "start" => lp.todo = {p}
  BY DEF Turn, Loops
<1>2. DOMAIN ss2 = DOMAIN ss /\ \A q \in DOMAIN ss \ {p} : ss2[q] = ss[q] /\ bk2[q] = bk[q]
  BY DEF OnlyAt
<1>3. lp2 \in Loops /\ lp2.fallback = p /\ lp2.todo = lp.todo /\ lp2.phase = lp.phase
  BY DEF Loops
<1> HIDE DEF lp2
<1>4. ASSUME NEW q \in DOMAIN ss2 PROVE Mirrored(q, ss2[q], lp2, bk2[q])
  <2>1. CASE q = p
    BY <1>3, <2>1 DEF Mirrored, Retried
  <2>2. CASE q # p
    <3>1. Mirrored(q, ss[q], lp, bk[q])
      BY <1>2, <1>4 DEF Turn
    <3>2. ss2[q] = ss[q] /\ bk2[q] = bk[q]
      BY <1>2, <1>4, <2>2
    <3> QED BY <1>3, <3>1, <3>2 DEF Mirrored
  <2> QED BY <2>1, <2>2
<1>5. lp2.phase = "start" => \A q \in lp2.todo : lp2.todo = {q} /\ (ss2[q].failed \/ Fresh(ss2[q]))
  BY <1>1, <1>3 DEF Retried
<1>6. lp2.todo \subseteq DOMAIN ss2 /\ lp2.fallback \in lp2.todo /\ (lp2.phase \in {"orders", "responses"} => lp2.todo = {})
  BY <1>1, <1>2, <1>3
<1>7. Retried(ss2[lp2.fallback], bk2[lp2.fallback])
  BY <1>3
<1>8. Turn(lp2, ss2, bk2)
  BY ONLY <1>4, <1>5, <1>6, <1>7 DEF Turn
<1> QED BY <1>3, <1>8 DEF lp2

-----------------------------------------------------------------------------
(* Ticks.                                                                   *)

\* A world a handler may leave behind.
Fine(v, lp2, up, rs, br) ==
  \E n2, k2, dn2, bk2, ch2, ss2 :
    /\ v = Worldly(n2, k2, dn2, bk2, ch2, ss2)
    /\ k2 \in 0 .. PoolCapacity
    /\ Sound(n2, up, dn2, rs, bk2, ch2, ss2, br)
    /\ lp2 \in Loops
    /\ Turn(lp2, ss2, bk2)

\* The tick of p ends with a sync.
LEMMA SyncFine ==
  ASSUME NEW lp \in Loops, NEW ss, NEW bk, Turn(lp, ss, bk), NEW p \in lp.todo,
         NEW n2, NEW k2, NEW up, NEW dn2, NEW rs, NEW bk2, NEW ch2, NEW ss2, NEW br,
         Sound(n2, up, dn2, rs, bk2, ch2, ss2, br), k2 \in 0 .. PoolCapacity,
         OnlyAt(p, ss, ss2, bk, bk2),
         ss2[p].terminal /\ ~ ss2[p].failed => lp.phase = "tick",
         NEW w, w = Worldly(n2, k2, dn2, bk2, ch2, ss2), NEW v, v = Synced(w, p)
  PROVE  /\ Fine(v, After(lp, p), up, rs, br)
         /\ /\ ss2[p].failed /\ ss2[p].terminal /\ ~ ss2[p].slice_consumed
            /\ WorkingVolume(ss2[p]) = 0 /\ Budget(ss2[p]) > 0
            => Fine(v, [lp EXCEPT !.fallback = p], up, rs, br)
<1>1. p \in DOMAIN ss2 /\ DOMAIN ss2 = DOMAIN ss
  BY DEF Turn, OnlyAt
<1>2. Refreshing(v, n2, k2, dn2, bk2, ch2, ss2, up, rs, br, p)
  BY <1>1, ParentSynced
<1>3. PICK bk3 : /\ v = Worldly(n2, k2, dn2, bk3, ch2, ss2)
                 /\ Sound(n2, up, dn2, rs, bk3, ch2, ss2, br)
                 /\ Shows(bk3[p], bk2[p], ss2[p])
                 /\ DOMAIN bk3 = DOMAIN bk2 /\ \A q \in DOMAIN bk2 \ {p} : bk3[q] = bk2[q]
  BY ONLY <1>2 DEF Refreshing
<1>4. DOMAIN ss2 \subseteq DOMAIN bk2 /\ DOMAIN bk2 \subseteq Issued(n2) /\ n2 \in Nat \ {0}
  BY DEF Sound, Parented, Typed
<1>5. p \in Nat \ {0}
  BY <1>1, <1>4, IssuedFacts
<1>6. OnlyAt(p, ss, ss2, bk, bk3)
  BY <1>1, <1>3, <1>4 DEF OnlyAt
<1>7. bk3[p].volume_traded = ConfirmedTraded(ss2[p]) /\ (ss2[p].failed => bk3[p].order_state = "TraderError")
  BY <1>3 DEF Shows
<1>8. After(lp, p) \in Loops /\ Turn(After(lp, p), ss2, bk3)
  BY <1>6, <1>7, TurnTicked
<1>9. ASSUME ss2[p].failed, ss2[p].terminal, ~ ss2[p].slice_consumed, WorkingVolume(ss2[p]) = 0, Budget(ss2[p]) > 0
      PROVE  Fine(v, [lp EXCEPT !.fallback = p], up, rs, br)
  <2> DEFINE lp2 == [lp EXCEPT !.fallback = p]
  <2>1. Retried(ss2[p], bk3[p])
    BY <1>7, <1>9 DEF Retried
  <2>2. lp2 \in Loops /\ Turn(lp2, ss2, bk3)
    BY <1>5, <1>6, <2>1, TurnRetried
  <2> HIDE DEF lp2
  <2>3. Fine(v, lp2, up, rs, br)
    BY <1>3, <2>2 DEF Fine
  <2> QED BY <2>3 DEF lp2
<1>10. Fine(v, After(lp, p), up, rs, br)
  BY <1>3, <1>8 DEF Fine
<1> QED BY <1>9, <1>10

\* The session of a tick, once advance_slice_if_ready has run.
Ready(s, p, lp, n, up, dn, rs, bk, ch, ss, br) ==
  /\ s \in Session /\ Balanced(s) /\ Schedule(s)
  /\ s.terminal => s.failed
  /\ lp.phase = "start" => s.failed \/ ~ Ends(s)
  /\ Sound(n, up, dn, rs, bk, ch, [ss EXCEPT ![p] = s], br)

\* Before a session submits: it is sound, its slice is open and nothing works.
LEMMA TickReady ==
  ASSUME NEW n, NEW up, NEW dn, NEW rs, NEW bk, NEW ch, NEW ss, NEW br,
         Sound(n, up, dn, rs, bk, ch, ss, br), NEW lp, Turn(lp, ss, bk), NEW p \in lp.todo,
         NEW s, s = AdvanceSlice(ss[p])
  PROVE  Ready(s, p, lp, n, up, dn, rs, bk, ch, ss, br)
<1> DEFINE s0 == ss[p]
<1>1. p \in DOMAIN ss
  BY DEF Turn
<1>2. s0 \in Session /\ Balanced(s0) /\ Schedule(s0)
  BY <1>1, SoundSession
<1>3. s0.terminal => s0.failed
  BY <1>1 DEF Turn, Mirrored
<1>4. lp.phase = "start" => s0.failed \/ Fresh(s0)
  BY DEF Turn
<1> HIDE DEF s0
<1>5. /\ s \in Session /\ Balanced(s) /\ Schedule(s) /\ s.ledgers = s0.ledgers
      /\ s.target = s0.target /\ s.failed = s0.failed /\ s.terminal = s0.terminal
      /\ ~ s0.slice_consumed => s = s0
  BY <1>2, AdvanceSliceFacts DEF s0
<1>6. Sound(n, up, dn, rs, bk, ch, [ss EXCEPT ![p] = s], br)
  BY <1>1, <1>5, SessionChanged DEF s0
<1>7. ASSUME ~ s0.failed, Fresh(s0) PROVE ~ Ends(s)
  <2>1. s = s0
    BY <1>5, <1>7 DEF Fresh
  <2>2. WorkingVolume(s) = 0 /\ ConfirmedTraded(s) = 0
    BY <1>7, <2>1, NoLedgers DEF Fresh
  <2>3. ~ s.cancel_requested /\ s.target # 0 /\ s.target \in Nat /\ s.slice = 1 /\ (s.algo = "TWAP" => SliceCount(s.target) # 0)
    BY <1>5, <1>7, <2>1 DEF Schedule, Fresh, Session
  <2>4. SliceCount(s.target) \in Nat /\ Len(TwapSlicePlan(s.target)) = SliceCount(s.target)
    BY <2>3, SliceCountNat, PlanFacts
  <2>5. s.algo = "TWAP" => ~ SlicesDone(s)
    BY <2>3, <2>4 DEF SlicesDone
  <2>6. RemainingTarget(s) # 0
    BY <2>2, <2>3 DEF RemainingTarget, Less
  <2>7. ~ s.failed
    BY <1>5, <1>7
  <2> QED BY <2>3, <2>5, <2>6, <2>7 DEF Ends
<1> QED BY <1>3, <1>4, <1>5, <1>6, <1>7 DEF Ready

\* Nothing but the session of p has changed so far.
LEMMA OnlySession ==
  ASSUME NEW ss, NEW p, NEW s, NEW bk
  PROVE  OnlyAt(p, ss, [ss EXCEPT ![p] = s], bk, bk)
BY DEF OnlyAt

\* submit_child and the sync after it.
LEMMA SubmitFine ==
  ASSUME NEW lp \in Loops, NEW ss, NEW bk, Turn(lp, ss, bk), NEW p \in lp.todo,
         NEW n, NEW k, NEW up, NEW dn, NEW rs, NEW ch, NEW ss1, NEW br,
         Sound(n, up, dn, rs, bk, ch, ss1, br), k \in 0 .. PoolCapacity, OnlyAt(p, ss, ss1, bk, bk),
         WorkingVolume(ss1[p]) = 0, Budget(ss1[p]) > 0, ss1[p].algo = "TWAP" => ~ ss1[p].slice_consumed,
         ss1[p].terminal => ss1[p].failed, NEW volume, Takes(ss1[p], volume),
         NEW w, w = Worldly(n, k, dn, bk, ch, ss1), NEW o, o = SubmitChild(w, p, volume), NEW v, v = Synced(o.world, p)
  PROVE  /\ Fine(v, After(lp, p), up, rs, br)
         /\ ~ o.sent => Fine(v, [lp EXCEPT !.fallback = p], up, rs, br)
         /\ bk[p].volume_traded = ConfirmedTraded(ss1[p]) /\ bk[p].order_state = "TraderError" /\ o.sent =>
              Fine(o.world, After(lp, p), up, rs, br)
<1> DEFINE s == ss1[p]
           t == IF o.sent THEN SentSession(s, n, volume) ELSE FailedSession(s)
           ss2 == [ss1 EXCEPT ![p] = t]
<1>1. p \in DOMAIN ss1 /\ DOMAIN ss1 = DOMAIN ss
  BY DEF OnlyAt, Turn
<1>2. Outcome(o.world, t, n, k, dn, bk, ch, ss1, up, rs, br, p)
  BY <1>1, ChildSubmitted
<1>3. PICK k2, dn2, bk2, ch2 :
    /\ o.world = Worldly(n + 1, k2, dn2, bk2, ch2, ss2)
    /\ k2 \in 0 .. PoolCapacity
    /\ Sound(n + 1, up, dn2, rs, bk2, ch2, ss2, br)
    /\ DOMAIN bk \subseteq DOMAIN bk2
    /\ \A q \in DOMAIN bk : bk2[q] = bk[q]
  BY ONLY <1>2 DEF Outcome, ss2
<1>4. s \in Session /\ Balanced(s) /\ Schedule(s) /\ DOMAIN s.ledgers \subseteq Issued(n) /\ DOMAIN ss1 \subseteq DOMAIN bk
      /\ n \in Nat \ {0} /\ p \in DOMAIN bk
  BY <1>1, SoundSession DEF Sound, Parented, Typed
<1>5. n \notin DOMAIN s.ledgers
  BY <1>4, IssuedFacts
<1>6. /\ WorkingVolume(s) = 0 /\ Budget(s) > 0 /\ Takes(s, volume) /\ (s.algo = "TWAP" => ~ s.slice_consumed) /\ (s.terminal => s.failed)
      /\ ~ s.slice_consumed
  BY <1>4 DEF Schedule
<1> HIDE DEF s
<1>7. o.sent => /\ t.failed = s.failed /\ t.terminal = s.terminal /\ ConfirmedTraded(t) = ConfirmedTraded(s)
  <2> SUFFICES ASSUME o.sent PROVE t.failed = s.failed /\ t.terminal = s.terminal /\ ConfirmedTraded(t) = ConfirmedTraded(s)
    OBVIOUS
  <2> DEFINE u == SentSession(s, n, volume)
  <2>2. u = SentSession(s, n, volume) /\ n \in Nat /\ n \notin DOMAIN s.ledgers /\ s \in Session /\ Balanced(s) /\ Schedule(s)
    BY <1>4, <1>5
  <2> HIDE DEF u
  <2>1. /\ u.failed = s.failed /\ u.terminal = s.terminal /\ ConfirmedTraded(u) = ConfirmedTraded(s)
    <3>1. ChildSent(u, s, n, volume)
      BY ONLY <1>6, <2>2, SentSessionFacts
    <3> QED BY ONLY <3>1 DEF ChildSent
  <2> QED BY <2>1 DEF u
<1>8. ~ o.sent => /\ t.failed /\ t.terminal /\ ~ t.slice_consumed /\ WorkingVolume(t) = 0 /\ Budget(t) > 0
  <2> SUFFICES ASSUME ~ o.sent
               PROVE  t.failed /\ t.terminal /\ ~ t.slice_consumed /\ WorkingVolume(t) = 0 /\ Budget(t) > 0
    OBVIOUS
  <2> DEFINE u == [s EXCEPT !.failed = TRUE, !.terminal = TRUE]
  <2>1. t = u
    BY DEF FailedSession
  <2>3. u = [s EXCEPT !.failed = TRUE, !.terminal = TRUE] /\ TRUE \in BOOLEAN
    OBVIOUS
  <2> HIDE DEF u
  <2>2. /\ u.failed = TRUE /\ u.terminal /\ u.slice_consumed = s.slice_consumed
        /\ WorkingVolume(u) = WorkingVolume(s) /\ Budget(u) = Budget(s)
    BY ONLY <1>4, <2>3, EndedSession
  <2> HIDE DEF t
  <2> QED BY <1>6, <2>1, <2>2
<1>9. ss2[p] = t /\ OnlyAt(p, ss, ss2, bk, bk2)
  <2>1. ss2[p] = t /\ DOMAIN ss2 = DOMAIN ss1 /\ \A q \in DOMAIN ss1 \ {p} : ss2[q] = ss1[q]
    BY <1>1
  <2> HIDE DEF ss2, t
  <2> QED BY <1>1, <1>3, <1>4, <2>1 DEF OnlyAt
<1> HIDE DEF ss2, t
<1>10. ss2[p].terminal /\ ~ ss2[p].failed => lp.phase = "tick"
  BY <1>6, <1>7, <1>8, <1>9
<1>11. Fine(v, After(lp, p), up, rs, br) /\ (~ o.sent => Fine(v, [lp EXCEPT !.fallback = p], up, rs, br))
  <2> DEFINE m == n + 1
             x == o.world
  <2>1. /\ Sound(m, up, dn2, rs, bk2, ch2, ss2, br) /\ k2 \in 0 .. PoolCapacity
        /\ x = Worldly(m, k2, dn2, bk2, ch2, ss2) /\ v = Synced(x, p)
    BY <1>3
  <2>2. lp \in Loops /\ Turn(lp, ss, bk) /\ p \in lp.todo /\ OnlyAt(p, ss, ss2, bk, bk2)
    BY <1>9
  <2> HIDE DEF m, x
  <2>3. /\ Fine(v, After(lp, p), up, rs, br)
        /\ /\ ss2[p].failed /\ ss2[p].terminal /\ ~ ss2[p].slice_consumed
           /\ WorkingVolume(ss2[p]) = 0 /\ Budget(ss2[p]) > 0
           => Fine(v, [lp EXCEPT !.fallback = p], up, rs, br)
    BY ONLY <1>10, <2>1, <2>2, SyncFine
  <2> QED BY <1>8, <1>9, <2>3
<1>12. ASSUME bk[p].volume_traded = ConfirmedTraded(s), bk[p].order_state = "TraderError", o.sent
       PROVE  Fine(o.world, After(lp, p), up, rs, br)
  <2>1. bk2[p].volume_traded = ConfirmedTraded(ss2[p]) /\ bk2[p].order_state = "TraderError"
    BY <1>3, <1>4, <1>7, <1>9, <1>12
  <2>2. After(lp, p) \in Loops /\ Turn(After(lp, p), ss2, bk2)
    BY <1>9, <1>10, <2>1, TurnTicked
  <2> QED BY <1>3, <2>2 DEF Fine
<1> QED BY <1>11, <1>12 DEF s

\* refresh_parent_state never finds a cancel among the children.
LEMMA RefreshedSame ==
  ASSUME Inv, NEW p \in DOMAIN sessions
  PROVE  Refreshed(p) = sessions[p]
<1> DEFINE s == sessions[p]
           x == \E c \in Range(ChildrenOf(World, p)) : c \in DOMAIN book /\ book[c].order_type = "Cancel"
<1>1. s \in Session /\ Schedule(s)
  BY SoundSession DEF Inv
<1>2. Range(ChildrenOf(World, p)) = Kids(children, p)
  BY DEF ChildrenOf, World, Kids, Sent
<1>3. \A c \in Kids(children, p) \cap DOMAIN book : book[c].order_type = "New"
  <2>1. CASE p \in DOMAIN children
    BY <2>1 DEF Inv, Sound, Booked, ChildEntry
  <2>2. CASE p \notin DOMAIN children
    BY <2>2, KidsFacts DEF Inv, Sound, Typed
  <2> QED BY <2>1, <2>2
<1>4. x = FALSE
  BY <1>2, <1>3
<1>5. s.cancel_requested = FALSE
  BY <1>1 DEF Schedule, Session
<1>6. Refreshed(p) = [s EXCEPT !.cancel_requested = x]
  BY DEF Refreshed
<1> HIDE DEF s, x
<1> QED BY <1>1, <1>4, <1>5, <1>6 DEF Session, s

\* The state of the service as a world.
LEMMA WorldIs == World = Worldly(next_order_id, pool, downstream, book, children, sessions)
BY DEF World, Worldly

\* A step into a world that is fine keeps the invariant.
LEMMA BecomeInv ==
  ASSUME NEW v, Become(v), Fine(v, loop', upstream', responses', broker'), publication' \in Nat, requests' \in Nat
  PROVE  Inv'
<1>1. PICK n2, k2, dn2, bk2, ch2, ss2 :
    /\ v = Worldly(n2, k2, dn2, bk2, ch2, ss2)
    /\ k2 \in 0 .. PoolCapacity
    /\ Sound(n2, upstream', dn2, responses', bk2, ch2, ss2, broker')
    /\ loop' \in Loops
    /\ Turn(loop', ss2, bk2)
  BY DEF Fine
<1>2. /\ next_order_id' = n2 /\ pool' = k2 /\ downstream' = dn2 /\ book' = bk2 /\ children' = ch2 /\ sessions' = ss2
  BY <1>1 DEF Become, Worldly
<1> QED BY <1>1, <1>2 DEF Inv, Counters

\* The four ends of a tick: the session ends, nothing is to be sent, the slice waits for its
\* time, or a child is sent.
TickEnds(w, asked, s, p, active, submits) ==
  \/ Ends(s) /\ Become(Synced([w EXCEPT !.sessions[p].terminal = TRUE], p)) /\ loop' = After(loop, p)
  \/ ~ Ends(s) /\ ~ submits /\ Become(Synced(w, p)) /\ loop' = After(loop, p)
  \/ submits /\ Become(Synced(asked, p)) /\ loop' = After(loop, p)
  \/ /\ submits
     /\ \E o \in {SubmitChild(asked, p, volume) : volume \in ChildVolumes(s, active)} :
          /\ Become(Synced(o.world, p))
          /\ loop' = IF active /\ ~ o.sent /\ PassiveDue(s) THEN [loop EXCEPT !.fallback = p] ELSE After(loop, p)

\* The session after the tick has looked at the prediction.
LEMMA AskedSession ==
  ASSUME NEW n, NEW up, NEW dn, NEW rs, NEW bk, NEW ch, NEW ss, NEW br,
         Sound(n, up, dn, rs, bk, ch, ss, br), NEW p \in DOMAIN ss, NEW x \in Nat,
         NEW u, u = [ss[p] EXCEPT !.last_publication = x]
  PROVE  Alike(ss[p], u) /\ Sound(n, up, dn, rs, bk, ch, [ss EXCEPT ![p] = u], br)
<1>1. ss[p] \in Session /\ Schedule(ss[p])
  BY SoundSession
<1>2. Alike(ss[p], u)
  BY <1>1 DEF Alike, Session
<1>3. SameWork(ss[p], u)
  BY <1>2, AlikeFacts
<1>4. u \in Session /\ Schedule(u) /\ u.ledgers = ss[p].ledgers /\ u.target = ss[p].target
  BY <1>1, <1>2, <1>3 DEF Alike, SameWork
<1>5. Sound(n, up, dn, rs, bk, ch, [ss EXCEPT ![p] = u], br)
  BY <1>4, SessionChanged
<1> QED BY <1>2, <1>5

\* A tick of a session keeps the invariant (ExecutionSession::tick).
LEMMA TickStep ==
  ASSUME Inv, NEW p \in loop.todo, NEW v, Tick(p, v)
  PROVE  Inv'
<1> DEFINE s == AdvanceSlice(sessions[p])
           ss1 == [sessions EXCEPT ![p] = s]
           w == [World EXCEPT !.sessions[p] = s]
           asked == IF Evaluates(s, v) THEN [w EXCEPT !.sessions[p].last_publication = publication] ELSE w
           active == Evaluates(s, v) /\ v.hit
           submits == Submits(s) /\ PriceFound(s, v)
<1>1. /\ Sound(next_order_id, upstream, downstream, responses, book, children, sessions, broker)
      /\ Turn(loop, sessions, book) /\ loop \in Loops /\ pool \in 0 .. PoolCapacity /\ publication \in Nat /\ requests \in Nat
      /\ p \in DOMAIN sessions
  BY DEF Inv, Counters, Turn
<1>2. Refreshed(p) = sessions[p]
  BY <1>1, RefreshedSame
<1>3. Ready(s, p, loop, next_order_id, upstream, downstream, responses, book, children, sessions, broker)
  <2>1. s = AdvanceSlice(sessions[p])
    OBVIOUS
  <2> HIDE DEF s
  <2> QED BY <1>1, <2>1, TickReady
<1>4. /\ TickEnds(w, asked, s, p, active, submits)
      /\ UNCHANGED <<publication, requests, upstream, responses, broker>>
  BY <1>2 DEF Tick, TickEnds, Ticked, After
<1>5. w = Worldly(next_order_id, pool, downstream, book, children, ss1)
  <2>1. World.sessions = sessions /\ World = Worldly(next_order_id, pool, downstream, book, children, sessions)
    BY WorldIs DEF World
  <2> HIDE DEF s
  <2>2. w = [World EXCEPT !.sessions = ss1]
    BY <2>1 DEF Worldly
  <2> HIDE DEF ss1, w
  <2> QED BY ONLY <2>1, <2>2 DEF Worldly
<1>6. submits => Submits(s)
  OBVIOUS
<1>16. active => ActiveStrategy
  BY DEF Evaluates
<1> HIDE DEF s, submits, active
<1>7. ss1[p] = s /\ DOMAIN ss1 = DOMAIN sessions /\ OnlyAt(p, sessions, ss1, book, book) /\ p \in DOMAIN ss1
  BY <1>1, OnlySession
<1>8. /\ s \in Session /\ Balanced(s) /\ Schedule(s) /\ (s.terminal => s.failed)
      /\ loop.phase = "start" => s.failed \/ ~ Ends(s)
      /\ Sound(next_order_id, upstream, downstream, responses, book, children, ss1, broker)
  BY <1>3 DEF Ready
<1> DEFINE u == IF Evaluates(s, v) THEN [s EXCEPT !.last_publication = publication] ELSE s
           ssA == [ss1 EXCEPT ![p] = u]
<1>9. /\ Alike(s, u) /\ Sound(next_order_id, upstream, downstream, responses, book, children, ssA, broker)
      /\ asked = Worldly(next_order_id, pool, downstream, book, children, ssA)
  <2>1. CASE ~ Evaluates(s, v)
    <3>1. u = s /\ asked = w
      BY <2>1
    <3>2. ssA = ss1
      BY <1>7, <3>1
    <3>3. Alike(s, u)
      BY <1>8, <3>1 DEF Alike
    <3> QED BY <1>5, <1>8, <3>1, <3>2, <3>3
  <2>2. CASE Evaluates(s, v)
    <3>1. u = [s EXCEPT !.last_publication = publication] /\ asked = [w EXCEPT !.sessions[p].last_publication = publication]
      BY <2>2
    <3> HIDE DEF u, w, asked, ss1
    <3>2. Alike(s, u) /\ Sound(next_order_id, upstream, downstream, responses, book, children, ssA, broker)
      <4>1. u = [ss1[p] EXCEPT !.last_publication = publication]
        BY <1>7, <3>1
      <4>2. Alike(ss1[p], u) /\ Sound(next_order_id, upstream, downstream, responses, book, children, [ss1 EXCEPT ![p] = u], broker)
        BY <1>1, <1>7, <1>8, <4>1, AskedSession
      <4> QED BY <1>7, <4>2
    <3>3. asked = Worldly(next_order_id, pool, downstream, book, children, ssA)
      <4>1. [ss1 EXCEPT ![p].last_publication = publication] = ssA
        BY <1>7, <3>1
      <4>2. asked = [w EXCEPT !.sessions = [ss1 EXCEPT ![p].last_publication = publication]]
        BY <1>5, <3>1 DEF Worldly
      <4> HIDE DEF ssA
      <4> QED BY ONLY <1>5, <4>1, <4>2 DEF Worldly
    <3> QED BY <3>2, <3>3
  <2> QED BY <2>1, <2>2
<1>10. ssA[p] = u /\ OnlyAt(p, sessions, ssA, book, book)
  <2> HIDE DEF u
  <2> QED BY <1>7 DEF OnlyAt
<1> HIDE DEF w, asked, ss1, u, ssA
<1>11. u.failed = s.failed /\ u.terminal = s.terminal /\ u.algo = s.algo /\ u.slice_consumed = s.slice_consumed /\ SameWork(s, u)
  BY <1>9, AlikeFacts DEF Alike
<1>12. CASE Ends(s) /\ Become(Synced([w EXCEPT !.sessions[p].terminal = TRUE], p)) /\ loop' = After(loop, p)
  <2> DEFINE t == [s EXCEPT !.failed = s.failed, !.terminal = TRUE]
             ss2 == [ss1 EXCEPT ![p] = t]
             x == [w EXCEPT !.sessions[p].terminal = TRUE]
  <2>1. t = [s EXCEPT !.terminal = TRUE]
    BY <1>8 DEF Session
  <2>2. x = Worldly(next_order_id, pool, downstream, book, children, ss2)
    <3>1. [ss1 EXCEPT ![p].terminal = TRUE] = ss2
      BY <1>7, <2>1
    <3>2. x = [w EXCEPT !.sessions = [ss1 EXCEPT ![p].terminal = TRUE]]
      BY <1>5 DEF Worldly
    <3> HIDE DEF ss2, x
    <3> QED BY ONLY <1>5, <3>1, <3>2 DEF Worldly
  <2>3. t = [s EXCEPT !.failed = s.failed, !.terminal = TRUE] /\ s.failed \in BOOLEAN /\ (~ s.failed => Ends(s))
    BY <1>8, <1>12 DEF Session
  <2> HIDE DEF t, x
  <2>4. t \in Session /\ Schedule(t) /\ t.ledgers = s.ledgers /\ t.target = s.target /\ t.failed = s.failed /\ t.terminal
    <3>1. CASE s.failed = TRUE
      <4>1. t = [s EXCEPT !.failed = TRUE, !.terminal = TRUE] /\ TRUE \in BOOLEAN
        BY <2>3, <3>1
      <4> QED BY ONLY <1>8, <3>1, <4>1, EndedSession
    <3>2. CASE s.failed = FALSE
      <4>1. t = [s EXCEPT !.failed = FALSE, !.terminal = TRUE] /\ FALSE \in BOOLEAN /\ Ends(s) /\ ~ s.failed
        BY <2>3, <3>2
      <4> QED BY ONLY <1>8, <3>2, <4>1, EndedSession
    <3> QED BY <2>3, <3>1, <3>2
  <2>5. Sound(next_order_id, upstream, downstream, responses, book, children, ss2, broker)
    BY <1>7, <1>8, <2>4, SessionChanged
  <2>6. ss2[p] = t /\ OnlyAt(p, sessions, ss2, book, book)
    BY <1>7 DEF OnlyAt
  <2> HIDE DEF ss2
  <2>7. ss2[p].terminal /\ ~ ss2[p].failed => loop.phase = "tick"
    <3>1. loop.phase \in {"start", "tick"}
      BY <1>1 DEF Turn, Loops
    <3> QED BY <1>8, <1>12, <2>4, <2>6, <3>1
  <2> DEFINE y == Synced(x, p)
  <2>8. y = Synced(x, p)
    OBVIOUS
  <2> HIDE DEF y
  <2>9. Fine(y, After(loop, p), upstream, responses, broker)
    BY ONLY <1>1, <2>2, <2>5, <2>6, <2>7, <2>8, SyncFine, p \in loop.todo
  <2>10. Become(y)
    BY <1>12, <2>8 DEF x
  <2> QED BY <1>1, <1>4, <1>12, <2>9, <2>10, BecomeInv
<1>13. CASE ~ Ends(s) /\ ~ submits /\ Become(Synced(w, p)) /\ loop' = After(loop, p)
  <2> DEFINE y == Synced(w, p)
  <2>1. y = Synced(w, p) /\ (ss1[p].terminal /\ ~ ss1[p].failed => loop.phase = "tick")
    BY <1>7, <1>8
  <2> HIDE DEF y
  <2>2. Fine(y, After(loop, p), upstream, responses, broker)
    BY ONLY <1>1, <1>5, <1>7, <1>8, <2>1, SyncFine, p \in loop.todo
  <2> QED BY <1>1, <1>4, <1>13, <2>1, <2>2, BecomeInv
<1>14. CASE submits /\ Become(Synced(asked, p)) /\ loop' = After(loop, p)
  <2> DEFINE y == Synced(asked, p)
  <2>1. y = Synced(asked, p) /\ (ssA[p].terminal /\ ~ ssA[p].failed => loop.phase = "tick")
    BY <1>8, <1>10, <1>11
  <2> HIDE DEF y
  <2>2. Fine(y, After(loop, p), upstream, responses, broker)
    BY ONLY <1>1, <1>9, <1>10, <2>1, SyncFine, p \in loop.todo
  <2> QED BY <1>1, <1>4, <1>14, <2>1, <2>2, BecomeInv
<1>15. CASE /\ submits
            /\ \E o \in {SubmitChild(asked, p, volume) : volume \in ChildVolumes(s, active)} :
                 /\ Become(Synced(o.world, p))
                 /\ loop' = IF active /\ ~ o.sent /\ PassiveDue(s) THEN [loop EXCEPT !.fallback = p] ELSE After(loop, p)
  <2>7. PICK volume \in ChildVolumes(s, active) :
          /\ Become(Synced(SubmitChild(asked, p, volume).world, p))
          /\ loop' = IF active /\ ~ SubmitChild(asked, p, volume).sent /\ PassiveDue(s)
                     THEN [loop EXCEPT !.fallback = p] ELSE After(loop, p)
    BY <1>15
  <2> DEFINE o == SubmitChild(asked, p, volume)
             y == Synced(o.world, p)
  <2>1. o = SubmitChild(asked, p, volume) /\ y = Synced(o.world, p)
    OBVIOUS
  <2>2. /\ Become(y)
        /\ loop' = IF active /\ ~ o.sent /\ PassiveDue(s) THEN [loop EXCEPT !.fallback = p] ELSE After(loop, p)
    BY <2>7
  <2> HIDE DEF o, y
  <2>3. /\ WorkingVolume(s) = 0 /\ Budget(s) > 0 /\ (s.algo = "TWAP" => ~ s.slice_consumed)
    BY <1>6, <1>8, <1>15 DEF Submits, Schedule
  <2>4. /\ WorkingVolume(ssA[p]) = 0 /\ Budget(ssA[p]) > 0 /\ (ssA[p].algo = "TWAP" => ~ ssA[p].slice_consumed)
        /\ ssA[p].terminal => ssA[p].failed
        /\ Takes(ssA[p], volume)
    <3>1. Takes(s, volume)
      <4>1. Budget(s) \in Nat
        BY <1>8, BudgetNat
      <4>2. CASE active
        BY <1>16, <4>2 DEF ChildVolumes, Takes
      <4>3. CASE ~ active
        BY <2>3, <4>1, <4>3 DEF ChildVolumes, Takes
      <4> QED BY <4>2, <4>3
    <3> QED BY <1>8, <1>10, <1>11, <2>3, <3>1 DEF SameWork, Takes
  <2>5. /\ Fine(y, After(loop, p), upstream, responses, broker)
        /\ ~ o.sent => Fine(y, [loop EXCEPT !.fallback = p], upstream, responses, broker)
    BY ONLY <1>1, <1>9, <1>10, <2>1, <2>4, SubmitFine, p \in loop.todo
  <2>6. Fine(y, loop', upstream, responses, broker)
    BY <2>2, <2>5
  <2> QED BY <1>1, <1>4, <2>2, <2>6, BecomeInv
<1> QED BY <1>4, <1>12, <1>13, <1>14, <1>15 DEF TickEnds

\* The tick that falls back to the order's own price keeps the invariant.
LEMMA FallbackStep ==
  ASSUME Inv, NEW p \in loop.todo, Fallback(p)
  PROVE  Inv'
<1> DEFINE o == SubmitChild(World, p, Budget(sessions[p]))
           y == Synced(o.world, p)
<1>1. /\ Sound(next_order_id, upstream, downstream, responses, book, children, sessions, broker)
      /\ Turn(loop, sessions, book) /\ loop \in Loops /\ pool \in 0 .. PoolCapacity /\ publication \in Nat /\ requests \in Nat
      /\ p \in DOMAIN sessions
  BY DEF Inv, Counters, Turn
<1>2. p # NoOne
  <2>1. DOMAIN sessions \subseteq DOMAIN book /\ DOMAIN book \subseteq Issued(next_order_id) /\ next_order_id \in Nat \ {0}
    BY <1>1 DEF Sound, Parented, Typed
  <2> QED BY <1>1, <2>1, IssuedFacts DEF NoOne
<1>3. Retried(sessions[p], book[p])
  BY <1>1, <1>2 DEF Turn, Fallback
<1>4. /\ WorkingVolume(sessions[p]) = 0 /\ Budget(sessions[p]) > 0 /\ (sessions[p].algo = "TWAP" => ~ sessions[p].slice_consumed)
      /\ sessions[p].terminal => sessions[p].failed
      /\ book[p].volume_traded = ConfirmedTraded(sessions[p]) /\ book[p].order_state = "TraderError"
      /\ Takes(sessions[p], Budget(sessions[p]))
  <2>1. sessions[p] \in Session /\ Balanced(sessions[p]) /\ Schedule(sessions[p])
    BY <1>1, SoundSession
  <2>2. Budget(sessions[p]) \in Nat
    BY <2>1, BudgetNat
  <2> QED BY <1>3, <2>2 DEF Retried, Takes
<1>5. /\ Become(IF sessions[p].algo = "TWAP" /\ o.sent THEN o.world ELSE y)
      /\ loop' = After(loop, p)
      /\ UNCHANGED <<publication, requests, upstream, responses, broker>>
  BY DEF Fallback, Ticked, After
<1>6. World = Worldly(next_order_id, pool, downstream, book, children, sessions) /\ o = SubmitChild(World, p, Budget(sessions[p])) /\ y = Synced(o.world, p)
  BY WorldIs
<1>7. OnlyAt(p, sessions, sessions, book, book)
  BY DEF OnlyAt
<1> HIDE DEF o, y
<1>8. /\ Fine(y, After(loop, p), upstream, responses, broker)
      /\ book[p].volume_traded = ConfirmedTraded(sessions[p]) /\ book[p].order_state = "TraderError" /\ o.sent =>
           Fine(o.world, After(loop, p), upstream, responses, broker)
  BY ONLY <1>1, <1>4, <1>6, <1>7, SubmitFine, p \in loop.todo
<1> DEFINE x == IF sessions[p].algo = "TWAP" /\ o.sent THEN o.world ELSE y
<1>9. Fine(x, loop', upstream, responses, broker) /\ Become(x)
  BY <1>4, <1>5, <1>8
<1> HIDE DEF x
<1> QED BY <1>1, <1>5, <1>9, BecomeInv

-----------------------------------------------------------------------------
(* Requests.                                                                *)

\* The parts of the invariant.
LEMMA Unpacked ==
  ASSUME Inv
  PROVE  /\ Sound(next_order_id, upstream, downstream, responses, book, children, sessions, broker)
         /\ Turn(loop, sessions, book)
         /\ loop \in Loops /\ pool \in 0 .. PoolCapacity /\ publication \in Nat /\ requests \in Nat
         /\ next_order_id \in Nat \ {0} /\ upstream \in Seq(Request)
BY DEF Inv, Counters, Sound, Typed

\* A request of a client keeps the invariant.
LEMMA RequestStep ==
  ASSUME Inv, NEW q \in Request, q.id = next_order_id, q.order_type = "New" => q.volume # 0, MakeRequest(q)
  PROVE  Inv'
<1>1. /\ Sound(next_order_id, upstream, downstream, responses, book, children, sessions, broker)
      /\ Turn(loop, sessions, book) /\ loop \in Loops /\ pool \in 0 .. PoolCapacity /\ publication \in Nat /\ requests \in Nat
  BY Unpacked
<1>2. Sound(next_order_id + 1, Append(upstream, q), downstream, responses, book, children, sessions, broker)
  BY <1>1, RequestQueued
<1>3. /\ requests' = requests + 1 /\ next_order_id' = next_order_id + 1 /\ pool' = pool + 1 /\ pool < PoolCapacity
      /\ upstream' = Append(upstream, q)
      /\ UNCHANGED <<publication, downstream, responses, book, children, sessions, loop, broker>>
  BY DEF MakeRequest
<1>4. pool' \in 0 .. PoolCapacity /\ requests' \in Nat
  BY <1>1, <1>3, LimitsAssumption
<1> QED BY <1>1, <1>2, <1>3, <1>4 DEF Inv, Counters

\* The clients keep the invariant.
LEMMA ClientStep ==
  ASSUME Inv, (\E order \in Parents : SubmitParent(order)) \/ (\E orig \in CancelTargets : CancelParent(orig))
  PROVE  Inv'
<1>1. next_order_id \in Nat
  BY Unpacked
<1>2. ASSUME NEW order \in Parents, SubmitParent(order) PROVE Inv'
  <2> DEFINE q == [id |-> next_order_id, order_type |-> "New", algo |-> order.algo,
                   volume |-> order.volume, dprice |-> order.dprice, orig |-> NoOne]
  <2>1. order.algo \in PassiveExecutionAlgo /\ order.volume \in Nat \ {0} /\ order.dprice \in Nat
    BY ParentsAssumption
  <2>2. q \in Request /\ q.id = next_order_id /\ q.volume # 0
    BY <1>1, <2>1 DEF Request, OrderType, NoOne
  <2>3. MakeRequest(q)
    BY <1>2 DEF SubmitParent
  <2> HIDE DEF q
  <2> QED BY <2>2, <2>3, RequestStep
<1>3. ASSUME NEW orig \in CancelTargets, CancelParent(orig) PROVE Inv'
  <2> DEFINE q == [id |-> next_order_id, order_type |-> "Cancel", algo |-> "None",
                   volume |-> 0, dprice |-> 0, orig |-> orig]
  <2>1. orig \in Nat
    BY ParentsAssumption
  <2>2. q \in Request /\ q.id = next_order_id /\ q.order_type # "New"
    BY <1>1, <2>1 DEF Request, OrderType, PassiveExecutionAlgo
  <2>3. MakeRequest(q)
    BY <1>3 DEF CancelParent
  <2> HIDE DEF q
  <2> QED BY <2>2, <2>3, RequestStep
<1> QED BY <1>2, <1>3

\* A request refused before it is booked keeps the invariant.
LEMMA RefuseStep ==
  ASSUME Inv, RefuseRequest
  PROVE  Inv'
<1>1. /\ Sound(next_order_id, upstream, downstream, responses, book, children, sessions, broker) /\ upstream # <<>>
  BY Unpacked DEF RefuseRequest
<1>2. Sound(next_order_id, Tail(upstream), downstream, responses, book, children, sessions, broker)
  BY <1>1, RequestTaken
<1> QED BY <1>2, Unpacked DEF RefuseRequest, Inv, Counters

\* What a request that is taken brings to the book.
LEMMA TakenFacts ==
  ASSUME Inv, TakeRequest, NEW q, q = Head(upstream), NEW state \in OrderState
  PROVE  /\ q \in Request /\ q.id \notin DOMAIN book /\ q.id \notin DOMAIN children /\ upstream # <<>>
         /\ \A p \in DOMAIN children : q.id \notin Kids(children, p)
         /\ q.order_type = "New" => q.volume # 0
         /\ Cardinality(DOMAIN book) < BookCapacity
         /\ Entry("New", NoOne, NoOne, q.volume, state) \in BookEntry
<1>1. /\ Sound(next_order_id, upstream, downstream, responses, book, children, sessions, broker) /\ upstream # <<>>
  BY Unpacked DEF TakeRequest
<1>2. /\ q \in Request /\ q.id \notin DOMAIN book /\ q.id \notin DOMAIN children
      /\ \A p \in DOMAIN children : q.id \notin Kids(children, p)
      /\ q.order_type = "New" => q.volume # 0
  BY <1>1, RequestTaken
<1>3. Cardinality(DOMAIN book) < BookCapacity
  BY DEF TakeRequest, CanAdd, World
<1>4. Entry("New", NoOne, NoOne, q.volume, state) \in BookEntry
  <2>1. q.volume \in Nat
    BY <1>2 DEF Request
  <2> QED BY <2>1 DEF Entry, BookEntry, OrderType, NoOne
<1> QED BY <1>1, <1>2, <1>3, <1>4

\* A new order's entry joins the book.
LEMMA NewBooked ==
  ASSUME Inv, TakeRequest, NEW q, q = Head(upstream), NEW state \in OrderState,
         NEW bk2, bk2 = Put(book, q.id, Entry("New", NoOne, NoOne, q.volume, state))
  PROVE  /\ Sound(next_order_id, Tail(upstream), downstream, responses, bk2, children, sessions, broker)
         /\ Turn(loop, sessions, bk2)
         /\ q.id \notin DOMAIN sessions
         /\ \A p \in DOMAIN sessions : bk2[p] = book[p]
<1> DEFINE e == Entry("New", NoOne, NoOne, q.volume, state)
           id == q.id
<1>1. /\ id \notin DOMAIN book /\ upstream # <<>> /\ Cardinality(DOMAIN book) < BookCapacity /\ e \in BookEntry
  BY TakenFacts
<1>2. id = Head(upstream).id /\ bk2 = Put(book, id, e)
  OBVIOUS
<1>3. /\ Sound(next_order_id, upstream, downstream, responses, book, children, sessions, broker) /\ Turn(loop, sessions, book)
  BY Unpacked
<1> HIDE DEF e, id
<1>4. Booking(book, bk2, id, children)
  BY ONLY <1>1, <1>2, PutBooked
<1>5. Sound(next_order_id, Tail(upstream), downstream, responses, bk2, children, sessions, broker) /\ Remarked(book, bk2, sessions)
  BY ONLY <1>1, <1>2, <1>3, <1>4, RequestBooked
<1>6. Turn(loop, sessions, bk2)
  BY <1>3, <1>5, TurnRemarked
<1>7. DOMAIN sessions \subseteq DOMAIN book
  BY <1>3 DEF Sound, Parented
<1> QED BY <1>1, <1>2, <1>5, <1>6, <1>7 DEF Put, id

\* A parent that no session takes keeps the invariant.
LEMMA RejectStep ==
  ASSUME Inv, RejectParent
  PROVE  Inv'
<1> DEFINE q == Head(upstream)
           bk2 == Put(book, q.id, Entry("New", NoOne, NoOne, q.volume, "TraderRejected"))
<1>1. /\ TakeRequest /\ upstream' = Tail(upstream) /\ book' = bk2
      /\ UNCHANGED <<publication, requests, next_order_id, pool, downstream, responses, children, sessions, loop, broker>>
  BY DEF RejectParent, TakeRequest
<1>2. "TraderRejected" \in OrderState
  BY DEF OrderState
<1>3. /\ Sound(next_order_id, Tail(upstream), downstream, responses, bk2, children, sessions, broker)
      /\ Turn(loop, sessions, bk2)
  BY <1>1, <1>2, NewBooked
<1> HIDE DEF bk2
<1> QED BY <1>1, <1>3, Unpacked DEF Inv, Counters

\* A cancel keeps the invariant (handle_order_request, route_cancel).
LEMMA CancelStep ==
  ASSUME Inv, HandleCancel
  PROVE  Inv'
<1> DEFINE q == Head(upstream)
           added == AddOrder(World, q.id, Entry("Cancel", NoOne, q.orig, 0, "RiskControllerAccepted"))
           o == RouteCancel(added, q.orig, q.id)
           v == IF o.sent THEN o.world ELSE [o.world EXCEPT !.book[q.id].order_state = "TraderError"]
<1>1. /\ upstream # <<>> /\ CanAdd(World, q.id) /\ upstream' = Tail(upstream) /\ Become(v)
      /\ UNCHANGED <<publication, requests, responses, loop, broker>>
  BY DEF HandleCancel, TakeRequest
<1>2. /\ Sound(next_order_id, upstream, downstream, responses, book, children, sessions, broker)
      /\ Turn(loop, sessions, book) /\ loop \in Loops /\ pool \in 0 .. PoolCapacity /\ publication \in Nat /\ requests \in Nat
  BY Unpacked
<1>3. /\ q = Head(upstream)
      /\ added = AddOrder(World, q.id, Entry("Cancel", NoOne, q.orig, 0, "RiskControllerAccepted"))
      /\ o = RouteCancel(added, q.orig, q.id)
      /\ v = IF o.sent THEN o.world ELSE [o.world EXCEPT !.book[q.id].order_state = "TraderError"]
      /\ World = Worldly(next_order_id, pool, downstream, book, children, sessions)
  BY WorldIs
<1> HIDE DEF q, added, o, v
<1>4. CancelTaken(v, next_order_id, upstream, downstream, responses, book, children, sessions, broker)
  BY ONLY <1>1, <1>2, <1>3, CancelHandled
<1>5. PICK k2 \in 0 .. PoolCapacity : \E bk2 :
    /\ v = Worldly(next_order_id, k2, downstream, bk2, children, sessions)
    /\ Sound(next_order_id, Tail(upstream), downstream, responses, bk2, children, sessions, broker)
    /\ Remarked(book, bk2, sessions)
  BY <1>4 DEF CancelTaken
<1>6. PICK bk2 :
    /\ v = Worldly(next_order_id, k2, downstream, bk2, children, sessions)
    /\ Sound(next_order_id, Tail(upstream), downstream, responses, bk2, children, sessions, broker)
    /\ Remarked(book, bk2, sessions)
  BY <1>5
<1>7. Turn(loop, sessions, bk2)
  BY <1>2, <1>6, TurnRemarked
<1>8. /\ Sound(next_order_id, upstream', downstream, responses', bk2, children, sessions, broker')
      /\ loop' \in Loops /\ Turn(loop', sessions, bk2) /\ publication' \in Nat /\ requests' \in Nat
  BY <1>1, <1>2, <1>6, <1>7
<1>9. Fine(v, loop', upstream', responses', broker')
  BY ONLY <1>5, <1>6, <1>8 DEF Fine
<1> QED BY <1>1, <1>8, <1>9, BecomeInv

\* The session start_session registers.
LEMMA NewSessionFacts ==
  ASSUME NEW q \in Request, q.volume # 0, ~ StartRefused(q), NEW s, s = NewSession(q)
  PROVE  s \in Session /\ Schedule(s) /\ Fresh(s) /\ s.target = q.volume /\ ~ s.terminal
<1>1. /\ s.target = q.volume /\ DOMAIN s.ledgers = {} /\ s.slice = 1 /\ s.slice_consumed = FALSE
      /\ s.terminal = FALSE /\ s.failed = FALSE /\ s.cancel_requested = FALSE
  BY DEF NewSession
<1>2. q.volume \in Nat /\ q.dprice \in Nat
  BY DEF Request
<1>3. s.algo = ResolveStrategy(q.algo) /\ s.algo \in SupportedStrategies /\ Splittable(s.algo, q.volume)
  BY DEF NewSession, StartRefused
<1>4. s \in Session
  <2>1. [id \in {} |-> {}] \in Tables(Ledger)
    <3> DEFINE f == [id \in {} |-> {}]
    <3>1. DOMAIN f = {} /\ f = [x \in DOMAIN f |-> f[x]]
      OBVIOUS
    <3> HIDE DEF f
    <3>2. f \in Tables(Ledger)
      BY <3>1, TableIntro
    <3> QED BY <3>2 DEF f
  <2> DEFINE a == ResolveStrategy(q.algo)
             f == [id \in {} |-> {}]
  <2>2. a \in SupportedStrategies /\ f \in Tables(Ledger)
    BY <1>3, <2>1
  <2>3. s = [algo |-> a, target |-> q.volume, dprice |-> q.dprice, age |-> 0,
             ledgers |-> f, cancel_requested |-> FALSE, failed |-> FALSE, terminal |-> FALSE,
             slice |-> 1, slice_consumed |-> FALSE, last_publication |-> 0]
    BY DEF NewSession
  <2> HIDE DEF a, f
  <2> QED BY ONLY <1>2, <2>2, <2>3 DEF Session
<1>5. ConfirmedTraded(s) = 0 /\ WorkingVolume(s) = 0 /\ SentVolume(s) = 0 /\ CommittedVolume(s) = 0
  BY <1>1, NoLedgers
<1>6. SliceCount(s.target) \in Nat /\ (s.algo = "TWAP" => SliceCount(s.target) # 0)
  BY <1>1, <1>2, <1>3, SliceCountNat, PlanFacts DEF Splittable
<1>7. s.algo = "TWAP" => FirstSlices(s.target, Slices(s)) = 0
  <2> SUFFICES ASSUME s.algo = "TWAP" PROVE FirstSlices(s.target, Slices(s)) = 0
    OBVIOUS
  <2>1. Slices(s) = 0
    BY <1>1 DEF Slices
  <2>2. FirstSlices(s.target, 0) = 0
    BY <1>1, <1>2, <1>6, SliceSums
  <2> QED BY <2>1, <2>2
<1>8. s.slice \in 1 .. SliceCount(s.target) + 1
  BY <1>1, <1>6
<1>9. s.algo = "TWAP" => Sliced(s)
  <2>1. Cardinality(DOMAIN s.ledgers) = 0 /\ Slices(s) = 0
    BY <1>1, FS_EmptySet DEF Slices
  <2> QED BY <1>5, <1>7, <2>1 DEF Sliced
<1>10. Schedule(s)
  BY <1>1, <1>2, <1>5, <1>6, <1>8, <1>9 DEF Schedule
<1> QED BY <1>1, <1>4, <1>10 DEF Fresh

\* The start of a session keeps the invariant (ExecutionEngine::start_session).
LEMMA StartStep ==
  ASSUME Inv, StartSession
  PROVE  Inv'
<1> DEFINE q == Head(upstream)
           e == Entry("New", NoOne, NoOne, q.volume, "TraderPending")
           bk2 == Put(book, q.id, e)
           s == NewSession(q)
           ss2 == Put(sessions, q.id, s)
           lp2 == [phase |-> "start", todo |-> {q.id}, fallback |-> NoOne]
<1>1. /\ TakeRequest /\ upstream' = Tail(upstream) /\ book' = bk2 /\ sessions' = ss2 /\ loop' = lp2
      /\ loop.phase = "orders" /\ q.order_type = "New" /\ ~ StartRefused(q)
      /\ UNCHANGED <<publication, requests, next_order_id, pool, downstream, responses, children, broker>>
  BY DEF StartSession, TakeRequest
<1>2. "TraderPending" \in OrderState
  BY DEF OrderState
<1>3. /\ Sound(next_order_id, Tail(upstream), downstream, responses, bk2, children, sessions, broker)
      /\ Turn(loop, sessions, bk2)
      /\ q.id \notin DOMAIN sessions
      /\ \A p \in DOMAIN sessions : bk2[p] = book[p]
  BY <1>1, <1>2, NewBooked
<1>4. /\ q \in Request /\ q.id \notin DOMAIN book /\ q.id \notin DOMAIN children
      /\ \A p \in DOMAIN children : q.id \notin Kids(children, p)
      /\ q.volume # 0
  BY <1>1, <1>2, TakenFacts
<1>5. s \in Session /\ Schedule(s) /\ Fresh(s) /\ s.target = q.volume /\ ~ s.terminal
  BY <1>1, <1>4, NewSessionFacts
<1>6. /\ q.id \in DOMAIN bk2 /\ bk2[q.id].order_type = "New" /\ bk2[q.id].volume_entrust = q.volume
  BY DEF Put, Entry
<1> HIDE DEF bk2, s
<1> DEFINE id == q.id
           up2 == Tail(upstream)
<1>7. Sound(next_order_id, up2, downstream, responses, bk2, children, ss2, broker)
  <2>1. /\ id \in DOMAIN bk2 /\ id \notin DOMAIN children /\ id \notin DOMAIN sessions
        /\ \A p \in DOMAIN children : id \notin Kids(children, p) /\ bk2[id].order_type = "New"
        /\ bk2[id].order_type = "New"
        /\ s.target = bk2[id].volume_entrust /\ DOMAIN s.ledgers = {} /\ s \in Session /\ Schedule(s)
        /\ ss2 = Put(sessions, id, s) /\ Sound(next_order_id, up2, downstream, responses, bk2, children, sessions, broker)
    BY <1>3, <1>4, <1>5, <1>6 DEF Fresh
  <2> HIDE DEF id, up2, ss2
  <2>2. Sound(next_order_id, up2, downstream, responses, bk2, children, Put(sessions, id, s), broker)
    BY ONLY <2>1, SessionStarted
  <2> QED BY <2>1, <2>2
<1>8. DOMAIN ss2 = DOMAIN sessions \cup {q.id} /\ ss2[q.id] = s /\ \A p \in DOMAIN sessions : ss2[p] = sessions[p]
  BY <1>3 DEF Put
<1>9. lp2 \in Loops /\ lp2.phase = "start" /\ lp2.todo = {q.id} /\ lp2.fallback = NoOne
  BY <1>4 DEF Loops, Request, NoOne
<1> HIDE DEF ss2, lp2, q
<1>10. ASSUME NEW p \in DOMAIN ss2 PROVE Mirrored(p, ss2[p], lp2, bk2[p])
  <2>1. CASE p = q.id
    BY <1>5, <1>8, <1>9, <2>1 DEF Mirrored
  <2>2. CASE p # q.id
    <3>1. p \in DOMAIN sessions /\ ss2[p] = sessions[p]
      BY <1>8, <1>10, <2>2
    <3>2. Mirrored(p, sessions[p], loop, bk2[p]) /\ p \notin loop.todo
      BY <1>1, <1>3, <3>1 DEF Turn
    <3> QED BY <1>1, <1>9, <3>1, <3>2 DEF Mirrored
  <2> QED BY <2>1, <2>2
<1>11. Turn(lp2, ss2, bk2)
  BY <1>5, <1>8, <1>9, <1>10 DEF Turn
<1> QED BY <1>1, <1>7, <1>9, <1>11, Unpacked DEF Inv, Counters

-----------------------------------------------------------------------------
(* The clock, the phases of an iteration, responses, gateway and broker.    *)

\* The loop's place does not depend on the clocks.
LEMMA TurnAlike ==
  ASSUME NEW lp, NEW ss, NEW bk, Turn(lp, ss, bk), NEW ss2, DOMAIN ss2 = DOMAIN ss,
         \A p \in DOMAIN ss : Alike(ss[p], ss2[p])
  PROVE  Turn(lp, ss2, bk)
<1>1. \A p \in DOMAIN ss : SameWork(ss[p], ss2[p])
  BY AlikeFacts
<1>2. ASSUME NEW p \in DOMAIN ss2 PROVE Mirrored(p, ss2[p], lp, bk[p])
  <2>1. Mirrored(p, ss[p], lp, bk[p]) /\ SameWork(ss[p], ss2[p]) /\ Alike(ss[p], ss2[p])
    BY <1>1, <1>2 DEF Turn
  <2> QED BY <2>1 DEF Mirrored, SameWork, Alike
<1>3. lp.todo \subseteq DOMAIN ss
  BY DEF Turn
<1>4. lp.fallback # NoOne => lp.fallback \in lp.todo /\ Retried(ss2[lp.fallback], bk[lp.fallback])
  <2> SUFFICES ASSUME lp.fallback # NoOne PROVE lp.fallback \in lp.todo /\ Retried(ss2[lp.fallback], bk[lp.fallback])
    OBVIOUS
  <2> DEFINE p == lp.fallback
  <2>1. p \in lp.todo /\ Retried(ss[p], bk[p]) /\ SameWork(ss[p], ss2[p]) /\ Alike(ss[p], ss2[p])
    BY <1>1, <1>3 DEF Turn
  <2> QED BY <2>1 DEF Retried, SameWork, Alike
<1>5. lp.phase = "start" => \A p \in lp.todo : lp.todo = {p} /\ (ss2[p].failed \/ Fresh(ss2[p]))
  BY <1>3 DEF Turn, Alike, Fresh
<1> QED BY <1>2, <1>3, <1>4, <1>5 DEF Turn

\* Time keeps the invariant.
LEMMA ClockStep ==
  ASSUME Inv, TickClock
  PROVE  Inv'
<1> DEFINE aged(s) == [s EXCEPT !.age = s.age + 1]
<1>1. /\ Sound(next_order_id, upstream, downstream, responses, book, children, sessions, broker) /\ Turn(loop, sessions, book)
  BY Unpacked
<1>2. /\ DOMAIN sessions' = DOMAIN sessions
      /\ sessions' = [p \in DOMAIN sessions' |-> sessions'[p]]
      /\ \A p \in DOMAIN sessions : sessions'[p] = sessions[p] \/ sessions'[p] = aged(sessions[p])
      /\ UNCHANGED <<publication, requests, next_order_id, pool, upstream, downstream, responses, book, children, loop, broker>>
  BY DEF TickClock
<1>3. ASSUME NEW p \in DOMAIN sessions
      PROVE  /\ Alike(sessions[p], sessions'[p])
             /\ SessionTrue(p, sessions'[p], downstream, responses, broker, book, children)
  <2> DEFINE s == sessions[p]
             t == sessions'[p]
  <2>1. s \in Session /\ SessionTrue(p, s, downstream, responses, broker, book, children)
    BY <1>1, SoundSession
  <2>2. t = s \/ t = aged(s)
    BY <1>2
  <2> HIDE DEF s, t
  <2>3. Alike(s, t)
    BY <2>1, <2>2 DEF Alike, Session
  <2>4. SameWork(s, t)
    BY <2>3, AlikeFacts
  <2>5. t.ledgers = s.ledgers /\ t.target = s.target /\ ConfirmedTraded(t) = ConfirmedTraded(s) /\ (Schedule(s) => Schedule(t))
    BY <2>3, <2>4 DEF Alike, SameWork
  <2>6. SessionTrue(p, t, downstream, responses, broker, book, children)
    BY <2>1, <2>5 DEF SessionTrue, Ledgers
  <2> QED BY <2>3, <2>6 DEF s, t
<1>4. sessions' \in Tables(Session)
  <2>1. DOMAIN sessions \subseteq Nat
    BY <1>1, TableFacts DEF Sound, Typed
  <2>2. \A p \in DOMAIN sessions' : sessions'[p] \in Session
    BY <1>2, <1>3 DEF Alike
  <2> QED BY <1>2, <2>1, <2>2, TableIntro
<1> DEFINE ss2 == sessions'
<1>5. /\ ss2 \in Tables(Session) /\ DOMAIN ss2 = DOMAIN sessions
      /\ \A p \in DOMAIN sessions : Alike(sessions[p], ss2[p]) /\ SessionTrue(p, ss2[p], downstream, responses, broker, book, children)
  BY <1>2, <1>3, <1>4
<1> HIDE DEF ss2
<1>6. Sound(next_order_id, upstream, downstream, responses, book, children, ss2, broker)
  BY <1>1, <1>5, SessionsChanged
<1>7. Turn(loop, ss2, book)
  BY <1>1, <1>5, TurnAlike
<1> QED BY <1>2, <1>6, <1>7, Unpacked DEF Inv, Counters, ss2

\* A new forecast keeps the invariant.
LEMMA PublishStep ==
  ASSUME Inv, PublishPrediction
  PROVE  Inv'
BY DEF PublishPrediction, Inv, Counters

\* The end of the orders keeps the invariant.
LEMMA EndOrdersStep ==
  ASSUME Inv, EndOrders
  PROVE  Inv'
<1> DEFINE lp2 == [loop EXCEPT !.phase = "responses"]
<1>1. /\ loop' = lp2 /\ loop.phase = "orders"
      /\ UNCHANGED <<publication, requests, next_order_id, pool, upstream, downstream, responses, book, children, sessions, broker>>
  BY DEF EndOrders
<1>2. Turn(loop, sessions, book) /\ loop \in Loops
  BY Unpacked
<1>3. lp2 \in Loops /\ lp2.phase = "responses" /\ lp2.todo = loop.todo /\ lp2.fallback = loop.fallback
  BY <1>2 DEF Loops
<1> HIDE DEF lp2
<1>4. loop.todo = {} /\ loop.fallback = NoOne
  BY <1>1, <1>2 DEF Turn
<1>5. \A p \in DOMAIN sessions : Mirrored(p, sessions[p], lp2, book[p])
  BY <1>1, <1>2, <1>3 DEF Turn, Mirrored
<1>6. Turn(lp2, sessions, book)
  BY <1>3, <1>4, <1>5 DEF Turn
<1> QED BY <1>1, <1>3, <1>6 DEF Inv, Counters

\* The end of the responses keeps the invariant.
LEMMA EndResponsesStep ==
  ASSUME Inv, EndResponses
  PROVE  Inv'
<1> DEFINE lp2 == [phase |-> "tick", todo |-> DOMAIN sessions, fallback |-> NoOne]
<1>1. /\ loop' = lp2 /\ loop.phase = "responses"
      /\ UNCHANGED <<publication, requests, next_order_id, pool, upstream, downstream, responses, book, children, sessions, broker>>
  BY DEF EndResponses
<1>2. Turn(loop, sessions, book) /\ DOMAIN sessions \subseteq Nat
  BY Unpacked, TableFacts DEF Sound, Typed
<1>3. lp2 \in Loops /\ lp2.phase = "tick" /\ lp2.todo = DOMAIN sessions /\ lp2.fallback = NoOne
  BY <1>2 DEF Loops, NoOne
<1> HIDE DEF lp2
<1>4. \A p \in DOMAIN sessions : Mirrored(p, sessions[p], lp2, book[p])
  BY <1>1, <1>2, <1>3 DEF Turn, Mirrored
<1>5. Turn(lp2, sessions, book)
  BY <1>3, <1>4 DEF Turn
<1> QED BY <1>1, <1>3, <1>5 DEF Inv, Counters

\* The end of the tick, where ended sessions are removed, keeps the invariant.
LEMMA EndTickStep ==
  ASSUME Inv, EndTick
  PROVE  Inv'
<1> DEFINE D == {q \in DOMAIN sessions : ~ sessions[q].terminal}
           ss2 == [p \in D |-> sessions[p]]
           lp2 == [loop EXCEPT !.phase = "orders"]
<1>1. /\ loop' = lp2 /\ loop.phase = "tick" /\ loop.todo = {} /\ sessions' = ss2
      /\ UNCHANGED <<publication, requests, next_order_id, pool, upstream, downstream, responses, book, children, broker>>
  BY DEF EndTick
<1>2. /\ Sound(next_order_id, upstream, downstream, responses, book, children, sessions, broker)
      /\ Turn(loop, sessions, book) /\ loop \in Loops
  BY Unpacked
<1>3. \A p \in DOMAIN sessions : /\ book[p].volume_traded = ConfirmedTraded(sessions[p])
                                 /\ sessions[p].terminal /\ sessions[p].failed => book[p].order_state = "TraderError"
  BY <1>1, <1>2 DEF Turn, Mirrored
<1>4. D \subseteq DOMAIN sessions /\ \A p \in DOMAIN sessions \ D : sessions[p].terminal
  OBVIOUS
<1>5. \A p \in D : ~ sessions[p].terminal
  OBVIOUS
<1> HIDE DEF D
<1>6. Sound(next_order_id, upstream, downstream, responses, book, children, ss2, broker)
  <2>1. \A p \in DOMAIN sessions \ D :
           /\ sessions[p].terminal
           /\ sessions[p].failed => book[p].order_state = "TraderError"
           /\ book[p].volume_traded = ConfirmedTraded(sessions[p])
    BY <1>3, <1>4
  <2> QED BY <1>2, <1>4, <2>1, SessionsForgotten
<1>7. lp2 \in Loops /\ lp2.phase = "orders" /\ lp2.todo = {} /\ lp2.fallback = NoOne
  BY <1>1, <1>2 DEF Turn, Loops
<1> HIDE DEF lp2
<1>8. Turn(lp2, ss2, book)
  <2>1. DOMAIN ss2 = D /\ \A p \in D : ss2[p] = sessions[p]
    OBVIOUS
  <2> HIDE DEF ss2
  <2>2. \A p \in DOMAIN ss2 : Mirrored(p, ss2[p], lp2, book[p])
    BY <1>3, <1>4, <1>5, <1>7, <2>1 DEF Mirrored
  <2> QED BY <1>7, <2>2 DEF Turn
<1> QED BY <1>1, <1>6, <1>7, <1>8, Unpacked DEF Inv, Counters

\* A response neither ends a session nor takes back that it failed.
LEMMA HeardFlags ==
  ASSUME NEW s \in Session, NEW r, s.terminal => s.failed, NEW t, t = OnTradeResponse(s, r)
  PROVE  t.terminal => t.failed
<1> DEFINE c == r.internal_order_id
           l == s.ledgers[c]
           heard == [l EXCEPT !.traded = Smaller(l.entrust, @ + r.volume_traded), !.state = r.new_state]
           ended == [heard EXCEPT !.cancelled = IF r.new_state = "Finished"
                                                THEN FinishedCancelled(heard, r.cancelled_volume)
                                                ELSE Unresolved(heard),
                                  !.finalized = TRUE]
           f == s.failed \/ r.new_state \in FailureStates
           h1 == [s EXCEPT !.ledgers[c] = heard]
           h2 == [s EXCEPT !.ledgers[c] = ended, !.failed = f]
<1>1. t = s \/ t = h1 \/ t = AdvanceSlice(h2)
  BY DEF OnTradeResponse
<1> HIDE DEF heard, ended
<1>2. h1.terminal = s.terminal /\ h1.failed = s.failed
  BY DEF Session
<1>3. h2.terminal = s.terminal /\ h2.failed = f /\ "terminal" \in DOMAIN h2 /\ "failed" \in DOMAIN h2
  BY DEF Session
<1> HIDE DEF h1, h2
<1>4. AdvanceSlice(h2).terminal = h2.terminal /\ AdvanceSlice(h2).failed = h2.failed
  BY <1>3 DEF AdvanceSlice
<1> QED BY <1>1, <1>2, <1>3, <1>4

\* A response keeps the invariant (handle_trade_response).
LEMMA ResponseStep ==
  ASSUME Inv, HandleTradeResponse
  PROVE  Inv'
<1> DEFINE r == Head(responses)
           c == r.internal_order_id
           p == ParentOf(c)
           archived == r.new_state \in TerminalState /\ ArchiveTerminal
           D == IF archived THEN DOMAIN book \ {c} ELSE DOMAIN book
           b2 == [id \in D |-> IF id = c THEN UpdateEntry(book[c], r) ELSE book[id]]
           ss2 == IF p \in DOMAIN sessions THEN [sessions EXCEPT ![p] = OnTradeResponse(sessions[p], r)] ELSE sessions
<1>1. /\ loop.phase = "responses" /\ responses # <<>> /\ responses' = Tail(responses)
      /\ sessions' = ss2 /\ book' = b2
      /\ UNCHANGED <<publication, requests, next_order_id, pool, upstream, downstream, children, loop, broker>>
  BY DEF HandleTradeResponse
<1>2. /\ Sound(next_order_id, upstream, downstream, responses, book, children, sessions, broker)
      /\ Turn(loop, sessions, book)
  BY Unpacked
<1>3. p \in DOMAIN children /\ c \in Kids(children, p)
  <2>1. responses \in Seq(Reports)
    BY <1>2 DEF Sound, Typed
  <2>2. 1 \in DOMAIN responses /\ r = responses[1]
    BY <1>1, <2>1
  <2>3. \E q \in DOMAIN children : c \in Kids(children, q)
    BY <1>2, <2>2 DEF Sound, Belongs
  <2>4. \A q \in DOMAIN children : Kids(children, q) = Range(children[q])
    BY DEF Kids, Sent
  <2> HIDE DEF r, c
  <2> QED BY <2>3, <2>4 DEF ParentOf
<1>4. \A q \in DOMAIN sessions : sessions[q].terminal => sessions[q].failed
  BY <1>1, <1>2 DEF Turn, Mirrored
<1>5. D \in SUBSET DOMAIN book /\ DOMAIN book \ {c} \subseteq D
  OBVIOUS
<1>6. r = Head(responses) /\ c = r.internal_order_id
  OBVIOUS
<1> HIDE DEF r, c, p, D
<1>7. Sound(next_order_id, upstream, downstream, Tail(responses), b2, children, ss2, broker)
  <2>1. b2 = BookWith(book, D, c, r) /\ ss2 = SessionsWith(sessions, p, r)
    BY DEF BookWith, SessionsWith
  <2> HIDE DEF b2, ss2
  <2>3. responses # <<>>
    BY <1>1
  <2> QED BY ONLY <1>2, <1>3, <1>4, <1>5, <1>6, <2>1, <2>3, ResponseHandled
<1>8. DOMAIN ss2 = DOMAIN sessions /\ \A q \in DOMAIN sessions : ss2[q].terminal => ss2[q].failed
  <2>1. CASE p \notin DOMAIN sessions
    BY <1>4, <2>1
  <2>2. CASE p \in DOMAIN sessions
    <3> DEFINE t == OnTradeResponse(sessions[p], r)
    <3>1. sessions[p] \in Session /\ (sessions[p].terminal => sessions[p].failed)
      BY <1>2, <1>4, <2>2, SoundSession
    <3>2. t.terminal => t.failed
      BY <3>1, HeardFlags
    <3>3. ss2 = [sessions EXCEPT ![p] = t]
      BY <2>2
    <3> HIDE DEF t, ss2
    <3> QED BY <1>4, <2>2, <3>2, <3>3
  <2> QED BY <2>1, <2>2
<1> HIDE DEF b2, ss2
<1>9. loop.todo = {} /\ loop.fallback = NoOne
  BY <1>1, <1>2 DEF Turn
<1>10. \A q \in DOMAIN ss2 : Mirrored(q, ss2[q], loop, b2[q])
  BY <1>1, <1>8 DEF Mirrored
<1>11. Turn(loop, ss2, b2)
  BY <1>1, <1>9, <1>10 DEF Turn
<1> QED BY <1>1, <1>7, <1>11, Unpacked DEF Inv, Counters

\* The gateway keeps the invariant.
LEMMA GatewayStep ==
  ASSUME Inv, Gateway
  PROVE  Inv'
<1>1. Sound(next_order_id, upstream, downstream, responses, book, children, sessions, broker)
  BY Unpacked
<1>2. CASE GatewaySubmit
  <2> DEFINE b2 == Put(broker, Head(downstream),
                       [phase |-> "received", entrust |-> book[Head(downstream)].volume_entrust, filled |-> 0])
  <2>1. /\ downstream # <<>> /\ downstream' = Tail(downstream) /\ broker' = b2
        /\ UNCHANGED <<publication, requests, next_order_id, pool, upstream, responses, book, children, sessions, loop>>
    BY <1>2 DEF GatewaySubmit
  <2>2. Sound(next_order_id, upstream, Tail(downstream), responses, book, children, sessions, b2)
    BY <1>1, <2>1, GatewaySubmitted
  <2> HIDE DEF b2
  <2> QED BY <2>1, <2>2 DEF Inv, Counters
<1>3. CASE GatewayRefuse
  <2> DEFINE rs2 == Append(responses, Response(Head(downstream), "TraderError", 0, 0))
  <2>1. /\ downstream # <<>> /\ downstream' = Tail(downstream) /\ responses' = rs2
        /\ UNCHANGED <<publication, requests, next_order_id, pool, upstream, book, children, sessions, loop, broker>>
    BY <1>3 DEF GatewayRefuse
  <2>2. Sound(next_order_id, upstream, Tail(downstream), rs2, book, children, sessions, broker)
    BY <1>1, <2>1, GatewayRefused
  <2> HIDE DEF rs2
  <2> QED BY <2>1, <2>2 DEF Inv, Counters
<1> QED BY <1>2, <1>3 DEF Gateway

\* A report of the broker.
LEMMA ReportStep ==
  ASSUME Inv, NEW c \in DOMAIN broker, broker[c].phase # "done",
         NEW r \in Reports, r.internal_order_id = c,
         NEW o \in BrokerOrder, o.entrust = broker[c].entrust, o.filled = broker[c].filled + r.volume_traded,
         o.filled <= o.entrust, o.phase # "received",
         r.new_state \in TerminalState <=> o.phase = "done",
         r.new_state = "MarketAccepted" <=> r.volume_traded # 0,
         r.new_state = "BrokerAccepted" => broker[c].phase = "received",
         BrokerReport(c, r, o)
  PROVE  Inv'
<1>1. Sound(next_order_id, upstream, downstream, responses, book, children, sessions, broker)
  BY Unpacked
<1>2. Sound(next_order_id, upstream, downstream, Append(responses, r), book, children, sessions, [broker EXCEPT ![c] = o])
  BY <1>1, BrokerStep
<1>3. /\ responses' = Append(responses, r) /\ broker' = [broker EXCEPT ![c] = o]
      /\ UNCHANGED <<publication, requests, next_order_id, pool, upstream, downstream, book, children, sessions, loop>>
  BY DEF BrokerReport
<1> QED BY <1>2, <1>3 DEF Inv, Counters

\* The broker keeps the invariant.
LEMMA BrokersStep ==
  ASSUME Inv, NEW id \in DOMAIN broker, Broker(id)
  PROVE  Inv'
<1>1. Sound(next_order_id, upstream, downstream, responses, book, children, sessions, broker)
  BY Unpacked
<1>2. broker[id] \in BrokerOrder /\ id \in Nat /\ broker[id].filled <= broker[id].entrust
      /\ (broker[id].phase = "received" => broker[id].filled = 0)
  BY <1>1, TableFacts DEF Sound, Typed, AtBroker
<1>3. broker[id].entrust \in Nat /\ broker[id].filled \in Nat
  BY <1>2 DEF BrokerOrder
<1>4. CASE BrokerAccept(id)
  <2> DEFINE r == Response(id, "BrokerAccepted", 0, 0)
             o == [broker[id] EXCEPT !.phase = "working"]
  <2>1. broker[id].phase = "received" /\ BrokerReport(id, r, o)
    BY <1>4 DEF BrokerAccept
  <2>2. r \in Reports /\ r.internal_order_id = id /\ r.volume_traded = 0 /\ r.new_state = "BrokerAccepted"
    BY <1>2 DEF Response, Reports
  <2>3. o \in BrokerOrder /\ o.entrust = broker[id].entrust /\ o.filled = broker[id].filled /\ o.phase = "working"
    BY <1>2 DEF BrokerOrder
  <2> HIDE DEF r, o
  <2>4. /\ o.filled = broker[id].filled + r.volume_traded /\ o.filled <= o.entrust /\ o.phase # "received" /\ broker[id].phase # "done"
        /\ r.new_state \notin TerminalState /\ o.phase # "done" /\ r.new_state # "MarketAccepted"
    BY <1>2, <1>3, <2>1, <2>2, <2>3 DEF TerminalState
  <2> QED BY <2>1, <2>2, <2>3, <2>4, ReportStep
<1>5. CASE BrokerReject(id)
  <2> DEFINE r == Response(id, "BrokerRejected", 0, 0)
             o == [broker[id] EXCEPT !.phase = "done"]
  <2>1. broker[id].phase = "received" /\ BrokerReport(id, r, o)
    BY <1>5 DEF BrokerReject
  <2>2. r \in Reports /\ r.internal_order_id = id /\ r.volume_traded = 0 /\ r.new_state = "BrokerRejected"
    BY <1>2 DEF Response, Reports
  <2>3. o \in BrokerOrder /\ o.entrust = broker[id].entrust /\ o.filled = broker[id].filled /\ o.phase = "done"
    BY <1>2 DEF BrokerOrder
  <2> HIDE DEF r, o
  <2>4. /\ o.filled = broker[id].filled + r.volume_traded /\ o.filled <= o.entrust /\ o.phase # "received" /\ broker[id].phase # "done"
        /\ r.new_state \in TerminalState /\ r.new_state # "MarketAccepted" /\ r.new_state # "BrokerAccepted"
    BY <1>2, <1>3, <2>1, <2>2, <2>3 DEF TerminalState
  <2> QED BY <2>1, <2>2, <2>3, <2>4, ReportStep
<1>6. ASSUME NEW volume \in 1 .. broker[id].entrust - broker[id].filled, BrokerTrade(id, volume) PROVE Inv'
  <2> DEFINE r == Response(id, "MarketAccepted", volume, 0)
             o == [broker[id] EXCEPT !.filled = broker[id].filled + volume]
  <2>1. broker[id].phase = "working" /\ BrokerReport(id, r, o)
    BY <1>6 DEF BrokerTrade
  <2>2. volume \in Nat /\ volume # 0 /\ broker[id].filled + volume \in Nat /\ broker[id].filled + volume <= broker[id].entrust
    BY <1>3, <1>6
  <2>3. r \in Reports /\ r.internal_order_id = id /\ r.volume_traded = volume /\ r.new_state = "MarketAccepted"
    BY <1>2, <2>2 DEF Response, Reports
  <2>4. o \in BrokerOrder /\ o.entrust = broker[id].entrust /\ o.filled = broker[id].filled + volume /\ o.phase = "working"
    BY <1>2, <2>1, <2>2 DEF BrokerOrder
  <2> HIDE DEF r, o
  <2>5. /\ o.filled = broker[id].filled + r.volume_traded /\ o.filled <= o.entrust /\ o.phase # "received" /\ broker[id].phase # "done"
        /\ r.new_state \notin TerminalState /\ o.phase # "done" /\ r.volume_traded # 0 /\ r.new_state # "BrokerAccepted"
    BY <1>2, <1>3, <2>1, <2>2, <2>3, <2>4 DEF TerminalState
  <2> QED BY <2>1, <2>3, <2>4, <2>5, ReportStep
<1>7. ASSUME NEW states \in BOOLEAN, BrokerFinish(id, states) PROVE Inv'
  <2> DEFINE x == IF states THEN broker[id].entrust - broker[id].filled ELSE 0
             r == Response(id, "Finished", 0, x)
             o == [broker[id] EXCEPT !.phase = "done"]
  <2>1. broker[id].phase = "working" /\ BrokerReport(id, r, o)
    BY <1>7 DEF BrokerFinish
  <2>2. x \in Nat
    BY <1>2, <1>3
  <2> HIDE DEF x
  <2>3. r \in Reports /\ r.internal_order_id = id /\ r.volume_traded = 0 /\ r.new_state = "Finished"
    BY <1>2, <2>2 DEF Response, Reports
  <2>4. o \in BrokerOrder /\ o.entrust = broker[id].entrust /\ o.filled = broker[id].filled /\ o.phase = "done"
    BY <1>2 DEF BrokerOrder
  <2> HIDE DEF r, o
  <2>5. /\ o.filled = broker[id].filled + r.volume_traded /\ o.filled <= o.entrust /\ o.phase # "received" /\ broker[id].phase # "done"
        /\ r.new_state \in TerminalState /\ r.new_state # "MarketAccepted" /\ r.new_state # "BrokerAccepted"
    BY <1>2, <1>3, <2>1, <2>3, <2>4 DEF TerminalState
  <2> QED BY <2>1, <2>3, <2>4, <2>5, ReportStep
<1> QED BY <1>4, <1>5, <1>6, <1>7 DEF Broker

-----------------------------------------------------------------------------
(* The invariant, from the first state on.                                  *)

\* The invariant holds at the start.
LEMMA InvInit ==
  ASSUME Init
  PROVE  Inv
<1> DEFINE f == [id \in {} |-> {}]
<1>1. DOMAIN f = {} /\ f = [x \in DOMAIN f |-> f[x]]
  OBVIOUS
<1>2. /\ next_order_id = 1 /\ upstream = <<>> /\ downstream = <<>> /\ responses = <<>>
      /\ book = f /\ children = f /\ sessions = f /\ broker = f
      /\ publication = 0 /\ requests = 0 /\ pool = 0 /\ loop = [phase |-> "orders", todo |-> {}, fallback |-> NoOne]
  BY DEF Init
<1> HIDE DEF f
<1>3. ASSUME NEW S PROVE f \in Tables(S)
  BY <1>1, TableIntro
<1>4. Typed(next_order_id, upstream, downstream, responses, book, children, sessions, broker)
  BY <1>2, <1>3 DEF Typed, Lineages
<1>5. Bounded(downstream, book)
  <2>1. Cardinality(DOMAIN book) = 0
    BY <1>1, <1>2, FS_EmptySet
  <2> QED BY <1>2, <2>1, LimitsAssumption DEF Bounded
<1>6. DOMAIN upstream = {} /\ DOMAIN downstream = {} /\ DOMAIN responses = {} /\ Range(downstream) = {}
  BY <1>2 DEF Range
<1>7. /\ DOMAIN book = {} /\ DOMAIN children = {} /\ DOMAIN sessions = {} /\ DOMAIN broker = {}
  BY <1>1, <1>2
<1>8. Families(next_order_id, children) /\ Waiters(next_order_id, upstream, book, children) /\ Parented(next_order_id, book, children, sessions)
  BY <1>6, <1>7 DEF Families, Waiters, Parented
<1>9. Belongs(downstream, responses, broker, children) /\ Reported(responses, broker) /\ AtBroker(responses, broker)
      /\ OnItsWay(downstream, responses, broker, book)
  BY <1>6, <1>7 DEF Belongs, Reported, AtBroker, OnItsWay
<1>10. /\ Booked(responses, broker, book, children) /\ OneLive(book, children)
       /\ Worked(downstream, responses, broker, book, children, sessions)
       /\ Ended(downstream, responses, broker, book, children, sessions)
  BY <1>7 DEF Booked, OneLive, Worked, Ended
<1>11. Turn(loop, sessions, book)
  BY <1>2, <1>7 DEF Turn
<1>12. Counters
  BY <1>2, LimitsAssumption DEF Counters, Loops, NoOne
<1> QED BY <1>4, <1>5, <1>8, <1>9, <1>10, <1>11, <1>12 DEF Inv, Sound

\* Every step keeps the invariant.
LEMMA InvNext ==
  ASSUME Inv, [Next]_vars
  PROVE  Inv'
<1>1. CASE UNCHANGED vars
  BY <1>1 DEF vars, Inv, Counters
<1>2. CASE (\E order \in Parents : SubmitParent(order)) \/ (\E orig \in CancelTargets : CancelParent(orig))
  BY <1>2, ClientStep
<1>3. CASE TickClock \/ PublishPrediction
  BY <1>3, ClockStep, PublishStep
<1>4. CASE HandleOrders
  BY <1>4, RefuseStep, RejectStep, StartStep, CancelStep, EndOrdersStep DEF HandleOrders
<1>5. CASE HandleResponses
  BY <1>5, ResponseStep, EndResponsesStep DEF HandleResponses
<1>6. CASE TickSessions
  BY <1>6, TickStep, FallbackStep, EndTickStep DEF TickSessions
<1>7. CASE Gateway
  BY <1>7, GatewayStep
<1>8. CASE \E id \in DOMAIN broker : Broker(id)
  BY <1>8, BrokersStep
<1> QED BY <1>1, <1>2, <1>3, <1>4, <1>5, <1>6, <1>7, <1>8 DEF Next, Loop

\* The invariant holds in every state.
LEMMA InvAlways == Spec => []Inv
BY InvInit, InvNext, PTL DEF Spec

-----------------------------------------------------------------------------
(* What it means.                                                           *)

\* The invariant bounds what is sent.
LEMMA InvBudget == Inv => NeverOverfilled
<1> SUFFICES ASSUME Inv, NEW p \in ManagedParents
             PROVE  SumFunction([c \in NewChildren(p) |-> Exposure(c)]) <= Target(p)
  BY DEF NeverOverfilled
<1>1. Sound(next_order_id, upstream, downstream, responses, book, children, sessions, broker)
  BY Unpacked
<1>2. Range(ChildrenOf(World, p)) = Kids(children, p)
  BY DEF ChildrenOf, World, Kids, Sent
<1>3. NewChildren(p) = SentOut(Kids(children, p), downstream, broker)
  BY <1>2 DEF NewChildren, SentOut
<1>4. \A c \in NewChildren(p) : Exposure(c) = ExposureOf(c, broker, book)
  BY DEF Exposure, ExposureOf
<1>5. [c \in NewChildren(p) |-> Exposure(c)] = [c \in SentOut(Kids(children, p), downstream, broker) |-> ExposureOf(c, broker, book)]
  BY <1>3, <1>4
<1>6. SumFunction([c \in NewChildren(p) |-> Exposure(c)]) = ExposureSum(Kids(children, p), downstream, broker, book)
  BY <1>5 DEF ExposureSum
<1>7. ExposureSum(Kids(children, p), downstream, broker, book) <= book[p].volume_entrust
  <2>1. CASE p \in DOMAIN sessions
    BY <1>1, <2>1, ExposureBound
  <2>2. CASE p \notin DOMAIN sessions
    BY <1>1, <2>2 DEF ManagedParents, Sound, Ended, Over
  <2> QED BY <2>1, <2>2
<1> QED BY <1>6, <1>7 DEF Target

\* The invariant makes the mirror exact.
LEMMA InvMirror == Inv => ParentMirrorsChildren
<1> SUFFICES ASSUME Inv, loop.phase = "orders", NEW p \in ManagedParents, book[p].order_state # "TraderError"
             PROVE  MirrorIsExact(p)
  BY DEF ParentMirrorsChildren
<1>1. Sound(next_order_id, upstream, downstream, responses, book, children, sessions, broker) /\ Turn(loop, sessions, book)
  BY Unpacked
<1>2. Range(ChildrenOf(World, p)) = Kids(children, p)
  BY DEF ChildrenOf, World, Kids, Sent
<1>3. Handled(p) = HandledOf(Kids(children, p), responses, broker)
  BY <1>2 DEF Handled, HandledOf
<1>4. book[p].volume_traded = HandledOf(Kids(children, p), responses, broker)
  <2>1. CASE p \in DOMAIN sessions
    <3>1. Mirrored(p, sessions[p], loop, book[p]) /\ loop.todo = {}
      BY <1>1, <2>1 DEF Turn
    <3>2. SessionTrue(p, sessions[p], downstream, responses, broker, book, children)
      BY <1>1, <2>1, SoundSession
    <3> QED BY <3>1, <3>2 DEF Mirrored, SessionTrue
  <2>2. CASE p \notin DOMAIN sessions
    BY <1>1, <2>2 DEF ManagedParents, Sound, Ended, Over
  <2> QED BY <2>1, <2>2
<1> QED BY <1>3, <1>4 DEF MirrorIsExact

\* The invariant makes the sessions sound.
LEMMA InvSession == Inv => SessionInvariant
<1> SUFFICES ASSUME Inv PROVE SessionInvariant
  OBVIOUS
<1>1. /\ Sound(next_order_id, upstream, downstream, responses, book, children, sessions, broker)
      /\ Turn(loop, sessions, book) /\ loop \in Loops /\ pool \in 0 .. PoolCapacity
  BY Unpacked
<1>2. ASSUME NEW p \in DOMAIN sessions
      PROVE  /\ DOMAIN sessions[p].ledgers \subseteq Range(ChildrenOf(World, p))
             /\ \A c \in DOMAIN sessions[p].ledgers :
                  sessions[p].ledgers[c].traded + sessions[p].ledgers[c].cancelled <= sessions[p].ledgers[c].entrust
             /\ sessions[p].terminal /\ ~ sessions[p].failed => FullyWorked(sessions[p])
  <2>1. Balanced(sessions[p]) /\ Schedule(sessions[p]) /\ DOMAIN sessions[p].ledgers \subseteq Kids(children, p)
    BY <1>1, SoundSession
  <2>2. Range(ChildrenOf(World, p)) = Kids(children, p)
    BY DEF ChildrenOf, World, Kids, Sent
  <2> QED BY <2>1, <2>2 DEF Balanced, Schedule
<1>3. FinishedMeansWorkedOff
  BY <1>2 DEF FinishedMeansWorkedOff
<1>4. /\ loop.phase \in {"orders", "responses", "start", "tick"} /\ loop.todo \subseteq DOMAIN sessions
      /\ loop.fallback \in loop.todo \cup {NoOne}
  BY <1>1 DEF Turn, Loops
<1>5. DOMAIN sessions \subseteq DOMAIN book /\ Cardinality(DOMAIN book) <= BookCapacity /\ Len(downstream) <= DownstreamBound
  BY <1>1 DEF Sound, Parented, Bounded
<1>6. TypeOK
  BY <1>1, <1>2, <1>4, <1>5 DEF TypeOK
<1> QED BY <1>3, <1>6 DEF SessionInvariant

\* For any orders, any split configuration, any capacities and any interleaving of the loop
\* with the gateway and the broker, what a managed parent has at the broker or on the way there
\* never adds up to more than its client asked for (the budget of execution_engine.cpp).
THEOREM BudgetsHold == Spec => []NeverOverfilled
BY InvAlways, InvBudget, PTL

\* Between two iterations the entry of every managed parent that has not failed shows exactly
\* the fills of its children that the loop has handled (sync_parent_view and
\* OrderBook::sync_managed_parent_view).
THEOREM MirrorsAreExact == Spec => []ParentMirrorsChildren
BY InvAlways, InvMirror, PTL

\* The engine's state is well formed, and a session that ends as Finished has been cancelled
\* or worked off: a clip algorithm has filled its target, a TWAP has sent one child for every
\* slice of its plan, and without an active strategy all of its target
\* (ExecutionSession::derive_execution_state).
THEOREM SessionsAreSound == Spec => []SessionInvariant
BY InvAlways, InvSession, PTL
=============================================================================
