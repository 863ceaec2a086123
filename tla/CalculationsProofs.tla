-------------------------- MODULE CalculationsProofs --------------------------
(***************************************************************************)
(* The calculations, for every question of a kind the program can put.     *)
(***************************************************************************)
EXTENDS Calculations, FiniteSetTheorems, TLAPS

-----------------------------------------------------------------------------
(* Focus hours *)

\* Whatever is stored for it, a time is a minute of the day.
LEMMA TimeOfDay ==
  ASSUME NEW text \in S!Texts, NEW h \in Int, NEW m \in Int,
         0 <= h, h <= 23, 0 <= m, m <= 59
  PROVE  /\ S!Minutes(S!ParseTime(text, <<h, m>>)) \in Int
         /\ 0 <= S!Minutes(S!ParseTime(text, <<h, m>>))
         /\ S!Minutes(S!ParseTime(text, <<h, m>>)) <= 1439
<1>1. CASE text # Junk /\ text[1] \in 0..23 /\ text[2] \in 0..59
  BY <1>1 DEF S!ParseTime, S!Minutes
<1>2. CASE ~(text # Junk /\ text[1] \in 0..23 /\ text[2] \in 0..59)
  BY <1>2 DEF S!ParseTime, S!Minutes
<1> QED BY <1>1, <1>2

LEMMA WindowTimes ==
  ASSUME NEW cfg \in S!Configs
  PROVE  /\ S!Start(cfg) \in Int /\ 0 <= S!Start(cfg) /\ S!Start(cfg) <= 1439
         /\ S!End(cfg) \in Int /\ 0 <= S!End(cfg) /\ S!End(cfg) <= 1439
<1>1. cfg.start \in S!Texts /\ cfg.end \in S!Texts
  BY DEF S!Configs
<1>2. /\ S!Minutes(S!ParseTime(cfg.start, <<9, 0>>)) \in Int
      /\ 0 <= S!Minutes(S!ParseTime(cfg.start, <<9, 0>>))
      /\ S!Minutes(S!ParseTime(cfg.start, <<9, 0>>)) <= 1439
  BY <1>1, TimeOfDay
<1>3. /\ S!Minutes(S!ParseTime(cfg.end, <<17, 0>>)) \in Int
      /\ 0 <= S!Minutes(S!ParseTime(cfg.end, <<17, 0>>))
      /\ S!Minutes(S!ParseTime(cfg.end, <<17, 0>>)) <= 1439
  BY <1>1, TimeOfDay
<1> QED BY <1>2, <1>3 DEF S!Start, S!End, S!DefaultStart, S!DefaultEnd

\* The day before, as the code and as the reference count it.
LEMMA DayBefore ==
  ASSUME NEW weekday \in S!Weekdays
  PROVE  /\ (weekday - 1) % 7 \in S!Weekdays
         /\ \A day \in S!Weekdays : weekday = S!Tomorrow(day) <=> day = (weekday - 1) % 7
BY DEF S!Weekdays, S!Tomorrow

\* The condition of is_active() is that a window which opened today or yesterday is
\* still open.
THEOREM ActiveIsWindow ==
  ASSUME NEW cfg \in S!Configs, NEW now \in S!Moments
  PROVE  S!IsActive(cfg, now) <=> S!InWindow(cfg, now)
<1>1. /\ S!Start(cfg) \in Int /\ 0 <= S!Start(cfg) /\ S!Start(cfg) <= 1439
      /\ S!End(cfg) \in Int /\ 0 <= S!End(cfg) /\ S!End(cfg) <= 1439
  BY WindowTimes
<1>2. now.weekday \in S!Weekdays /\ now.minute \in Int /\ 0 <= now.minute /\ now.minute <= 1439
  BY DEF S!Moments
<1>3. PICK yesterday \in S!Weekdays :
        /\ yesterday = (now.weekday - 1) % 7
        /\ \A day \in S!Weekdays : now.weekday = S!Tomorrow(day) <=> day = yesterday
  BY <1>2, DayBefore
<1>4. (\E day \in S!Weekdays \cap cfg.days : S!OpenSince(cfg, day, now)) <=>
        \/ now.weekday \in cfg.days /\ now.minute - S!Start(cfg) \in 0..S!Length(cfg) - 1
        \/ yesterday \in cfg.days /\ now.minute + 1440 - S!Start(cfg) \in 0..S!Length(cfg) - 1
  <2> DEFINE SinceToday == now.minute - S!Start(cfg) \in 0..S!Length(cfg) - 1
             SinceYesterday == now.minute + 1440 - S!Start(cfg) \in 0..S!Length(cfg) - 1
  <2>1. \A day \in S!Weekdays :
          S!OpenSince(cfg, day, now) <=>
            \/ now.weekday = day /\ SinceToday
            \/ now.weekday = S!Tomorrow(day) /\ SinceYesterday
    BY DEF S!OpenSince
  <2> HIDE DEF SinceToday, SinceYesterday
  <2>2. (\E day \in S!Weekdays \cap cfg.days : S!OpenSince(cfg, day, now)) <=>
          (now.weekday \in cfg.days /\ SinceToday) \/ (yesterday \in cfg.days /\ SinceYesterday)
    <3>1. ASSUME NEW day \in S!Weekdays \cap cfg.days, S!OpenSince(cfg, day, now)
          PROVE  (now.weekday \in cfg.days /\ SinceToday) \/ (yesterday \in cfg.days /\ SinceYesterday)
      BY <1>3, <2>1, <3>1
    <3>2. ASSUME now.weekday \in cfg.days, SinceToday
          PROVE  \E day \in S!Weekdays \cap cfg.days : S!OpenSince(cfg, day, now)
      <4>1. S!OpenSince(cfg, now.weekday, now)
        BY <1>2, <2>1, <3>2
      <4> QED BY <1>2, <3>2, <4>1
    <3>3. ASSUME yesterday \in cfg.days, SinceYesterday
          PROVE  \E day \in S!Weekdays \cap cfg.days : S!OpenSince(cfg, day, now)
      <4>1. S!OpenSince(cfg, yesterday, now)
        BY <1>3, <2>1, <3>3
      <4> QED BY <3>3, <4>1
    <3> QED BY <3>1, <3>2, <3>3, Zenon
  <2> QED BY <2>2 DEF SinceToday, SinceYesterday
<1>5. CASE S!Start(cfg) < S!End(cfg)
  <2>1. S!Length(cfg) = S!End(cfg) - S!Start(cfg)
    BY <1>1, <1>5 DEF S!Length
  <2>2. now.minute - S!Start(cfg) \in 0..S!Length(cfg) - 1
          <=> S!Start(cfg) <= now.minute /\ now.minute < S!End(cfg)
    BY <1>1, <1>2, <2>1
  <2>3. ~(now.minute + 1440 - S!Start(cfg) \in 0..S!Length(cfg) - 1)
    BY <1>1, <1>2, <2>1
  <2> QED BY <1>1, <1>4, <1>5, <2>2, <2>3 DEF S!IsActive, S!InWindow
<1>6. CASE S!Start(cfg) > S!End(cfg)
  <2>1. S!Length(cfg) = S!End(cfg) - S!Start(cfg) + 1440
    BY <1>1, <1>6 DEF S!Length
  <2>2. now.minute - S!Start(cfg) \in 0..S!Length(cfg) - 1 <=> now.minute >= S!Start(cfg)
    BY <1>1, <1>2, <1>6, <2>1
  <2>3. now.minute + 1440 - S!Start(cfg) \in 0..S!Length(cfg) - 1 <=> now.minute < S!End(cfg)
    BY <1>1, <1>2, <1>6, <2>1
  <2> QED BY <1>1, <1>3, <1>4, <1>6, <2>2, <2>3 DEF S!IsActive, S!InWindow
<1>7. CASE S!Start(cfg) = S!End(cfg)
  <2>1. S!Length(cfg) = 0
    BY <1>1, <1>7 DEF S!Length
  <2> QED BY <1>1, <1>2, <1>4, <1>7, <2>1 DEF S!IsActive, S!InWindow
<1> QED BY <1>1, <1>5, <1>6, <1>7

\* A limit of its own is never loosened, an app without one never gets one, and a limit
\* differs from the app's own only inside the window, where none is looser than the cap.
THEOREM FocusOnlyTightens ==
  ASSUME NEW own \in Int, NEW cfg \in S!Configs, NEW now \in S!Moments
  PROVE  S!Tightens(own, cfg, now)
<1>1. S!IsActive(cfg, now) <=> S!InWindow(cfg, now)
  BY ActiveIsWindow
<1>2. cfg.limit = Junk \/ cfg.limit \in Int
  BY DEF S!Configs
<1>3. CASE own <= 0
  <2>1. S!EffectiveLimit(own, cfg, now) = 0
    BY <1>3 DEF S!EffectiveLimit
  <2> QED BY <1>3, <2>1 DEF S!Tightens
<1>4. CASE own > 0 /\ (~S!IsActive(cfg, now) \/ cfg.limit = Junk)
  <2>1. S!EffectiveLimit(own, cfg, now) = own
    BY <1>4 DEF S!EffectiveLimit
  <2> QED BY <1>1, <1>4, <2>1 DEF S!Tightens
<1>5. CASE own > 0 /\ S!IsActive(cfg, now) /\ cfg.limit # Junk
  <2>1. PICK limit \in Int : /\ limit = S!EffectiveLimit(own, cfg, now)
                             /\ limit # 0 /\ limit <= own /\ limit >= -1
                             /\ IF cfg.limit <= 0 THEN limit = -1 ELSE limit <= cfg.limit
    BY <1>2, <1>5 DEF S!EffectiveLimit
  <2> QED BY <1>1, <1>5, <2>1 DEF S!Tightens
<1> QED BY <1>3, <1>4, <1>5

-----------------------------------------------------------------------------
(* Sums over finite sets *)

LEMMA SmallestSubset ==
  ASSUME NEW U, IsFiniteSet(U), NEW T \in SUBSET SUBSET U, T # {}
  PROVE  \E A \in T : \A B \in SUBSET A : B # A => B \notin T
<1>1. IsWellFoundedOn(StrictSubsetOrdering(U), SUBSET U)
  BY FS_StrictSubsetOrderingWellFounded, FS_FiniteSubsetsOfFinite
<1>2. PICK A \in T : \A B \in T : <<B, A>> \notin StrictSubsetOrdering(U)
  BY <1>1, WFMin
<1>3. ASSUME NEW B \in SUBSET A, B # A PROVE B \notin T
  BY <1>2, <1>3 DEF StrictSubsetOrdering
<1>4. QED BY <1>3

Pick(s) == CHOOSE x \in s : TRUE
IsSum(g, f, A) ==
  g = [s \in SUBSET A |-> IF s = {} THEN 0 ELSE f[Pick(s)] + g[s \ {Pick(s)}]]

LEMMA PickIs == ASSUME NEW s, s # {} PROVE Pick(s) \in s
  BY DEF Pick

LEMMA SumUnique ==
  ASSUME NEW U, IsFiniteSet(U), NEW f, NEW A \in SUBSET U, NEW B \in SUBSET U,
         NEW g, NEW h, IsSum(g, f, A), IsSum(h, f, B),
         NEW x \in SUBSET (A \cap B)
  PROVE  g[x] = h[x]
<1> DEFINE T == {y \in SUBSET (A \cap B) : g[y] # h[y]}
<1> SUFFICES ASSUME T # {} PROVE FALSE
  OBVIOUS
<1>1. PICK y \in T : \A z \in SUBSET y : z # y => z \notin T
  <2>1. T \in SUBSET SUBSET U
    OBVIOUS
  <2> HIDE DEF T
  <2>2. QED BY <2>1, SmallestSubset
<1>2. y # {}
  BY <1>1 DEF IsSum
<1>3. /\ Pick(y) \in y /\ y \ {Pick(y)} \in SUBSET y /\ y \ {Pick(y)} # y
  BY <1>2, PickIs
<1>4. g[y \ {Pick(y)}] = h[y \ {Pick(y)}]
  BY <1>1, <1>3
<1>5. g[y] = f[Pick(y)] + g[y \ {Pick(y)}]
  <2>1. y \in SUBSET A
    BY <1>1
  <2>2. QED BY <1>2, <2>1 DEF IsSum
<1>6. h[y] = f[Pick(y)] + h[y \ {Pick(y)}]
  <2>1. y \in SUBSET B
    BY <1>1
  <2>2. QED BY <1>2, <2>1 DEF IsSum
<1>7. QED BY <1>1, <1>4, <1>5, <1>6

LEMMA SumExists ==
  ASSUME NEW U, IsFiniteSet(U), NEW f
  PROVE  \A A \in SUBSET U : \E g : IsSum(g, f, A)
<1> DEFINE T == {A \in SUBSET U : ~ \E g : IsSum(g, f, A)}
<1> SUFFICES ASSUME T # {} PROVE FALSE
  OBVIOUS
<1>1. PICK A \in T : \A B \in SUBSET A : B # A => B \notin T
  <2>1. T \in SUBSET SUBSET U
    OBVIOUS
  <2> HIDE DEF T
  <2>2. QED BY <2>1, SmallestSubset
<1> DEFINE G(B) == CHOOSE g : IsSum(g, f, B)
           sub(s) == s \ {Pick(s)}
           g == [s \in SUBSET A |-> IF s = {} THEN 0 ELSE f[Pick(s)] + G(sub(s))[sub(s)]]
<1>2. ASSUME NEW B \in SUBSET A, B # A PROVE IsSum(G(B), f, B)
  <2>1. \E h : IsSum(h, f, B)
    BY <1>1, <1>2
  <2>2. QED BY <2>1
<1> HIDE DEF G
<1>3. ASSUME NEW s \in SUBSET A, s # {} PROVE g[sub(s)] = G(sub(s))[sub(s)]
  <2>1. Pick(s) \in s /\ sub(s) \in SUBSET A /\ sub(s) # A
    BY <1>3, PickIs
  <2>2. CASE sub(s) = {}
    <3>1. IsSum(G({}), f, {})
      BY <1>2, <2>1, <2>2
    <3>2. G({})[{}] = 0
      BY <3>1 DEF IsSum
    <3>3. QED BY <2>1, <2>2, <3>2
  <2>3. CASE sub(s) # {}
    <3> DEFINE r == sub(s)
    <3>1. /\ Pick(r) \in r /\ sub(r) \in SUBSET r /\ sub(r) \in SUBSET A /\ sub(r) # A
          /\ r \in SUBSET A /\ r # A
      BY <2>1, <2>3, PickIs
    <3>2. IsSum(G(r), f, r) /\ IsSum(G(sub(r)), f, sub(r))
      BY <1>2, <3>1
    <3>3. G(r)[r] = f[Pick(r)] + G(r)[sub(r)]
      BY <2>3, <3>2 DEF IsSum
    <3>4. G(r)[sub(r)] = G(sub(r))[sub(r)]
      <4>1. r \in SUBSET U /\ sub(r) \in SUBSET U /\ sub(r) \in SUBSET (r \cap sub(r))
        BY <1>1, <3>1
      <4> HIDE DEF sub, r
      <4>2. QED BY <3>2, <4>1, SumUnique
    <3>5. g[r] = f[Pick(r)] + G(sub(r))[sub(r)]
      BY <2>3, <3>1
    <3>6. QED BY <3>3, <3>4, <3>5
  <2>4. QED BY <2>2, <2>3
<1>4. IsSum(g, f, A)
  BY <1>3 DEF IsSum
<1>5. QED BY <1>1, <1>4

LEMMA SumBy ==
  ASSUME NEW U, IsFiniteSet(U), NEW f
  PROVE  \E g : IsSum(g, f, U) /\ V!SumFunctionOnSet(f, U) = g[U]
<1>1. V!SumFunctionOnSet(f, U) = (CHOOSE g : IsSum(g, f, U))[U]
  BY DEF V!SumFunctionOnSet, V!FoldFunctionOnSet, V!MapThenFoldSet, IsSum, Pick
<1>2. \E g : IsSum(g, f, U)
  BY SumExists
<1>3. IsSum(CHOOSE g : IsSum(g, f, U), f, U)
  BY <1>2
<1>4. QED BY <1>1, <1>3

LEMMA SumStep ==
  ASSUME NEW U, IsFiniteSet(U), NEW f
  PROVE  /\ V!SumFunctionOnSet(f, {}) = 0
         /\ U # {} => V!SumFunctionOnSet(f, U) = f[Pick(U)] + V!SumFunctionOnSet(f, U \ {Pick(U)})
<1>1. V!SumFunctionOnSet(f, {}) = 0
  <2>1. PICK g : IsSum(g, f, {}) /\ V!SumFunctionOnSet(f, {}) = g[{}]
    BY FS_EmptySet, SumBy
  <2>2. QED BY <2>1 DEF IsSum
<1>2. ASSUME U # {} PROVE V!SumFunctionOnSet(f, U) = f[Pick(U)] + V!SumFunctionOnSet(f, U \ {Pick(U)})
  <2> DEFINE Q == U \ {Pick(U)}
  <2>1. IsFiniteSet(Q)
    BY FS_RemoveElement
  <2>2. PICK g : IsSum(g, f, U) /\ V!SumFunctionOnSet(f, U) = g[U]
    BY SumBy
  <2>3. PICK h : IsSum(h, f, Q) /\ V!SumFunctionOnSet(f, Q) = h[Q]
    BY <2>1, SumBy
  <2>4. g[Q] = h[Q]
    BY <2>2, <2>3, SumUnique
  <2>5. g[U] = f[Pick(U)] + g[Q]
    BY <1>2, <2>2 DEF IsSum
  <2>6. QED BY <2>2, <2>3, <2>4, <2>5
<1>3. QED BY <1>1, <1>2

LEMMA SumIsNat ==
  ASSUME NEW U, IsFiniteSet(U), NEW f, \A i \in U : f[i] \in Nat
  PROVE  \A A \in SUBSET U : V!SumFunctionOnSet(f, A) \in Nat
<1> DEFINE T == {A \in SUBSET U : V!SumFunctionOnSet(f, A) \notin Nat}
<1> SUFFICES ASSUME T # {} PROVE FALSE
  OBVIOUS
<1>1. PICK A \in T : \A B \in SUBSET A : B # A => B \notin T
  <2>1. T \in SUBSET SUBSET U
    OBVIOUS
  <2> HIDE DEF T
  <2>2. QED BY <2>1, SmallestSubset
<1>2. IsFiniteSet(A)
  BY <1>1, FS_Subset
<1>3. A # {}
  <2>1. V!SumFunctionOnSet(f, {}) = 0
    BY FS_EmptySet, SumStep
  <2>2. {} \notin T
    BY <2>1
  <2> HIDE DEF T
  <2>3. QED BY <2>2
<1> DEFINE Q == A \ {Pick(A)}
<1>4. Pick(A) \in A /\ Q \in SUBSET A /\ Q # A
  BY <1>3, PickIs
<1>5. V!SumFunctionOnSet(f, Q) \in Nat
  BY <1>1, <1>4
<1>6. V!SumFunctionOnSet(f, A) = f[Pick(A)] + V!SumFunctionOnSet(f, Q)
  BY <1>2, <1>3, SumStep
<1>7. f[Pick(A)] \in Nat
  BY <1>1, <1>4
<1>8. V!SumFunctionOnSet(f, A) \in Nat
  BY <1>5, <1>6, <1>7
<1>9. QED BY <1>1, <1>8

LEMMA SumWithout ==
  ASSUME NEW U, IsFiniteSet(U), NEW f, \A i \in U : f[i] \in Nat
  PROVE  \A A \in SUBSET U : \A x \in A :
           V!SumFunctionOnSet(f, A) = f[x] + V!SumFunctionOnSet(f, A \ {x})
<1> DEFINE T == {A \in SUBSET U : \E x \in A :
                   V!SumFunctionOnSet(f, A) # f[x] + V!SumFunctionOnSet(f, A \ {x})}
<1> SUFFICES ASSUME T # {} PROVE FALSE
  OBVIOUS
<1>1. PICK A \in T : \A B \in SUBSET A : B # A => B \notin T
  <2>1. T \in SUBSET SUBSET U
    OBVIOUS
  <2> HIDE DEF T
  <2>2. QED BY <2>1, SmallestSubset
<1>2. PICK x \in A : V!SumFunctionOnSet(f, A) # f[x] + V!SumFunctionOnSet(f, A \ {x})
  BY <1>1
<1> DEFINE p == Pick(A)
<1>3. /\ p \in A /\ A \in SUBSET U /\ A # {}
      /\ IsFiniteSet(A) /\ IsFiniteSet(A \ {x})
  BY <1>1, <1>2, PickIs, FS_Subset
<1>4. V!SumFunctionOnSet(f, A) = f[p] + V!SumFunctionOnSet(f, A \ {p})
  BY <1>3, SumStep
<1>5. x # p
  BY <1>2, <1>4
<1>6. V!SumFunctionOnSet(f, A \ {p}) = f[x] + V!SumFunctionOnSet(f, (A \ {p}) \ {x})
  <2>1. A \ {p} \in SUBSET A /\ A \ {p} # A /\ x \in A \ {p}
    BY <1>3, <1>5
  <2>2. A \ {p} \notin T /\ A \ {p} \in SUBSET U
    BY <1>1, <1>3, <2>1
  <2>3. QED BY <2>1, <2>2
<1>7. V!SumFunctionOnSet(f, A \ {x}) = f[p] + V!SumFunctionOnSet(f, (A \ {x}) \ {p})
  <2>1. A \ {x} \in SUBSET A /\ A \ {x} # A /\ p \in A \ {x}
    BY <1>3, <1>5
  <2>2. A \ {x} \notin T /\ A \ {x} \in SUBSET U
    BY <1>1, <1>3, <2>1
  <2>3. QED BY <2>1, <2>2
<1> DEFINE r == V!SumFunctionOnSet(f, (A \ {x}) \ {p})
<1>8. (A \ {p}) \ {x} = (A \ {x}) \ {p}
  OBVIOUS
<1>9. f[x] \in Nat /\ f[p] \in Nat /\ r \in Nat
  BY <1>2, <1>3, SumIsNat
<1> HIDE DEF p, r
<1>10. V!SumFunctionOnSet(f, A) = f[p] + (f[x] + r)
  BY <1>4, <1>6, <1>8 DEF r
<1>11. V!SumFunctionOnSet(f, A \ {x}) = f[p] + r
  BY <1>7 DEF r
<1>12. QED BY <1>2, <1>9, <1>10, <1>11

LEMMA SumEmpty == ASSUME NEW f PROVE V!SumFunctionOnSet(f, {}) = 0
  BY FS_EmptySet, SumStep

\* A sum depends on nothing but the values on its set.
LEMMA SumSame ==
  ASSUME NEW U, IsFiniteSet(U), NEW f, NEW g, \A i \in U : f[i] = g[i]
  PROVE  V!SumFunctionOnSet(f, U) = V!SumFunctionOnSet(g, U)
<1> DEFINE T == {A \in SUBSET U : V!SumFunctionOnSet(f, A) # V!SumFunctionOnSet(g, A)}
<1> SUFFICES ASSUME T # {} PROVE FALSE
  OBVIOUS
<1>1. PICK A \in T : \A B \in SUBSET A : B # A => B \notin T
  <2>1. T \in SUBSET SUBSET U
    OBVIOUS
  <2> HIDE DEF T
  <2>2. QED BY <2>1, SmallestSubset
<1>2. IsFiniteSet(A) /\ A # {}
  BY <1>1, FS_Subset, SumEmpty
<1> DEFINE Q == A \ {Pick(A)}
<1>3. Pick(A) \in A /\ Q \in SUBSET A /\ Q # A /\ Q \in SUBSET U
  BY <1>1, <1>2, PickIs
<1>4. V!SumFunctionOnSet(f, Q) = V!SumFunctionOnSet(g, Q)
  BY <1>1, <1>3
<1>5. /\ V!SumFunctionOnSet(f, A) = f[Pick(A)] + V!SumFunctionOnSet(f, Q)
      /\ V!SumFunctionOnSet(g, A) = g[Pick(A)] + V!SumFunctionOnSet(g, Q)
  BY <1>2, SumStep
<1>6. f[Pick(A)] = g[Pick(A)]
  BY <1>1, <1>3
<1>7. QED BY <1>1, <1>4, <1>5, <1>6

\* A sum that is not zero has a term that is not.
LEMMA SumHasTerm ==
  ASSUME NEW U, IsFiniteSet(U), NEW f, \A i \in U : f[i] = 0
  PROVE  V!SumFunctionOnSet(f, U) = 0
<1> DEFINE T == {A \in SUBSET U : V!SumFunctionOnSet(f, A) # 0}
<1> SUFFICES ASSUME T # {} PROVE FALSE
  OBVIOUS
<1>1. PICK A \in T : \A B \in SUBSET A : B # A => B \notin T
  <2>1. T \in SUBSET SUBSET U
    OBVIOUS
  <2> HIDE DEF T
  <2>2. QED BY <2>1, SmallestSubset
<1>2. IsFiniteSet(A) /\ A # {}
  BY <1>1, FS_Subset, SumEmpty
<1> DEFINE Q == A \ {Pick(A)}
<1>3. Pick(A) \in A /\ Q \in SUBSET A /\ Q # A /\ Q \in SUBSET U
  BY <1>1, <1>2, PickIs
<1>4. V!SumFunctionOnSet(f, Q) = 0 /\ f[Pick(A)] = 0
  BY <1>1, <1>3
<1>5. V!SumFunctionOnSet(f, A) = f[Pick(A)] + V!SumFunctionOnSet(f, Q)
  BY <1>2, SumStep
<1>6. QED BY <1>1, <1>4, <1>5

\* The sum over a set in two parts.
LEMMA SumOfParts ==
  ASSUME NEW U, IsFiniteSet(U), NEW f, \A i \in U : f[i] \in Nat, NEW P
  PROVE  V!SumFunctionOnSet(f, U) = V!SumFunctionOnSet(f, U \cap P) + V!SumFunctionOnSet(f, U \ P)
<1> DEFINE T == {A \in SUBSET U : V!SumFunctionOnSet(f, A) #
                   V!SumFunctionOnSet(f, A \cap P) + V!SumFunctionOnSet(f, A \ P)}
<1> SUFFICES ASSUME T # {} PROVE FALSE
  OBVIOUS
<1>1. PICK A \in T : \A B \in SUBSET A : B # A => B \notin T
  <2>1. T \in SUBSET SUBSET U
    OBVIOUS
  <2> HIDE DEF T
  <2>2. QED BY <2>1, SmallestSubset
<1>2. A # {}
  <2>1. {} \cap P = {} /\ {} \ P = {}
    OBVIOUS
  <2>2. {} \notin T
    BY <2>1, SumEmpty
  <2> HIDE DEF T
  <2>3. QED BY <1>1, <2>2
<1>3. PICK x \in A : x \in A
  BY <1>2
<1> DEFINE Q == A \ {x}
<1>4. /\ Q \in SUBSET A /\ Q # A /\ Q \in SUBSET U /\ A \in SUBSET U
      /\ A \cap P \in SUBSET U /\ A \ P \in SUBSET U
  BY <1>1, <1>3
<1>5. V!SumFunctionOnSet(f, Q) = V!SumFunctionOnSet(f, Q \cap P) + V!SumFunctionOnSet(f, Q \ P)
  BY <1>1, <1>4
<1>6. V!SumFunctionOnSet(f, A) = f[x] + V!SumFunctionOnSet(f, Q)
  BY <1>3, <1>4, SumWithout
<1>7. /\ f[x] \in Nat
      /\ V!SumFunctionOnSet(f, Q \cap P) \in Nat /\ V!SumFunctionOnSet(f, Q \ P) \in Nat
  BY <1>3, <1>4, SumIsNat
<1>8. V!SumFunctionOnSet(f, A) = V!SumFunctionOnSet(f, A \cap P) + V!SumFunctionOnSet(f, A \ P)
  <2>1. CASE x \in P
    <3>1. Q \cap P = (A \cap P) \ {x} /\ Q \ P = A \ P /\ x \in A \cap P
      BY <1>3, <2>1
    <3>2. V!SumFunctionOnSet(f, A \cap P) = f[x] + V!SumFunctionOnSet(f, Q \cap P)
      BY <1>4, <3>1, SumWithout
    <3>3. V!SumFunctionOnSet(f, Q \ P) = V!SumFunctionOnSet(f, A \ P)
      BY <3>1, Zenon
    <3>4. QED BY <1>5, <1>6, <1>7, <3>2, <3>3
  <2>2. CASE x \notin P
    <3>1. Q \ P = (A \ P) \ {x} /\ Q \cap P = A \cap P /\ x \in A \ P
      BY <1>3, <2>2
    <3>2. V!SumFunctionOnSet(f, A \ P) = f[x] + V!SumFunctionOnSet(f, Q \ P)
      BY <1>4, <3>1, SumWithout
    <3>3. V!SumFunctionOnSet(f, Q \cap P) = V!SumFunctionOnSet(f, A \cap P)
      BY <3>1, Zenon
    <3>4. QED BY <1>5, <1>6, <1>7, <3>2, <3>3
  <2>3. QED BY <2>1, <2>2
<1>9. QED BY <1>1, <1>8

\* What k gives to the members of U, and those to which it gives t.
Image(U, k) == {k[i] : i \in U}
Group(U, k, t) == {i \in U : k[i] = t}

\* The sum over a set is the sum of the sums over its groups.
LEMMA SumOfGroups ==
  ASSUME NEW U, IsFiniteSet(U), NEW f, \A i \in U : f[i] \in Nat,
         NEW k, NEW T, IsFiniteSet(T), \A i \in U : k[i] \in T,
         NEW h, \A t \in T : h[t] = V!SumFunctionOnSet(f, Group(U, k, t))
  PROVE  V!SumFunctionOnSet(h, T) = V!SumFunctionOnSet(f, U)
<1> DEFINE In(X) == {i \in U : k[i] \in X}
           Bad == {X \in SUBSET T : V!SumFunctionOnSet(h, X) # V!SumFunctionOnSet(f, In(X))}
<1>1. Bad = {}
  <2> SUFFICES ASSUME Bad # {} PROVE FALSE
    OBVIOUS
  <2>1. PICK X \in Bad : \A B \in SUBSET X : B # X => B \notin Bad
    <3>1. Bad \in SUBSET SUBSET T
      OBVIOUS
    <3> HIDE DEF Bad
    <3>2. QED BY <3>1, SmallestSubset
  <2>2. X # {}
    <3>1. In({}) = {}
      OBVIOUS
    <3>2. {} \notin Bad
      BY <3>1, SumEmpty
    <3> HIDE DEF Bad
    <3>3. QED BY <2>1, <3>2
  <2> DEFINE y == Pick(X)
             Q == X \ {y}
  <2>3. IsFiniteSet(X) /\ X \in SUBSET T /\ y \in X /\ Q \in SUBSET X /\ Q # X
    BY <2>1, <2>2, PickIs, FS_Subset
  <2>4. V!SumFunctionOnSet(h, X) = h[y] + V!SumFunctionOnSet(h, Q)
    BY <2>2, <2>3, SumStep
  <2>5. V!SumFunctionOnSet(h, Q) = V!SumFunctionOnSet(f, In(Q))
    BY <2>1, <2>3
  <2> DEFINE P == Group(U, k, y)
  <2>6. In(X) \cap P = P /\ In(X) \ P = In(Q)
    BY <2>3 DEF Group
  <2>7. V!SumFunctionOnSet(f, In(X)) = V!SumFunctionOnSet(f, P) + V!SumFunctionOnSet(f, In(Q))
    <3>1. IsFiniteSet(In(X)) /\ \A i \in In(X) : f[i] \in Nat
      BY FS_Subset
    <3> HIDE DEF In, P
    <3>2. V!SumFunctionOnSet(f, In(X)) =
            V!SumFunctionOnSet(f, In(X) \cap P) + V!SumFunctionOnSet(f, In(X) \ P)
      BY <3>1, SumOfParts
    <3>3. QED BY <2>6, <3>2
  <2>8. h[y] = V!SumFunctionOnSet(f, P)
    BY <2>3
  <2>9. QED BY <2>1, <2>4, <2>5, <2>7, <2>8
<1>2. In(T) = U
  OBVIOUS
<1>3. T \notin Bad
  BY <1>1
<1>4. V!SumFunctionOnSet(h, T) = V!SumFunctionOnSet(f, In(T))
  BY <1>3
<1>5. QED BY <1>2, <1>4

-----------------------------------------------------------------------------
(* Adding up the sessions of a store *)

Secs(db) == [s \in db.sessions |-> s.sec]
AppOf(db) == [s \in db.sessions |-> CHOOSE a \in db.apps : a.id = s.app]

LEMMA ImageIsFinite ==
  ASSUME NEW U, IsFiniteSet(U), NEW f
  PROVE  IsFiniteSet(Image(U, f))
<1> DEFINE T == Image(U, f)
           g == [i \in U |-> f[i]]
<1>1. g \in Surjection(U, T)
  BY DEF Surjection, Image
<1> HIDE DEF T, g
<1>2. IsFiniteSet(T)
  BY <1>1, FS_Surjection
<1>3. QED BY <1>2 DEF T

LEMMA StoreIs ==
  ASSUME NEW db, NEW today, V!StoreOK(db, today)
  PROVE  /\ IsFiniteSet(db.apps) /\ IsFiniteSet(db.sessions)
         /\ \A s \in db.sessions : s.sec \in Nat /\ s.hour \in 0..23 /\ s.day \in Int
<1>1. IsFiniteSet(db.apps) /\ IsFiniteSet(db.sessions)
  BY DEF V!StoreOK, V!IsFiniteSet, IsFiniteSet
<1>2. QED BY <1>1 DEF V!StoreOK

LEMMA TotalIs ==
  ASSUME NEW db, NEW today, V!StoreOK(db, today), NEW Q \in SUBSET db.sessions
  PROVE  /\ IsFiniteSet(Q)
         /\ \A s \in Q : Secs(db)[s] = s.sec /\ s.sec \in Nat
         /\ V!Total(Q) = V!SumFunctionOnSet(Secs(db), Q)
         /\ V!Total(Q) \in Nat
<1>1. IsFiniteSet(Q) /\ \A s \in Q : Secs(db)[s] = s.sec /\ s.sec \in Nat
  BY StoreIs, FS_Subset DEF Secs
<1> DEFINE g == [r \in Q |-> r.sec]
<1>2. V!SumFunctionOnSet(g, Q) = V!SumFunctionOnSet(Secs(db), Q)
  <2>1. \A i \in Q : g[i] = Secs(db)[i]
    BY <1>1
  <2> HIDE DEF g
  <2>2. QED BY <1>1, <2>1, SumSame
<1>3. V!Total(Q) = V!SumFunctionOnSet(g, Q)
  BY DEF V!Total, V!SumFunction
<1>4. V!SumFunctionOnSet(Secs(db), Q) \in Nat
  BY <1>1, SumIsNat
<1>5. QED BY <1>1, <1>2, <1>3, <1>4

\* However sessions are grouped, the totals of the groups make up the total.
LEMMA TotalOfGroups ==
  ASSUME NEW db, NEW today, V!StoreOK(db, today), NEW Q \in SUBSET db.sessions,
         NEW k, NEW T, IsFiniteSet(T), \A s \in Q : k[s] \in T,
         NEW h, \A t \in T : h[t] = V!Total(Group(Q, k, t))
  PROVE  V!SumFunctionOnSet(h, T) = V!Total(Q)
<1> DEFINE f == Secs(db)
<1>1. /\ IsFiniteSet(Q) /\ \A s \in Q : f[s] \in Nat
      /\ V!Total(Q) = V!SumFunctionOnSet(f, Q)
  BY TotalIs
<1>2. \A t \in T : h[t] = V!SumFunctionOnSet(f, Group(Q, k, t))
  <2> SUFFICES ASSUME NEW t \in T
               PROVE  V!Total(Group(Q, k, t)) = V!SumFunctionOnSet(f, Group(Q, k, t))
    OBVIOUS
  <2>1. Group(Q, k, t) \in SUBSET db.sessions
    BY DEF Group
  <2>2. QED BY <2>1, TotalIs
<1> HIDE DEF f
<1>3. V!SumFunctionOnSet(h, T) = V!SumFunctionOnSet(f, Q)
  BY <1>1, <1>2, SumOfGroups
<1>4. QED BY <1>1, <1>3

LEMMA NothingIsZero == V!Total({}) = 0
  BY SumEmpty DEF V!Total, V!SumFunction

\* The one app a session belongs to.
LEMMA AppOfIs ==
  ASSUME NEW db, NEW today, V!StoreOK(db, today), NEW s \in db.sessions
  PROVE  /\ AppOf(db)[s] \in db.apps
         /\ \A a \in db.apps : AppOf(db)[s] = a <=> s.app = a.id
<1>1. PICK a \in db.apps : a.id = s.app
  BY DEF V!StoreOK
<1>2. AppOf(db)[s] = CHOOSE b \in db.apps : b.id = s.app
  BY DEF AppOf
<1>3. AppOf(db)[s] \in db.apps /\ AppOf(db)[s].id = s.app
  BY <1>1, <1>2
<1>4. \A b, c \in db.apps : b.id = c.id => b = c
  BY DEF V!StoreOK
<1>5. QED BY <1>3, <1>4

LEMMA ByAppIs ==
  ASSUME NEW db, NEW today, V!StoreOK(db, today), NEW Q \in SUBSET db.sessions
  PROVE  LET apps == V!ByApp(db, Q)
         IN  /\ IsFiniteSet(DOMAIN apps)
             /\ DOMAIN apps = {a \in db.apps : V!Of(Q, a) # {}}
             /\ \A a \in DOMAIN apps : apps[a] = V!Total(V!Of(Q, a)) /\ apps[a] \in Nat
             /\ V!SumFunction(apps) = V!Total(Q)
<1> DEFINE apps == V!ByApp(db, Q)
<1>1. DOMAIN apps = {a \in db.apps : V!Of(Q, a) # {}}
  BY DEF V!ByApp
<1>2. IsFiniteSet(DOMAIN apps)
  BY <1>1, StoreIs, FS_Subset
<1>3. \A a \in DOMAIN apps : apps[a] = V!Total(V!Of(Q, a)) /\ apps[a] \in Nat
  <2> SUFFICES ASSUME NEW a \in DOMAIN apps
               PROVE  apps[a] = V!Total(V!Of(Q, a)) /\ apps[a] \in Nat
    OBVIOUS
  <2>1. apps[a] = V!Total(V!Of(Q, a))
    BY DEF V!ByApp
  <2>2. V!Of(Q, a) \in SUBSET db.sessions
    BY DEF V!Of
  <2>3. QED BY <2>1, <2>2, TotalIs
<1> DEFINE k == AppOf(db)
<1>4. \A s \in Q : k[s] \in DOMAIN apps
  <2> SUFFICES ASSUME NEW s \in Q PROVE k[s] \in DOMAIN apps
    OBVIOUS
  <2>1. k[s] \in db.apps /\ s.app = k[s].id
    BY AppOfIs
  <2>2. s \in V!Of(Q, k[s])
    BY <2>1 DEF V!Of
  <2>3. QED BY <1>1, <2>1, <2>2
<1>5. \A a \in DOMAIN apps : apps[a] = V!Total(Group(Q, k, a))
  <2> SUFFICES ASSUME NEW a \in DOMAIN apps PROVE apps[a] = V!Total(Group(Q, k, a))
    OBVIOUS
  <2>1. a \in db.apps
    BY <1>1
  <2>2. V!Of(Q, a) = Group(Q, k, a)
    BY <2>1, AppOfIs DEF V!Of, Group
  <2>3. QED BY <1>3, <2>2, Zenon
<1> HIDE DEF k
<1>6. V!SumFunctionOnSet(apps, DOMAIN apps) = V!Total(Q)
  BY <1>2, <1>4, <1>5, TotalOfGroups
<1>7. QED BY <1>1, <1>2, <1>3, <1>6 DEF V!SumFunction

\* Sessions by some attribute of theirs.
LEMMA ByAttribute ==
  ASSUME NEW db, NEW today, V!StoreOK(db, today), NEW Q \in SUBSET db.sessions,
         NEW k, NEW h,
         DOMAIN h = Image(Q, k),
         \A t \in DOMAIN h : h[t] = V!Total(Group(Q, k, t))
  PROVE  /\ IsFiniteSet(DOMAIN h)
         /\ \A t \in DOMAIN h : h[t] \in Nat
         /\ V!SumFunction(h) = V!Total(Q)
<1>1. IsFiniteSet(DOMAIN h)
  BY TotalIs, ImageIsFinite
<1>2. \A t : Group(Q, k, t) \in SUBSET db.sessions
  BY DEF Group
<1>3. \A t \in DOMAIN h : h[t] \in Nat
  BY <1>2, TotalIs
<1>4. \A s \in Q : k[s] \in DOMAIN h
  BY DEF Image
<1>5. V!SumFunctionOnSet(h, DOMAIN h) = V!Total(Q)
  BY <1>1, <1>4, TotalOfGroups
<1>6. QED BY <1>1, <1>3, <1>5 DEF V!SumFunction

Days(db) == [s \in db.sessions |-> s.day]
Hours(db) == [s \in db.sessions |-> s.hour]

LEMMA DayOfHistory ==
  ASSUME NEW db, NEW a, NEW days, NEW today, NEW d \in DOMAIN V!History(db, a, days, today)
  PROVE  V!History(db, a, days, today)[d] =
           V!Total(Group(V!LastDays(V!Of(db.sessions, a), days, today), Days(db), d))
<1> DEFINE Q == V!LastDays(V!Of(db.sessions, a), days, today)
<1>1. V!History(db, a, days, today)[d] = V!Total({s \in Q : s.day = d})
  BY DEF V!History
<1>2. {s \in Q : s.day = d} = Group(Q, Days(db), d)
  BY DEF Days, Group, V!LastDays, V!Of
<1>3. QED BY <1>1, <1>2, Zenon

LEMMA HistoryIs ==
  ASSUME NEW db, NEW today, today \in Int, V!StoreOK(db, today), NEW a, NEW days
  PROVE  LET history == V!History(db, a, days, today)
             Q == V!LastDays(V!Of(db.sessions, a), days, today)
         IN  /\ Q \in SUBSET db.sessions
             /\ DOMAIN history = {s.day : s \in Q}
             /\ \A d \in DOMAIN history : history[d] = V!Total(Group(Q, Days(db), d))
             /\ \A d \in DOMAIN history : history[d] \in Nat
             /\ V!SumFunction(history) = V!Total(Q)
<1> DEFINE history == V!History(db, a, days, today)
           Q == V!LastDays(V!Of(db.sessions, a), days, today)
<1>1. Q \in SUBSET db.sessions
  BY DEF V!LastDays, V!Of
<1>2. DOMAIN history = {s.day : s \in Q}
  BY DEF V!History
<1>3. {s.day : s \in Q} = Image(Q, Days(db))
  BY <1>1 DEF Days, Image
<1>4. \A d \in DOMAIN history : history[d] = V!Total(Group(Q, Days(db), d))
  BY DayOfHistory
<1>5. DOMAIN history = Image(Q, Days(db))
  BY <1>2, <1>3, Zenon
<1>6. QED BY <1>1, <1>2, <1>4, <1>5, ByAttribute

LEMMA PeakHoursIs ==
  ASSUME NEW db, NEW today, today \in Int, V!StoreOK(db, today), NEW days
  PROVE  LET hours == V!PeakHours(db, days, today)
             Q == V!LastDays(db.sessions, days, today)
         IN  /\ Q \in SUBSET db.sessions
             /\ DOMAIN hours = {s.hour : s \in Q}
             /\ DOMAIN hours \subseteq 0..23
             /\ IsFiniteSet(DOMAIN hours)
             /\ \A h \in DOMAIN hours : hours[h] = V!Total(Group(Q, Hours(db), h))
             /\ \A h \in DOMAIN hours : hours[h] \in Nat
             /\ V!SumFunction(hours) = V!Total(Q)
<1> DEFINE hours == V!PeakHours(db, days, today)
           Q == V!LastDays(db.sessions, days, today)
<1>1. Q \in SUBSET db.sessions
  BY DEF V!LastDays
<1>2. DOMAIN hours = {s.hour : s \in Q}
  BY DEF V!PeakHours
<1>3. {s.hour : s \in Q} = Image(Q, Hours(db))
  BY <1>1 DEF Hours, Image
<1>4. \A h \in DOMAIN hours : hours[h] = V!Total(Group(Q, Hours(db), h))
  <2> SUFFICES ASSUME NEW h \in DOMAIN hours
               PROVE  hours[h] = V!Total(Group(Q, Hours(db), h))
    OBVIOUS
  <2>1. hours[h] = V!Total({s \in Q : s.hour = h})
    BY DEF V!PeakHours
  <2>2. {s \in Q : s.hour = h} = Group(Q, Hours(db), h)
    BY <1>1 DEF Hours, Group
  <2>3. QED BY <2>1, <2>2, Zenon
<1>5. DOMAIN hours = Image(Q, Hours(db))
  BY <1>2, <1>3, Zenon
<1>6. DOMAIN hours \subseteq 0..23
  BY <1>1, <1>2, StoreIs
<1>7. /\ IsFiniteSet(DOMAIN hours) /\ \A h \in DOMAIN hours : hours[h] \in Nat
      /\ V!SumFunction(hours) = V!Total(Q)
  BY <1>1, <1>4, <1>5, ByAttribute
<1>8. QED BY <1>1, <1>2, <1>4, <1>6, <1>7

LEMMA CategoriesAre ==
  ASSUME NEW db, NEW today, V!StoreOK(db, today)
  PROVE  V!SumFunction(V!CategoriesThisWeek(db, today)) = V!SumFunction(V!AppsThisWeek(db, today))
<1> DEFINE apps == V!AppsThisWeek(db, today)
           categories == V!CategoriesThisWeek(db, today)
           k == [a \in DOMAIN apps |-> a.category]
<1>1. IsFiniteSet(DOMAIN apps) /\ \A a \in DOMAIN apps : apps[a] \in Nat
  <2>1. V!ThisWeek(db.sessions, today) \in SUBSET db.sessions
    BY DEF V!ThisWeek
  <2>2. QED BY <2>1, ByAppIs DEF V!AppsThisWeek
<1>2. DOMAIN categories = {a.category : a \in DOMAIN apps}
  BY DEF V!CategoriesThisWeek
<1>3. {a.category : a \in DOMAIN apps} = Image(DOMAIN apps, k)
  BY DEF Image
<1>4. \A c \in DOMAIN categories :
        categories[c] = V!SumFunctionOnSet(apps, Group(DOMAIN apps, k, c))
  <2> SUFFICES ASSUME NEW c \in DOMAIN categories
               PROVE  categories[c] = V!SumFunctionOnSet(apps, Group(DOMAIN apps, k, c))
    OBVIOUS
  <2>1. categories[c] = V!SumFunctionOnSet(apps, {a \in DOMAIN apps : a.category = c})
    BY DEF V!CategoriesThisWeek
  <2>2. {a \in DOMAIN apps : a.category = c} = Group(DOMAIN apps, k, c)
    BY DEF Group
  <2>3. QED BY <2>1, <2>2, Zenon
<1>5. DOMAIN categories = Image(DOMAIN apps, k)
  BY <1>2, <1>3, Zenon
<1> HIDE DEF apps, categories, k
<1>6. IsFiniteSet(DOMAIN categories)
  BY <1>1, <1>5, ImageIsFinite
<1>7. \A a \in DOMAIN apps : k[a] \in DOMAIN categories
  BY <1>5 DEF Image
<1>8. V!SumFunctionOnSet(categories, DOMAIN categories) = V!SumFunctionOnSet(apps, DOMAIN apps)
  BY <1>1, <1>4, <1>6, <1>7, SumOfGroups
<1>9. QED BY <1>8 DEF V!SumFunction, apps, categories

\* Of sessions of the last seven days, those of this week and those that are ahead.
LEMMA WeekAndAhead ==
  ASSUME NEW db, NEW today, today \in Int, V!StoreOK(db, today), NEW Q \in SUBSET db.sessions
  PROVE  V!Total(V!LastDays(Q, 7, today)) =
           V!Total(V!ThisWeek(Q, today)) + V!Total(V!Ahead(Q, today))
<1> DEFINE L == V!LastDays(Q, 7, today)
           P == {s \in db.sessions : s.day <= today}
           f == Secs(db)
<1>1. L \in SUBSET db.sessions
  BY DEF V!LastDays
<1>2. L \cap P = V!ThisWeek(Q, today) /\ L \ P = V!Ahead(Q, today)
  <2>1. \A s \in Q : s.day \in Int
    BY StoreIs
  <2>2. L \cap P = V!ThisWeek(Q, today)
    BY <2>1 DEF V!LastDays, V!ThisWeek
  <2>3. L \ P = V!Ahead(Q, today)
    BY <2>1 DEF V!LastDays, V!Ahead
  <2>4. QED BY <2>2, <2>3
<1>3. /\ IsFiniteSet(L) /\ \A s \in L : f[s] \in Nat
      /\ V!Total(L) = V!SumFunctionOnSet(f, L)
  BY <1>1, TotalIs
<1>4. /\ V!Total(L \cap P) = V!SumFunctionOnSet(f, L \cap P)
      /\ V!Total(L \ P) = V!SumFunctionOnSet(f, L \ P)
  <2>1. L \cap P \in SUBSET db.sessions /\ L \ P \in SUBSET db.sessions
    BY <1>1
  <2> HIDE DEF L, P, f
  <2>2. QED BY <2>1, TotalIs DEF f
<1> HIDE DEF L, P, f
<1>5. V!SumFunctionOnSet(f, L) =
        V!SumFunctionOnSet(f, L \cap P) + V!SumFunctionOnSet(f, L \ P)
  BY <1>3, SumOfParts
<1>6. V!Total(L) = V!Total(V!ThisWeek(Q, today)) + V!Total(V!Ahead(Q, today))
  BY <1>2, <1>3, <1>4, <1>5
<1>7. QED BY <1>6 DEF L

\* The week is the same added up by app and by category, and by day and by hour once
\* what is dated after today is taken off: get_usage_history() and get_peak_hours()
\* have no upper bound (the queries of database.py:256-341).
THEOREM WeekIsOne ==
  ASSUME NEW db, NEW today, today \in Int, V!StoreOK(db, today)
  PROVE  V!WeekAddsUp(db, today)
<1> DEFINE W == V!ThisWeek(db.sessions, today)
           apps == V!AppsThisWeek(db, today)
           hours == V!PeakHours(db, 7, today)
<1>1. W \in SUBSET db.sessions
  BY DEF V!ThisWeek
<1>2. /\ \A a \in DOMAIN apps : apps[a] = V!Total(V!Of(W, a))
      /\ DOMAIN apps = {a \in db.apps : V!Of(W, a) # {}}
      /\ V!SumFunction(apps) = V!Total(W)
  <2>1. apps = V!ByApp(db, W)
    BY DEF V!AppsThisWeek
  <2> HIDE DEF apps, W, hours
  <2>2. \A a \in DOMAIN apps : apps[a] = V!Total(V!Of(W, a))
    BY <1>1, <2>1, ByAppIs
  <2>3. DOMAIN apps = {a \in db.apps : V!Of(W, a) # {}}
    BY <1>1, <2>1, ByAppIs
  <2>4. V!SumFunction(apps) = V!Total(W)
    BY <1>1, <2>1, ByAppIs
  <2>5. QED BY <2>2, <2>3, <2>4
<1>3. V!SumFunction(hours) = V!Total(W) + V!Total(V!Ahead(db.sessions, today))
  <2>1. hours = V!PeakHours(db, 7, today) /\ W = V!ThisWeek(db.sessions, today)
    OBVIOUS
  <2> HIDE DEF hours, W, apps
  <2>2. V!SumFunction(hours) = V!Total(V!LastDays(db.sessions, 7, today))
    BY <2>1, PeakHoursIs
  <2>3. db.sessions \in SUBSET db.sessions
    OBVIOUS
  <2>4. V!Total(V!LastDays(db.sessions, 7, today)) =
          V!Total(V!ThisWeek(db.sessions, today)) + V!Total(V!Ahead(db.sessions, today))
    BY <2>3, WeekAndAhead
  <2>5. QED BY <2>1, <2>2, <2>4
<1>4. V!SumFunction(V!CategoriesThisWeek(db, today)) = V!SumFunction(apps)
  BY CategoriesAre
<1>5. ASSUME NEW a \in db.apps, NEW history, history = V!History(db, a, 7, today)
      PROVE  /\ V!WeekOf(db, a, today) = (IF a \in DOMAIN apps THEN apps[a] ELSE 0)
             /\ V!SumFunction(history) =
                  V!WeekOf(db, a, today) + V!Total(V!Ahead(V!Of(db.sessions, a), today))
             /\ V!TodayOf(db, a, today) = (IF today \in DOMAIN history THEN history[today] ELSE 0)
  <2> DEFINE O == V!Of(db.sessions, a)
             Q == V!LastDays(O, 7, today)
  <2>1. V!ThisWeek(O, today) = V!Of(W, a)
    BY DEF V!ThisWeek, V!Of
  <2>2. V!WeekOf(db, a, today) = V!Total(V!Of(W, a))
    BY <2>1, Zenon DEF V!WeekOf
  <2>3. V!WeekOf(db, a, today) = (IF a \in DOMAIN apps THEN apps[a] ELSE 0)
    <3>1. CASE a \in DOMAIN apps
      BY <1>2, <2>2, <3>1
    <3>2. CASE a \notin DOMAIN apps
      <4>1. V!Of(W, a) = {}
        BY <1>2, <1>5, <3>2
      <4>2. QED BY <2>2, <3>2, <4>1, NothingIsZero
    <3>3. QED BY <3>1, <3>2
  <2>4. /\ DOMAIN history = {s.day : s \in Q}
        /\ \A d \in DOMAIN history : history[d] = V!Total(Group(Q, Days(db), d))
        /\ V!SumFunction(history) = V!Total(Q)
    <3>1. Q = V!LastDays(V!Of(db.sessions, a), 7, today)
      OBVIOUS
    <3> HIDE DEF Q, O, W, apps, hours
    <3>2. DOMAIN history = {s.day : s \in Q}
      BY <1>5, <3>1, HistoryIs
    <3>3. ASSUME NEW d \in DOMAIN history PROVE history[d] = V!Total(Group(Q, Days(db), d))
      BY <1>5, <3>1, <3>3, DayOfHistory
    <3>4. V!SumFunction(history) = V!Total(Q)
      BY <1>5, <3>1, HistoryIs
    <3>5. QED BY <3>2, <3>3, <3>4
  <2>5. V!SumFunction(history) =
          V!WeekOf(db, a, today) + V!Total(V!Ahead(V!Of(db.sessions, a), today))
    <3>1. O \in SUBSET db.sessions /\ O = V!Of(db.sessions, a)
      BY DEF V!Of
    <3>2. Q = V!LastDays(O, 7, today)
      OBVIOUS
    <3> HIDE DEF O, Q, W, apps, hours
    <3>3. V!Total(Q) = V!Total(V!ThisWeek(O, today)) + V!Total(V!Ahead(O, today))
      BY <3>1, <3>2, WeekAndAhead
    <3>4. QED BY <2>1, <2>2, <2>4, <3>1, <3>3
  <2> DEFINE D == {s \in V!Of(db.sessions, a) : s.day = today}
  <2>6. V!TodayOf(db, a, today) = V!Total(D)
    BY Zenon DEF V!TodayOf
  <2>7. D = Group(Q, Days(db), today)
    BY StoreIs DEF V!LastDays, V!Of, Group, Days
  <2>8. V!TodayOf(db, a, today) = (IF today \in DOMAIN history THEN history[today] ELSE 0)
    <3>1. CASE today \in DOMAIN history
      <4>1. history[today] = V!Total(Group(Q, Days(db), today))
        BY <2>4, <3>1
      <4> HIDE DEF D
      <4>2. QED BY <2>6, <2>7, <3>1, <4>1
    <3>2. CASE today \notin DOMAIN history
      <4>1. D = {}
        <5>1. \A s \in D : s \in Q /\ s.day = today
          BY StoreIs DEF V!LastDays, V!Of
        <5>2. QED BY <2>4, <3>2, <5>1
      <4> HIDE DEF D
      <4>2. QED BY <2>6, <3>2, <4>1, NothingIsZero
    <3>3. QED BY <3>1, <3>2
  <2>9. QED BY <2>3, <2>5, <2>8
<1> HIDE DEF W, apps, hours
<1>6. \A a \in db.apps :
        LET history == V!History(db, a, 7, today)
            week == V!WeekOf(db, a, today)
        IN  /\ week = (IF a \in DOMAIN apps THEN apps[a] ELSE 0)
            /\ V!SumFunction(history) = week + V!Total(V!Ahead(V!Of(db.sessions, a), today))
            /\ V!TodayOf(db, a, today) = (IF today \in DOMAIN history THEN history[today] ELSE 0)
  BY <1>5, Zenon
<1>7. /\ V!SumFunction(apps) = V!SumFunction(V!CategoriesThisWeek(db, today))
      /\ V!SumFunction(hours) = V!SumFunction(apps) + V!Total(V!Ahead(db.sessions, today))
  BY <1>2, <1>3, <1>4
<1>8. QED BY <1>6, <1>7, Zenon DEF V!WeekAddsUp, apps, hours

-----------------------------------------------------------------------------
(* What is handed out *)

SameDay(db, s) == {t \in db.sessions : t.app = s.app /\ t.day = s.day}
RowOf(db) == [s \in db.sessions |-> [app |-> s.app, day |-> s.day, sec |-> V!Total(SameDay(db, s))]]

\* The rows of the history are those of its sessions.
LEMMA RowsAre ==
  ASSUME NEW db, NEW today, today \in Int, V!StoreOK(db, today), NEW days \in Int
  PROVE  \A r : r \in V!HistoryRows(db, days, today) <=>
                  \E s \in db.sessions : s.day >= today - (days - 1) /\ r = RowOf(db)[s]
<1> DEFINE Q(b) == V!LastDays(V!Of(db.sessions, b), days, today)
           H(b) == V!History(db, b, days, today)
           RowAt(b, day) == [app |-> b.id, day |-> day, sec |-> H(b)[day]]
<1>1. \A r : r \in V!HistoryRows(db, days, today) <=>
               \E a \in db.apps : \E d \in DOMAIN H(a) : r = RowAt(a, d)
  BY DEF V!HistoryRows
<1>2. ASSUME NEW a \in db.apps
      PROVE  \A s : s \in Q(a) <=> s \in db.sessions /\ s.app = a.id /\ s.day >= today - (days - 1)
  BY DEF V!LastDays, V!Of
<1>3. ASSUME NEW a \in db.apps PROVE DOMAIN H(a) = {s.day : s \in Q(a)}
  BY <1>3, HistoryIs
<1>4. ASSUME NEW a \in db.apps, NEW s \in Q(a)
      PROVE  s.day \in DOMAIN H(a) /\ RowAt(a, s.day) = RowOf(db)[s]
  <2>1. s.day \in DOMAIN H(a)
    BY <1>3, <1>4
  <2>2. H(a)[s.day] = V!Total(Group(Q(a), Days(db), s.day))
    BY <2>1, DayOfHistory
  <2>3. Group(Q(a), Days(db), s.day) = SameDay(db, s)
    BY <1>2, <1>4 DEF Group, Days, SameDay
  <2>4. H(a)[s.day] = V!Total(SameDay(db, s))
    BY <2>2, <2>3, Zenon
  <2>5. s \in db.sessions /\ s.app = a.id
    BY <1>2, <1>4
  <2> HIDE DEF H
  <2>6. QED BY <2>1, <2>4, <2>5 DEF RowOf
<1> HIDE DEF Q, H, RowAt
<1>5. ASSUME NEW r, r \in V!HistoryRows(db, days, today)
      PROVE  \E s \in db.sessions : s.day >= today - (days - 1) /\ r = RowOf(db)[s]
  <2>1. PICK a \in db.apps : \E d \in DOMAIN H(a) : r = RowAt(a, d)
    BY <1>1, <1>5
  <2>2. PICK d \in DOMAIN H(a) : r = RowAt(a, d)
    BY <2>1
  <2>3. PICK s \in Q(a) : s.day = d
    BY <1>3, <2>2
  <2>4. s \in db.sessions /\ s.day >= today - (days - 1)
    BY <1>2, <2>3
  <2>5. QED BY <1>4, <2>2, <2>3, <2>4
<1>6. ASSUME NEW s \in db.sessions, s.day >= today - (days - 1)
      PROVE  RowOf(db)[s] \in V!HistoryRows(db, days, today)
  <2>1. PICK a \in db.apps : a.id = s.app
    BY DEF V!StoreOK
  <2>2. s \in Q(a)
    BY <1>2, <1>6, <2>1
  <2>3. QED BY <1>1, <1>4, <2>1, <2>2
<1>7. QED BY <1>5, <1>6

\* The CSV has every row of the full history that is less than thirty days old
\* (export_csv, processes_page.py:399-427).
THEOREM CsvIsTheMonth ==
  ASSUME NEW db, NEW today, today \in Int, V!StoreOK(db, today)
  PROVE  V!Csv(db, today) = {r \in V!HistoryRows(db, 36500, today) : r.day > today - 30}
<1>1. \A s \in db.sessions : RowOf(db)[s].day = s.day
  BY DEF RowOf
<1>2. \A s \in db.sessions : s.day \in Int /\ s.day > today - 36500
  BY DEF V!StoreOK
<1>3. \A r : r \in V!HistoryRows(db, 30, today) <=>
               \E s \in db.sessions : s.day >= today - 29 /\ r = RowOf(db)[s]
  BY RowsAre
<1>4. \A r : r \in V!HistoryRows(db, 36500, today) <=> \E s \in db.sessions : r = RowOf(db)[s]
  <2>1. \A r : r \in V!HistoryRows(db, 36500, today) <=>
                 \E s \in db.sessions : s.day >= today - 36499 /\ r = RowOf(db)[s]
    BY RowsAre
  <2>2. QED BY <1>2, <2>1
<1>5. ASSUME NEW r
      PROVE  r \in V!HistoryRows(db, 30, today) <=>
               r \in V!HistoryRows(db, 36500, today) /\ r.day > today - 30
  BY <1>1, <1>2, <1>3, <1>4
<1>6. QED BY <1>5 DEF V!Csv

\* The full export has no credential, and every second there is, of every app and day,
\* unless one of the two tables cannot be read; it says which section is not whole
\* (build_export, dataexport.py:56-121).
THEOREM ExportHasAll ==
  ASSUME NEW db, NEW today, today \in Int, V!StoreOK(db, today), NEW unreadable
  PROVE  V!ExportIsWhole(db, today, unreadable, V!Export(db, today, unreadable))
<1> DEFINE T == V!HistoryRows(db, 36500, today)
           k == RowOf(db)
           h == [r \in T |-> r.sec]
<1>1. \A r : r \in T <=> \E s \in db.sessions : r = k[s]
  <2>1. \A r : r \in T <=> \E s \in db.sessions : s.day >= today - 36499 /\ r = k[s]
    BY RowsAre
  <2>2. \A s \in db.sessions : s.day \in Int /\ s.day > today - 36500
    BY DEF V!StoreOK
  <2>3. QED BY <2>1, <2>2
<1>2. ASSUME NEW s \in db.sessions
      PROVE  /\ k[s] = [app |-> s.app, day |-> s.day, sec |-> V!Total(SameDay(db, s))]
             /\ k[s].app = s.app /\ k[s].day = s.day /\ k[s].sec = V!Total(SameDay(db, s))
             /\ k[s] \in T
  <2>1. /\ k[s] = [app |-> s.app, day |-> s.day, sec |-> V!Total(SameDay(db, s))]
        /\ k[s].app = s.app /\ k[s].day = s.day /\ k[s].sec = V!Total(SameDay(db, s))
    BY DEF RowOf
  <2> HIDE DEF T, k
  <2>2. QED BY <1>1, <2>1
<1> HIDE DEF T, k
<1>3. ASSUME NEW r \in T PROVE h[r] = V!Total(Group(db.sessions, k, r))
  <2>1. PICK s \in db.sessions : r = k[s]
    BY <1>1
  <2>2. \A t \in db.sessions : k[t] = r <=> t.app = s.app /\ t.day = s.day
    <3>1. ASSUME NEW t \in db.sessions, k[t] = r PROVE t.app = s.app /\ t.day = s.day
      <4>1. k[t].app = t.app /\ k[t].day = t.day /\ k[s].app = s.app /\ k[s].day = s.day
        BY <1>2
      <4>2. QED BY <2>1, <3>1, <4>1
    <3>2. ASSUME NEW t \in db.sessions, t.app = s.app, t.day = s.day PROVE k[t] = r
      <4>1. SameDay(db, t) = SameDay(db, s)
        BY <3>2 DEF SameDay
      <4>2. QED BY <1>2, <2>1, <3>2, <4>1
    <3>3. QED BY <3>1, <3>2
  <2>3. Group(db.sessions, k, r) = SameDay(db, s)
    BY <2>2 DEF Group, SameDay
  <2>4. h[r] = V!Total(SameDay(db, s))
    BY <1>2, <2>1
  <2>5. QED BY <2>3, <2>4, Zenon
<1>4. IsFiniteSet(T)
  <2>1. T = Image(db.sessions, k)
    BY <1>1 DEF Image
  <2>2. QED BY <2>1, StoreIs, ImageIsFinite
<1>5. V!Total(T) = V!SumFunctionOnSet(h, T)
  BY DEF V!Total, V!SumFunction
<1> HIDE DEF h
<1>6. V!SumFunctionOnSet(h, T) = V!Total(db.sessions)
  <2>1. db.sessions \in SUBSET db.sessions /\ \A s \in db.sessions : k[s] \in T
    BY <1>2
  <2>2. QED BY <1>3, <1>4, <2>1, TotalOfGroups
<1>7. \A s \in db.sessions : \E r \in T : r.app = s.app /\ r.day = s.day
  <2> SUFFICES ASSUME NEW s \in db.sessions PROVE \E r \in T : r.app = s.app /\ r.day = s.day
    OBVIOUS
  <2>1. k[s].app = s.app /\ k[s].day = s.day /\ k[s] \in T
    BY <1>2
  <2>2. QED BY <2>1
<1> DEFINE export == V!Export(db, today, unreadable)
<1>8. /\ export.settings = IF "settings" \in unreadable THEN {} ELSE db.settings \ V!Credentials
      /\ export.apps = IF "tracked_apps" \in unreadable THEN {} ELSE db.apps
      /\ {"tracked_apps", "usage_sessions"} \cap unreadable = {} => export.history = T
      /\ "settings" \in unreadable => "settings" \in export.errors
      /\ "tracked_apps" \in unreadable =>
           "apps" \in export.errors /\ "history" \in export.errors
      /\ "usage_sessions" \in unreadable =>
           "history" \in export.errors \/ export.history = T
  <2> DEFINE reads == [settings |-> {"settings"},
                       apps |-> {"tracked_apps"},
                       history |-> {"tracked_apps"} \cup
                                   (IF db.apps = {} THEN {} ELSE {"usage_sessions"})]
             Lost(name) == reads[name] \cap unreadable # {}
  <2>1. /\ export.settings = IF Lost("settings") THEN {} ELSE db.settings \ V!Credentials
        /\ export.apps = IF Lost("apps") THEN {} ELSE db.apps
        /\ export.history = IF Lost("history") THEN {} ELSE T
        /\ export.errors = {name \in DOMAIN reads : Lost(name)}
    BY DEF V!Export, T
  <2>2. /\ DOMAIN reads = {"settings", "apps", "history"}
        /\ reads["settings"] = {"settings"} /\ reads["apps"] = {"tracked_apps"}
        /\ "tracked_apps" \in reads["history"]
        /\ reads["history"] \subseteq {"tracked_apps", "usage_sessions"}
    OBVIOUS
  <2> HIDE DEF reads
  <2>3. /\ Lost("settings") <=> "settings" \in unreadable
        /\ Lost("apps") <=> "tracked_apps" \in unreadable
        /\ "tracked_apps" \in unreadable => Lost("history")
        /\ {"tracked_apps", "usage_sessions"} \cap unreadable = {} => ~Lost("history")
    BY <2>2
  <2> HIDE DEF Lost, export
  <2>4. QED BY <2>1, <2>2, <2>3
<1> HIDE DEF export
<1>9. V!ExportIsWhole(db, today, unreadable, export)
  <2>1. export.settings \cap V!Credentials = {}
    BY <1>8
  <2>2. export.history = T => V!HoldsHistory(db, export)
    BY <1>5, <1>6, <1>7 DEF V!HoldsHistory
  <2>3. V!HoldsHistory(db, export) \/ "history" \in export.errors
    BY <1>8, <2>2
  <2> DEFINE whole == [settings |-> export.settings = db.settings \ V!Credentials,
                       apps |-> export.apps = db.apps,
                       history |-> V!HoldsHistory(db, export)]
  <2>4. /\ whole.settings <=> export.settings = db.settings \ V!Credentials
        /\ whole.apps <=> export.apps = db.apps
        /\ whole.history <=> V!HoldsHistory(db, export)
        /\ DOMAIN whole = {"settings", "apps", "history"}
        /\ whole["settings"] = whole.settings /\ whole["apps"] = whole.apps
        /\ whole["history"] = whole.history
    OBVIOUS
  <2> HIDE DEF whole
  <2>5. \A name \in DOMAIN whole : whole[name] \/ name \in export.errors
    BY <1>8, <2>3, <2>4
  <2>6. /\ "settings" \notin unreadable => whole.settings
        /\ "tracked_apps" \notin unreadable =>
             whole.apps /\ ("usage_sessions" \notin unreadable => whole.history)
    BY <1>8, <2>2, <2>4
  <2>7. QED BY <2>1, <2>5, <2>6 DEF V!ExportIsWhole, whole
<1>10. QED BY <1>9 DEF export

-----------------------------------------------------------------------------
(* The Insights tab *)

LEMMA SmallestOfTwo == ASSUME NEW a \in Int, NEW b \in Int
                       PROVE  V!Min({a, b}) = IF a <= b THEN a ELSE b
<1>1. CASE a <= b BY <1>1 DEF V!Min
<1>2. CASE b < a BY <1>2 DEF V!Min
<1>3. QED BY <1>1, <1>2

LEMMA LargestOfTwo == ASSUME NEW a \in Int, NEW b \in Int
                      PROVE  V!Max({a, b}) = IF a >= b THEN a ELSE b
<1>1. CASE a >= b BY <1>1 DEF V!Max
<1>2. CASE b > a BY <1>2 DEF V!Max
<1>3. QED BY <1>1, <1>2

LEMMA LargestOfMany ==
  ASSUME NEW U, IsFiniteSet(U), U \subseteq Int, U # {}
  PROVE  V!Max(U) \in U /\ \A x \in U : V!Max(U) >= x
<1> DEFINE T == {A \in SUBSET U : A # {} /\ ~ \E m \in A : \A x \in A : m >= x}
<1>1. T = {}
  <2> SUFFICES ASSUME T # {} PROVE FALSE
    OBVIOUS
  <2>1. PICK A \in T : \A B \in SUBSET A : B # A => B \notin T
    <3>1. T \in SUBSET SUBSET U
      OBVIOUS
    <3> HIDE DEF T
    <3>2. QED BY <3>1, SmallestSubset
  <2>2. PICK y : y \in A
    BY <2>1
  <2>3. CASE A \ {y} = {}
    BY <2>1, <2>2, <2>3
  <2>4. CASE A \ {y} # {}
    <3>1. A \ {y} \notin T /\ A \ {y} \in SUBSET U
      BY <2>1, <2>2
    <3>2. PICK m \in A \ {y} : \A x \in A \ {y} : m >= x
      BY <2>4, <3>1
    <3>3. m \in Int /\ y \in Int /\ A \subseteq Int
      BY <2>1, <2>2, <3>2
    <3>4. \A x \in A : (IF m >= y THEN m ELSE y) >= x
      BY <3>2, <3>3
    <3>5. QED BY <2>1, <2>2, <3>2, <3>4
  <2>5. QED BY <2>3, <2>4
<1>2. \E m \in U : \A x \in U : m >= x
  BY <1>1
<1>3. QED BY <1>2 DEF V!Max

LEMMA SmallestOfMany ==
  ASSUME NEW U, U \subseteq Nat, U # {}
  PROVE  V!Min(U) \in U /\ \A x \in U : V!Min(U) <= x
<1>1. \E m \in U : \A x \in U : m <= x
  <2>1. PICK n : n \in U
    OBVIOUS
  <2> DEFINE T == {0 - x : x \in {y \in U : y <= n}}
  <2>2. IsFiniteSet(T)
    <3>1. IsFiniteSet((0 - n)..0)
      BY <2>1, FS_Interval
    <3>2. T \in SUBSET ((0 - n)..0)
      BY <2>1
    <3> HIDE DEF T
    <3>3. QED BY <3>1, <3>2, FS_Subset
  <2>3. T \subseteq Int /\ 0 - n \in T
    BY <2>1
  <2>4. PICK k \in T : \A x \in T : k >= x
    <3> HIDE DEF T
    <3>1. QED BY <2>2, <2>3, LargestOfMany
  <2>5. PICK m \in U : k = 0 - m /\ m <= n
    BY <2>4
  <2>6. ASSUME NEW x \in U PROVE m <= x
    <3>1. CASE x <= n
      BY <2>4, <2>5, <3>1
    <3>2. CASE x > n
      BY <2>1, <2>5, <3>2
    <3>3. x \in Int /\ n \in Int
      BY <2>1
    <3>4. QED BY <3>1, <3>2, <3>3
  <2>7. QED BY <2>6
<1>2. QED BY <1>1 DEF V!Min

LEMMA SizeIs == ASSUME NEW U PROVE V!Cardinality(U) = Cardinality(U)
  BY DEF V!Cardinality, Cardinality

\* An order is a sequence of all the apps.
LEMMA OrderIs ==
  ASSUME NEW apps, IsFiniteSet(DOMAIN apps), NEW order \in V!Orders(apps)
  PROVE  LET n == Cardinality(DOMAIN apps)
         IN  /\ n \in Nat /\ Len(order) = n /\ DOMAIN order = 1..n
             /\ order \in [1..n -> DOMAIN apps]
             /\ \A i, j \in 1..n : i # j => order[i] # order[j]
             /\ \A a \in DOMAIN apps : \E i \in 1..n : order[i] = a
             /\ \A i, j \in 1..n : i < j => apps[order[i]] >= apps[order[j]]
<1> DEFINE n == Cardinality(DOMAIN apps)
<1>1. n \in Nat
  BY FS_CardinalityType
<1>2. V!Cardinality(DOMAIN apps) = n
  BY SizeIs
<1> HIDE DEF n
<1>3. /\ order \in [1..n -> DOMAIN apps]
      /\ \A i, j \in 1..n : i # j => order[i] # order[j]
      /\ \A i, j \in DOMAIN order : i < j => apps[order[i]] >= apps[order[j]]
  BY <1>2 DEF V!Orders, V!SetToSeqs
<1>4. DOMAIN order = 1..n /\ Len(order) = n
  BY <1>1, <1>3
<1>5. order \in Injection(1..n, DOMAIN apps)
  BY <1>3 DEF Injection, IsInjective
<1>6. IsFiniteSet(1..n) /\ Cardinality(1..n) = Cardinality(DOMAIN apps)
  BY <1>1, FS_Interval DEF n
<1>7. order \in Surjection(1..n, DOMAIN apps)
  BY <1>5, <1>6, FS_Injection
<1>8. \A a \in DOMAIN apps : \E i \in 1..n : order[i] = a
  BY <1>7 DEF Surjection
<1>9. QED BY <1>1, <1>3, <1>4, <1>8 DEF n

LEMMA TopIsHeaviest ==
  ASSUME NEW apps, IsFiniteSet(DOMAIN apps), \A a \in DOMAIN apps : apps[a] \in Nat,
         NEW order \in V!Orders(apps),
         NEW shown, shown = {V!TopApps(apps, order)[i].app : i \in DOMAIN V!TopApps(apps, order)}
  PROVE  /\ V!Cardinality(shown) = V!Min({3, V!Cardinality(DOMAIN apps)})
         /\ \A a \in DOMAIN apps \ shown, b \in shown : apps[a] <= apps[b]
<1> DEFINE n == Cardinality(DOMAIN apps)
           m == IF 3 <= n THEN 3 ELSE n
           top == V!TopApps(apps, order)
<1>1. /\ n \in Nat /\ Len(order) = n /\ DOMAIN order = 1..n
      /\ order \in [1..n -> DOMAIN apps]
      /\ \A i, j \in 1..n : i # j => order[i] # order[j]
      /\ \A a \in DOMAIN apps : \E i \in 1..n : order[i] = a
      /\ \A i, j \in 1..n : i < j => apps[order[i]] >= apps[order[j]]
  BY OrderIs
<1> HIDE DEF n
<1>2. m \in Nat /\ m <= n
  BY <1>1
<1>3. V!Min({3, n}) = m
  BY <1>1, SmallestOfTwo
<1> HIDE DEF m
<1>4. V!FirstOf(order, 3) = SubSeq(order, 1, m)
  BY <1>1, <1>3 DEF V!FirstOf
<1>5. /\ DOMAIN SubSeq(order, 1, m) = 1..m
      /\ \A i \in 1..m : SubSeq(order, 1, m)[i] = order[i]
  BY <1>1, <1>2
<1>6. /\ DOMAIN top = 1..m
      /\ \A i \in 1..m : top[i].app = order[i]
  BY <1>4, <1>5 DEF V!TopApps
<1> HIDE DEF top
<1>7. \A a : a \in shown <=> \E i \in 1..m : a = order[i]
  BY <1>6 DEF top
<1>8. V!Cardinality(shown) = m
  <2> DEFINE f == [i \in 1..m |-> order[i]]
  <2>1. f \in [1..m -> shown]
    BY <1>7
  <2>2. \A i, j \in 1..m : f[i] = f[j] => i = j
    BY <1>1, <1>2
  <2>3. \A a \in shown : \E i \in 1..m : f[i] = a
    BY <1>7
  <2> HIDE DEF f
  <2>4. f \in Bijection(1..m, shown)
    BY <2>1, <2>2, <2>3 DEF Bijection, Injection, IsInjective, Surjection
  <2>5. ExistsBijection(1..m, shown)
    BY <2>4 DEF ExistsBijection
  <2>6. Cardinality(shown) = m
    BY <1>2, <2>5, FS_CountingElements
  <2>7. QED BY <2>6, SizeIs
<1>9. ASSUME NEW a \in DOMAIN apps, a \notin shown, NEW b \in shown
      PROVE  apps[a] <= apps[b]
  <2>1. PICK i \in 1..n : order[i] = a
    BY <1>1
  <2>2. PICK j \in 1..m : order[j] = b
    BY <1>7
  <2>3. i \notin 1..m
    BY <1>7, <1>9, <2>1
  <2>4. j < i /\ j \in 1..n
    BY <1>1, <1>2, <2>3
  <2>5. apps[order[j]] >= apps[order[i]]
    BY <1>1, <2>4
  <2>6. b \in DOMAIN apps
    BY <1>1, <2>2, <2>4
  <2>7. QED BY <2>1, <2>2, <2>5, <2>6
<1>10. V!Cardinality(DOMAIN apps) = n
  BY SizeIs DEF n
<1>11. QED BY <1>3, <1>8, <1>9, <1>10

\* The bar of an hour with x seconds, where m is most.
LEMMA Quotient ==
  ASSUME NEW m \in Nat, m > 0, NEW x \in Nat, x <= m
  PROVE  (x * 60) \div m \in 0..60 /\ (m * 60) \div m = 60
<1>1. (x * 60) \div m \in 0..60
  OBVIOUS
<1>2. (m * 60) \div m = 60
  OBVIOUS
<1>3. QED BY <1>1, <1>2

LEMMA TallestIsPeak ==
  ASSUME NEW hours, IsFiniteSet(DOMAIN hours), DOMAIN hours \subseteq 0..23,
         \A h \in DOMAIN hours : hours[h] \in Nat,
         NEW used \in DOMAIN hours, hours[used] > 0
  PROVE  /\ V!PeakChart(hours).bars[V!PeakChart(hours).peak] = 60
         /\ \A h \in 0..23 : V!PeakChart(hours).bars[h] \in 2..60
<1> DEFINE U == {hours[h] : h \in DOMAIN hours}
           most == V!Max(U)
           Sec(h) == IF h \in DOMAIN hours THEN hours[h] ELSE 0
           bars == [h \in 0..23 |-> IF most = 0 THEN 2 ELSE V!Max({2, (Sec(h) * 60) \div most})]
           P == {h \in DOMAIN hours : hours[h] = most}
           peak == V!Min(P)
<1>1. most \in U /\ \A x \in U : most >= x
  <2>1. U = Image(DOMAIN hours, hours)
    BY DEF Image
  <2>2. U \subseteq Int /\ U # {}
    OBVIOUS
  <2> HIDE DEF U
  <2>3. QED BY <2>1, <2>2, ImageIsFinite, LargestOfMany
<1>2. V!PeakChart(hours) = [peak |-> peak, bars |-> bars]
  BY DEF V!PeakChart
<1> HIDE DEF most
<1>3. most \in Nat /\ most > 0 /\ \A h \in DOMAIN hours : hours[h] <= most
  BY <1>1
<1>4. peak \in DOMAIN hours /\ hours[peak] = most
  <2>1. P \subseteq Nat /\ P # {}
    BY <1>1
  <2> HIDE DEF P
  <2>2. peak \in P
    BY <2>1, SmallestOfMany
  <2>3. QED BY <2>2 DEF P
<1> HIDE DEF peak
<1>5. ASSUME NEW h \in 0..23
      PROVE  bars[h] \in 2..60 /\ (h = peak => bars[h] = 60)
  <2>1. Sec(h) \in Nat /\ Sec(h) <= most /\ (h = peak => Sec(h) = most)
    BY <1>3, <1>4
  <2> DEFINE q == (Sec(h) * 60) \div most
  <2>2. bars[h] = V!Max({2, q})
    BY <1>3
  <2> HIDE DEF Sec
  <2>3. q \in 0..60 /\ (h = peak => q = 60)
    BY <1>3, <2>1, Quotient
  <2> HIDE DEF q, bars
  <2>4. V!Max({2, q}) = IF 2 >= q THEN 2 ELSE q
    BY <2>3, LargestOfTwo
  <2>5. QED BY <2>2, <2>3, <2>4
<1> HIDE DEF bars
<1>6. QED BY <1>2, <1>4, <1>5

LEMMA TotalHasTerm ==
  ASSUME NEW db, NEW today, V!StoreOK(db, today), NEW Q \in SUBSET db.sessions
  PROVE  V!Total(Q) > 0 <=> \E s \in Q : s.sec > 0
<1> DEFINE f == Secs(db)
<1>1. /\ IsFiniteSet(Q) /\ V!Total(Q) = V!SumFunctionOnSet(f, Q)
      /\ \A s \in Q : f[s] = s.sec /\ f[s] \in Nat
  BY TotalIs
<1> HIDE DEF f
<1>2. ASSUME ~ \E s \in Q : s.sec > 0 PROVE V!Total(Q) = 0
  BY <1>1, <1>2, SumHasTerm
<1>3. ASSUME NEW s \in Q, s.sec > 0 PROVE V!Total(Q) > 0
  <2>1. Q \in SUBSET Q /\ Q \ {s} \in SUBSET Q
    OBVIOUS
  <2>2. V!SumFunctionOnSet(f, Q) = f[s] + V!SumFunctionOnSet(f, Q \ {s})
    BY <1>1, <2>1, SumWithout
  <2>3. V!SumFunctionOnSet(f, Q \ {s}) \in Nat
    BY <1>1, <2>1, SumIsNat
  <2>4. f[s] \in Nat /\ f[s] > 0
    BY <1>1, <1>3
  <2>5. QED BY <1>1, <2>2, <2>3, <2>4
<1>4. QED BY <1>2, <1>3

\* The Insights tab agrees with what was recorded, whichever way it breaks ties: its top
\* three, its shares and the peak of its chart (insights_page.py:94-409).
THEOREM TabAgrees ==
  ASSUME NEW db, NEW today, today \in Int, V!StoreOK(db, today),
         NEW order \in V!Orders(V!AppsThisWeek(db, today))
  PROVE  V!InsightsAgree(db, today, V!Insights(db, today, order))
<1> DEFINE W == V!ThisWeek(db.sessions, today)
           apps == V!AppsThisWeek(db, today)
           categories == V!CategoriesThisWeek(db, today)
           hours == V!PeakHours(db, 7, today)
           total == V!SumFunction(categories)
           shares == V!Shares(categories)
           chart == V!PeakChart(hours)
           top == V!TopApps(apps, order)
           used == \E a \in DOMAIN apps : apps[a] > 0
           Q == V!LastDays(db.sessions, 7, today)
<1>1. W \in SUBSET db.sessions /\ W \in SUBSET Q /\ Q \in SUBSET db.sessions
  BY StoreIs DEF V!ThisWeek, V!LastDays
<1>2. apps = V!ByApp(db, W)
  BY DEF V!AppsThisWeek
<1>3. /\ IsFiniteSet(DOMAIN hours) /\ DOMAIN hours \subseteq 0..23
      /\ DOMAIN hours = {s.hour : s \in Q}
      /\ V!SumFunction(hours) = V!Total(Q)
  BY PeakHoursIs
<1>4. \A h \in DOMAIN hours : hours[h] = V!Total(Group(Q, Hours(db), h)) /\ hours[h] \in Nat
  BY PeakHoursIs
<1> HIDE DEF W, Q, apps, hours
<1>5. /\ IsFiniteSet(DOMAIN apps)
      /\ \A a \in DOMAIN apps : apps[a] = V!Total(V!Of(W, a)) /\ apps[a] \in Nat
  BY <1>1, <1>2, ByAppIs
<1>6. ASSUME used PROVE total > 0
  <2>1. PICK a \in DOMAIN apps : apps[a] > 0
    BY <1>6
  <2>2. total = V!SumFunctionOnSet(apps, DOMAIN apps)
    BY CategoriesAre DEF V!SumFunction, apps
  <2> HIDE DEF total
  <2> DEFINE D == DOMAIN apps
  <2>3. D \in SUBSET D /\ D \ {a} \in SUBSET D
    OBVIOUS
  <2>4. V!SumFunctionOnSet(apps, D) = apps[a] + V!SumFunctionOnSet(apps, D \ {a})
    BY <1>5, <2>3, SumWithout
  <2>5. V!SumFunctionOnSet(apps, D \ {a}) \in Nat
    BY <1>5, <2>3, SumIsNat
  <2>6. apps[a] \in Nat
    BY <1>5
  <2>7. QED BY <2>1, <2>2, <2>4, <2>5, <2>6
<1>7. ASSUME used PROVE \E h \in DOMAIN hours : hours[h] > 0
  <2>1. PICK a \in DOMAIN apps : V!Total(V!Of(W, a)) > 0
    BY <1>5, <1>7
  <2>2. V!Of(W, a) \in SUBSET db.sessions
    BY <1>1 DEF V!Of
  <2>3. PICK s \in V!Of(W, a) : s.sec > 0
    BY <2>1, <2>2, TotalHasTerm
  <2>4. s \in Q /\ s \in db.sessions
    BY <1>1, <2>3 DEF V!Of
  <2> DEFINE G == Group(Q, Hours(db), s.hour)
  <2>5. s \in G /\ G \in SUBSET db.sessions
    BY <1>1, <2>4 DEF Group, Hours
  <2>6. V!Total(G) > 0
    <3> HIDE DEF G
    <3>1. QED BY <2>3, <2>5, TotalHasTerm
  <2>7. s.hour \in DOMAIN hours
    BY <1>3, <2>4
  <2>8. hours[s.hour] = V!Total(G)
    BY <1>4, <2>7
  <2>9. QED BY <2>6, <2>7, <2>8
<1>8. ASSUME used
      PROVE  chart.bars[chart.peak] = 60 /\ \A h \in 0..23 : chart.bars[h] \in 2..60
  <2>1. PICK h \in DOMAIN hours : hours[h] > 0
    BY <1>7, <1>8
  <2>2. QED BY <1>3, <1>4, <2>1, TallestIsPeak
<1>9. /\ DOMAIN shares = DOMAIN categories
      /\ [c \in DOMAIN shares |-> shares[c][1]] = categories
      /\ used => \A c \in DOMAIN shares : shares[c][2] = total
  <2>1. /\ DOMAIN shares = DOMAIN categories
        /\ \A c \in DOMAIN categories :
             shares[c][1] = categories[c] /\ shares[c][2] = IF total = 0 THEN 1 ELSE total
    BY DEF V!Shares
  <2>2. categories = [c \in DOMAIN categories |-> categories[c]]
    BY DEF V!CategoriesThisWeek
  <2> HIDE DEF shares, categories
  <2>3. [c \in DOMAIN shares |-> shares[c][1]] = categories
    BY <2>1, <2>2
  <2>4. used => total # 0
    BY <1>6
  <2>5. QED BY <2>1, <2>3, <2>4
<1> DEFINE shown == {top[i].app : i \in DOMAIN top}
<1>10. /\ V!Cardinality(shown) = V!Min({3, V!Cardinality(DOMAIN apps)})
       /\ \A a \in DOMAIN apps \ shown, b \in shown : apps[a] <= apps[b]
  <2>1. order \in V!Orders(apps)
    BY DEF apps
  <2>2. QED BY <1>5, <2>1, TopIsHeaviest
<1> DEFINE view == V!Insights(db, today, order)
<1>11. view.top = top /\ view.chart = chart /\ view.shares = shares
  BY DEF V!Insights, apps, hours
<1> HIDE DEF view, top, chart, shares, categories
<1>12. V!SumFunction([c \in DOMAIN view.shares |-> view.shares[c][1]]) = total
  BY <1>9, <1>11, Zenon
<1>13. /\ V!Cardinality({view.top[i].app : i \in DOMAIN view.top}) =
            V!Min({3, V!Cardinality(DOMAIN apps)})
       /\ \A a \in DOMAIN apps \ {view.top[i].app : i \in DOMAIN view.top},
             b \in {view.top[i].app : i \in DOMAIN view.top} : apps[a] <= apps[b]
  BY <1>10, <1>11, Zenon
<1>14. used => \A c \in DOMAIN view.shares :
                 view.shares[c][2] = V!SumFunction([d \in DOMAIN view.shares |-> view.shares[d][1]])
  BY <1>9, <1>11, <1>12, Zenon
<1>15. view.chart.bars # <<>> /\ used =>
         /\ view.chart.bars[view.chart.peak] = 60
         /\ \A h \in 0..23 : view.chart.bars[h] \in 2..60
  BY <1>8, <1>11, Zenon
<1>16. V!InsightsAgree(db, today, view)
  BY <1>13, <1>14, <1>15, Zenon DEF V!InsightsAgree, apps
<1>17. QED BY <1>16 DEF view

-----------------------------------------------------------------------------
(* The key of an app *)

LEMMA LeastIs == ASSUME NEW U, U \subseteq Nat, U # {}
                 PROVE  K!Min(U) \in U /\ \A x \in U : K!Min(U) <= x
  BY SmallestOfMany DEF V!Min, K!Min

LEMMA GreatestIs == ASSUME NEW U, IsFiniteSet(U), U \subseteq Int, U # {}
                    PROVE  K!Max(U) \in U /\ \A x \in U : K!Max(U) >= x
  BY LargestOfMany DEF V!Max, K!Max

\* How many of the positions come up to one of them.
LEMMA CountUpTo ==
  ASSUME NEW n \in Nat, NEW U \in SUBSET (1..n)
  PROVE  /\ \A i : K!Cardinality(U \cap 1..i) \in Nat
         /\ K!Cardinality(U \cap 1..0) = 0 /\ K!Cardinality(U \cap 1..n) = K!Cardinality(U)
         /\ \A i \in 1..n :
              K!Cardinality(U \cap 1..i) =
                K!Cardinality(U \cap 1..(i - 1)) + (IF i \in U THEN 1 ELSE 0)
         /\ IsFiniteSet(U)
<1>1. IsFiniteSet(1..n)
  BY FS_Interval
<1>2. IsFiniteSet(U) /\ \A i : U \cap 1..i \in SUBSET U
  BY <1>1, FS_Subset
<1>3. \A i : IsFiniteSet(U \cap 1..i) /\ Cardinality(U \cap 1..i) \in Nat
  <2>1. \A i : IsFiniteSet(U \cap 1..i)
    BY <1>2, FS_Subset
  <2>2. QED BY <2>1, FS_CardinalityType
<1>4. U \cap 1..0 = {} /\ U \cap 1..n = U
  <2>1. 1..0 = {}
    BY SMT
  <2>2. QED BY <2>1, Zenon
<1>5. ASSUME NEW i \in 1..n
      PROVE  Cardinality(U \cap 1..i) =
               Cardinality(U \cap 1..(i - 1)) + (IF i \in U THEN 1 ELSE 0)
  <2> DEFINE before == U \cap 1..(i - 1)
  <2>1. i \notin before /\ (i \in U => U \cap 1..i = before \cup {i})
        /\ (i \notin U => U \cap 1..i = before)
    BY SMT
  <2>2. IsFiniteSet(before) /\ Cardinality(before) \in Nat
    BY <1>3
  <2> HIDE DEF before
  <2>3. Cardinality(before \cup {i}) = Cardinality(before) + 1
    BY <2>1, <2>2, FS_AddElement
  <2>4. CASE i \in U
    <3>1. U \cap 1..i = before \cup {i}
      BY <2>1, <2>4
    <3>2. Cardinality(U \cap 1..i) = Cardinality(before) + 1
      BY <2>3, <3>1
    <3>3. QED BY <2>4, <3>2 DEF before
  <2>5. CASE i \notin U
    <3>1. U \cap 1..i = before
      BY <2>1, <2>5
    <3>2. Cardinality(U \cap 1..i) = Cardinality(before)
      BY <3>1, Zenon
    <3>3. QED BY <2>2, <2>5, <3>2 DEF before
  <2>6. QED BY <2>4, <2>5
<1>6. Cardinality({}) = 0
  BY FS_EmptySet
<1>7. \A A : K!Cardinality(A) = Cardinality(A)
  BY DEF K!Cardinality, Cardinality
<1>8. QED BY <1>2, <1>3, <1>4, <1>5, <1>6, <1>7

\* The k-th is there while there are k.
LEMMA NthIs ==
  ASSUME NEW n \in Nat, NEW U \in SUBSET (1..n), NEW k \in 1..K!Cardinality(U)
  PROVE  K!Nth(U, k) \in U
<1> DEFINE count(i) == K!Cardinality(U \cap 1..i)
           T == {i \in 1..n : k <= count(i)}
           m == K!Min(T)
<1>1. /\ \A i : count(i) \in Nat
      /\ count(0) = 0 /\ count(n) = K!Cardinality(U)
      /\ \A i \in 1..n : count(i) = count(i - 1) + (IF i \in U THEN 1 ELSE 0)
  BY CountUpTo
<1> HIDE DEF count
<1>2. n \in T /\ T \subseteq Nat
  <2>1. n # 0
    BY <1>1
  <2>2. QED BY <1>1, <2>1
<1>3. m \in T /\ \A x \in T : m <= x
  BY <1>2, LeastIs
<1> HIDE DEF m
<1>4. count(m - 1) < k
  <2>1. CASE m = 1
    BY <1>1, <2>1
  <2>2. CASE m # 1
    <3>1. m - 1 \in 1..n /\ m - 1 \notin T
      BY <1>3, <2>2
    <3>2. QED BY <1>1, <3>1
  <2>3. QED BY <2>1, <2>2
<1>5. m \in U /\ count(m) = k
  BY <1>1, <1>3, <1>4
<1>6. QED BY <1>5 DEF K!Nth, count

\* There is one k-th.
LEMMA NthIsThe ==
  ASSUME NEW n \in Nat, NEW U \in SUBSET (1..n), NEW i \in U
  PROVE  K!Nth(U, K!Cardinality(U \cap 1..i)) = i
<1> DEFINE k == K!Cardinality(U \cap 1..i)
           j == K!Nth(U, k)
<1>1. j \in U /\ K!Cardinality(U \cap 1..j) = k
  BY DEF K!Nth
<1>2. ASSUME NEW a \in U, NEW b \in U, a < b,
             K!Cardinality(U \cap 1..a) = K!Cardinality(U \cap 1..b)
      PROVE  FALSE
  <2>1. IsFiniteSet(U \cap 1..b)
    BY CountUpTo, FS_Subset
  <2>2. U \cap 1..a \in SUBSET (U \cap 1..b) /\ b \in U \cap 1..b /\ b \notin U \cap 1..a
    BY <1>2
  <2>3. QED BY <1>2, <2>1, <2>2, FS_Subset DEF K!Cardinality, Cardinality
<1> HIDE DEF j
<1>3. i \in Int /\ j \in Int
  BY <1>1
<1>4. j = i
  BY <1>1, <1>2, <1>3
<1>5. QED BY <1>4 DEF j

\* The tokens at some positions are none exactly if there are no positions.
LEMMA NoTokens ==
  ASSUME NEW W, NEW name \in Seq(W), NEW U \in SUBSET DOMAIN name
  PROVE  K!TokensAt(name, U) = <<>> <=> U = {}
<1>1. U \in SUBSET (1..Len(name)) /\ Len(name) \in Nat
  OBVIOUS
<1>2. IsFiniteSet(U) /\ K!Cardinality(U) \in Nat
  BY <1>1, CountUpTo
<1>3. K!Cardinality(U) = 0 <=> U = {}
  BY <1>2, FS_EmptySet DEF K!Cardinality, Cardinality
<1>4. DOMAIN K!TokensAt(name, U) = 1..K!Cardinality(U)
  BY DEF K!TokensAt
<1>5. K!TokensAt(name, U) = [k \in 1..K!Cardinality(U) |-> name[K!Nth(U, k)]]
  BY DEF K!TokensAt
<1>6. K!Cardinality(U) = 0 => K!TokensAt(name, U) = <<>>
  BY <1>5
<1>7. K!Cardinality(U) # 0 => 1 \in DOMAIN K!TokensAt(name, U)
  BY <1>2, <1>4
<1>8. QED BY <1>3, <1>6, <1>7

\* A sequence of one.
LEMMA OneIsAll ==
  ASSUME NEW T, NEW s \in Seq(T), Len(s) = 1
  PROVE  s = <<s[1]>>
<1>1. s = [k \in 1..1 |-> s[k]]
  OBVIOUS
<1>2. [k \in 1..1 |-> s[1]] = <<s[1]>>
  OBVIOUS
<1>3. \A k \in 1..1 : s[k] = s[1]
  OBVIOUS
<1>4. QED BY <1>1, <1>2, <1>3

LEMMA PartOfSeq ==
  ASSUME NEW T, NEW s \in Seq(T), NEW i \in 1..Len(s), NEW j \in 1..Len(s)
  PROVE  SubSeq(s, i, j) \in Seq(T)
OBVIOUS

\* The only one of the tokens.
LEMMA OneToken ==
  ASSUME NEW W, NEW name \in Seq(W), NEW i \in DOMAIN name
  PROVE  K!TokensAt(name, {i}) = <<name[i]>>
<1>1. {i} \in SUBSET (1..Len(name)) /\ Len(name) \in Nat
  OBVIOUS
<1>2. K!Cardinality({i}) = 1 /\ {i} \cap 1..i = {i}
  <2>1. Cardinality({i}) = 1
    BY FS_Singleton
  <2>2. {i} \cap 1..i = {i}
    BY SMT
  <2>3. QED BY <2>1, <2>2 DEF K!Cardinality, Cardinality
<1>3. K!Nth({i}, 1) = i
  <2> DEFINE U == {i}
  <2>1. i \in U /\ U \in SUBSET (1..Len(name))
    BY <1>1
  <2>2. K!Cardinality(U \cap 1..i) = 1
    BY <1>2, Zenon
  <2> HIDE DEF U
  <2>3. K!Nth(U, 1) = i
    BY <1>1, <2>1, <2>2, NthIsThe
  <2>4. QED BY <2>3 DEF U
<1>4. K!TokensAt(name, {i}) = [k \in 1..1 |-> name[K!Nth({i}, k)]]
  BY <1>2 DEF K!TokensAt
<1> DEFINE tokens == K!TokensAt(name, {i})
<1> HIDE DEF tokens
<1>5. tokens = [k \in 1..1 |-> name[K!Nth({i}, k)]]
  BY <1>4 DEF tokens
<1>6. tokens \in Seq({name[i]}) /\ Len(tokens) = 1 /\ tokens[1] = name[i]
  BY <1>3, <1>5
<1>7. tokens = <<name[i]>>
  BY <1>6, OneIsAll
<1>8. QED BY <1>7 DEF tokens

\* strip() takes the tokens from the first to the last that is not a space.
LEMMA StrippedIs ==
  ASSUME NEW W, NEW name \in Seq(W)
  PROVE  /\ K!Stripped(name) \in Seq(W)
         /\ \E d \in Nat :
              \A j \in DOMAIN name :
                name[j] # K!Space =>
                  j - d \in DOMAIN K!Stripped(name) /\ K!Stripped(name)[j - d] = name[j]
<1> DEFINE inner == {i \in DOMAIN name : name[i] # K!Space}
           from == K!Min(inner)
           to == K!Max(inner)
<1>1. inner \subseteq 1..Len(name) /\ Len(name) \in Nat /\ DOMAIN name = 1..Len(name)
  OBVIOUS
<1>2. CASE inner = {}
  <2>1. K!Stripped(name) = <<>>
    BY <1>2 DEF K!Stripped
  <2>2. \A j \in DOMAIN name : name[j] = K!Space
    BY <1>2
  <2>3. QED BY <2>1, <2>2
<1>3. CASE inner # {}
  <2>1. IsFiniteSet(inner) /\ inner \subseteq Nat /\ inner \subseteq Int
    <3>1. IsFiniteSet(1..Len(name))
      BY <1>1, FS_Interval
    <3>2. inner \subseteq Nat /\ inner \subseteq Int
      BY <1>1
    <3> HIDE DEF inner
    <3>3. QED BY <1>1, <3>1, <3>2, FS_Subset
  <2>2. from \in inner /\ to \in inner /\ \A j \in inner : from <= j /\ j <= to
    BY <1>3, <2>1, LeastIs, GreatestIs
  <2>3. K!Stripped(name) = SubSeq(name, from, to)
    BY <1>3, Zenon DEF K!Stripped
  <2> HIDE DEF from, to
  <2>4. from \in 1..Len(name) /\ to \in 1..Len(name) /\ from - 1 \in Nat
    BY <1>1, <2>2
  <2>5. SubSeq(name, from, to) \in Seq(W)
    BY <1>1, <2>4
  <2>6. ASSUME NEW j \in DOMAIN name, name[j] # K!Space
        PROVE  /\ j - (from - 1) \in DOMAIN SubSeq(name, from, to)
               /\ SubSeq(name, from, to)[j - (from - 1)] = name[j]
    <3>1. from <= j /\ j <= to /\ j \in 1..Len(name)
      BY <1>1, <2>2, <2>6
    <3> HIDE DEF inner
    <3>2. QED BY <1>1, <2>4, <3>1
  <2>7. QED BY <2>3, <2>4, <2>5, <2>6
<1>4. QED BY <1>2, <1>3

\* A segment is never empty, and has no dot in it.
LEMMA SegmentsAre ==
  ASSUME NEW W, NEW name \in Seq(W)
  PROVE  K!Segments(name) \in Seq({s \in Seq({w \in W : w # K!Dot}) : s # <<>>})
<1> DEFINE Open(i) == i \in DOMAIN name /\ name[i] # K!Dot
           starts == {i \in DOMAIN name : Open(i) /\ ~Open(i - 1)}
           End(i) == K!Min({j \in i..Len(name) : ~Open(j + 1)})
           n == K!Cardinality(starts)
           Part(k) == SubSeq(name, K!Nth(starts, k), End(K!Nth(starts, k)))
           P == {s \in Seq({w \in W : w # K!Dot}) : s # <<>>}
<1>1. Len(name) \in Nat /\ DOMAIN name = 1..Len(name) /\ starts \in SUBSET (1..Len(name))
  OBVIOUS
<1>2. n \in Nat
  <2>1. starts \cap 1..Len(name) = starts
    BY <1>1
  <2> HIDE DEF starts
  <2>2. QED BY <1>1, <2>1, CountUpTo
<1>3. K!Segments(name) = [k \in 1..n |-> Part(k)]
  BY DEF K!Segments
<1>4. ASSUME NEW i \in starts PROVE SubSeq(name, i, End(i)) \in P
  <2> DEFINE ends == {j \in i..Len(name) : ~Open(j + 1)}
             e == K!Min(ends)
  <2>1. Len(name) \in ends /\ ends \subseteq Nat /\ i \in 1..Len(name) /\ Open(i)
    BY <1>1
  <2>2. e \in ends /\ \A j \in ends : e <= j
    <3> HIDE DEF ends
    <3>1. QED BY <2>1, LeastIs
  <2> HIDE DEF e
  <2>3. e \in i..Len(name)
    BY <2>2
  <2>4. ASSUME NEW j \in i..e PROVE Open(j)
    <3>1. CASE j = i
      BY <2>1, <3>1
    <3>2. CASE j # i
      <4>1. j - 1 \in i..Len(name) /\ j - 1 < e /\ (j - 1) + 1 = j
        BY <1>1, <2>1, <2>3, <3>2
      <4>2. j - 1 \notin ends
        BY <2>2, <2>3, <4>1
      <4> HIDE DEF Open
      <4>3. QED BY <4>1, <4>2
    <3>3. QED BY <3>1, <3>2
  <2>5. \A j \in i..e : name[j] \in {w \in W : w # K!Dot}
    <3>1. \A j \in i..e : name[j] \in W
      BY <1>1, <2>1, <2>3
    <3>2. QED BY <2>4, <3>1
  <2>6. Len(SubSeq(name, i, e)) = e - i + 1 /\ e - i + 1 > 0
    BY <1>1, <2>1, <2>3
  <2>7. SubSeq(name, i, e) = [k \in 1..e - i + 1 |-> name[i + k - 1]]
    BY <1>1, <2>1, <2>3
  <2>8. SubSeq(name, i, e) \in Seq({w \in W : w # K!Dot})
    <3>1. \A k \in 1..e - i + 1 : name[i + k - 1] \in {w \in W : w # K!Dot}
      BY <1>1, <2>1, <2>3, <2>5
    <3> DEFINE T == {w \in W : w # K!Dot}
               m == e - i + 1
    <3>2. m \in Nat
      BY <1>1, <2>1, <2>3
    <3> HIDE DEF T, m
    <3>3. [k \in 1..m |-> name[i + k - 1]] \in Seq(T)
      BY <3>1, <3>2 DEF T, m
    <3>4. QED BY <2>7, <3>3 DEF T, m
  <2>9. SubSeq(name, i, e) \in P
    <3> DEFINE s == SubSeq(name, i, e)
    <3> HIDE DEF s
    <3>1. Len(s) > 0 /\ s \in Seq({w \in W : w # K!Dot})
      BY <1>1, <2>1, <2>3, <2>6, <2>8 DEF s
    <3>2. s # <<>>
      BY <3>1
    <3>3. s \in P
      BY <3>1, <3>2
    <3>4. QED BY <3>3 DEF s
  <2>10. QED BY <2>9 DEF e
<1>5. ASSUME NEW k \in 1..n PROVE Part(k) \in P
  <2>1. K!Nth(starts, k) \in starts
    <3> HIDE DEF starts
    <3>1. QED BY <1>1, NthIs
  <2> HIDE DEF starts, P, End
  <2>2. QED BY <1>4, <2>1
<1>6. [k \in 1..n |-> Part(k)] \in Seq(P)
  <2> HIDE DEF Part, n, P
  <2>1. QED BY <1>2, <1>5
<1>7. QED BY <1>3, <1>6

LEMMA SegmentsAreSeq ==
  ASSUME NEW W, NEW name \in Seq(W), NEW segments,
         segments = K!WithoutPrefix(K!Segments(name))
  PROVE  Len(segments) \in Nat /\ DOMAIN segments = 1..Len(segments)
<1> DEFINE parts == K!Segments(name)
<1>1. \E P : parts \in Seq(P)
  BY SegmentsAre, Zenon
<1>2. PICK P : parts \in Seq(P)
  BY <1>1
<1> HIDE DEF parts
<1>3. Len(parts) > 1 => Tail(parts) \in Seq(P)
  BY <1>2
<1>4. segments \in Seq(P)
  BY <1>2, <1>3 DEF K!WithoutPrefix, parts
<1>5. QED BY <1>4

\* The first platform segment that has something after it, and the first platform
\* segment where something is after it, are the same segment or neither is there.
LEMMA SameMark ==
  ASSUME NEW n \in Nat, NEW all \in SUBSET (1..n), NEW marks,
         marks = {i \in all : i <= n - 1}
  PROVE  /\ marks = {} <=> all = {} \/ K!Min(all) = n
         /\ marks # {} => K!Min(marks) = K!Min(all)
<1>1. all \subseteq Nat /\ marks \subseteq Nat
  <2>1. 1..n \subseteq Nat
    OBVIOUS
  <2>2. QED BY <2>1
<1>2. ASSUME all # {}
      PROVE  K!Min(all) \in all /\ \A x \in all : K!Min(all) <= x
  BY <1>1, <1>2, LeastIs
<1>3. ASSUME marks # {}
      PROVE  K!Min(marks) \in marks /\ \A x \in marks : K!Min(marks) <= x
  BY <1>1, <1>3, LeastIs
<1>4. CASE all = {}
  BY <1>4
<1>5. CASE all # {} /\ marks = {}
  <2>1. K!Min(all) \in 1..n /\ ~(K!Min(all) <= n - 1)
    BY <1>2, <1>5
  <2>2. K!Min(all) = n
    BY <2>1
  <2>3. QED BY <1>5, <2>2
<1>6. CASE marks # {}
  <2>1. all # {} /\ K!Min(marks) \in all /\ K!Min(marks) <= n - 1
    BY <1>3, <1>6
  <2>2. K!Min(all) \in 1..n /\ K!Min(all) <= K!Min(marks) /\ K!Min(marks) \in 1..n
    BY <1>2, <2>1
  <2>3. K!Min(all) \in marks
    BY <1>2, <2>1, <2>2
  <2>4. K!Min(marks) <= K!Min(all)
    BY <1>3, <1>6, <2>3
  <2>5. K!Min(marks) = K!Min(all) /\ K!Min(all) # n
    BY <2>1, <2>2, <2>4
  <2>6. QED BY <1>6, <2>1, <2>5
<1>7. QED BY <1>4, <1>5, <1>6

LEMMA SameProduct ==
  ASSUME NEW W, NEW name \in Seq(W)
  PROVE  K!ProductSegment(name) = K!PhoneProductSegment(name)
<1> DEFINE segments == K!WithoutPrefix(K!Segments(name))
           marks == {i \in 1..Len(segments) - 1 : K!IsOneOf(segments[i], K!PlatformSegments)}
           all == {i \in DOMAIN segments : K!IsOneOf(segments[i], K!PlatformSegments)}
<1>1. Len(segments) \in Nat /\ DOMAIN segments = 1..Len(segments)
  BY SegmentsAreSeq
<1>2. marks = {i \in all : i <= Len(segments) - 1} /\ all \in SUBSET (1..Len(segments))
  <2> HIDE DEF segments
  <2>1. QED BY <1>1
<1>3. /\ marks = {} <=> all = {} \/ K!Min(all) = Len(segments)
      /\ marks # {} => K!Min(marks) = K!Min(all)
  <2> HIDE DEF segments, marks, all
  <2>1. QED BY <1>1, <1>2, SameMark
<1>4. K!ProductSegment(name) =
        IF segments = <<>> THEN name
        ELSE K!FirstMeaningful(IF marks = {} THEN segments
                               ELSE SubSeq(segments, K!Min(marks) + 1, Len(segments)))
  BY Zenon DEF K!ProductSegment
<1>5. K!PhoneProductSegment(name) =
        IF segments = <<>> THEN name
        ELSE K!FirstMeaningful(IF all = {} \/ K!Min(all) = Len(segments) THEN segments
                               ELSE SubSeq(segments, K!Min(all) + 1, Len(segments)))
  BY Zenon DEF K!PhoneProductSegment
<1> HIDE DEF segments, marks, all
<1>6. CASE marks = {}
  BY <1>3, <1>4, <1>5, <1>6
<1>7. CASE marks # {}
  BY <1>3, <1>4, <1>5, <1>7
<1>8. QED BY <1>6, <1>7

LEMMA SameKey ==
  ASSUME NEW W, NEW name \in Seq(W)
  PROVE  K!CanonicalKey(name) = K!PhoneKey(name)
<1>1. K!Stripped(name) \in Seq(W)
  BY StrippedIs
<1>2. K!ProductSegment(K!Stripped(name)) = K!PhoneProductSegment(K!Stripped(name))
  BY <1>1, SameProduct
<1>3. QED BY <1>2 DEF K!CanonicalKey, K!PhoneKey

\* A name without a key has only separators before its suffix.
LEMMA NoWords ==
  ASSUME NEW W, NEW name \in Seq(W), K!Words(name) = <<>>
  PROVE  \A i \in DOMAIN name :
           name[i] \in K!Separators \/ (K!HasSuffix(name) /\ i >= Len(name) - 1)
<1> DEFINE bare == IF K!HasSuffix(name) THEN SubSeq(name, 1, Len(name) - 2) ELSE name
           words == {i \in DOMAIN bare : bare[i] \notin K!Separators}
           kept == {i \in words : bare[i] \notin K!NoiseWords}
           used == IF kept # {} THEN kept ELSE words
<1>1. Len(name) \in Nat /\ DOMAIN name = 1..Len(name) /\ (K!HasSuffix(name) => Len(name) > 1)
  BY DEF K!HasSuffix
<1>2. bare \in Seq(W)
  BY <1>1
<1>3. K!TokensAt(bare, used) = <<>>
  BY Zenon DEF K!Words
<1>4. used = {}
  <2>1. used \in SUBSET DOMAIN bare
    OBVIOUS
  <2> HIDE DEF used, bare
  <2>2. QED BY <1>2, <1>3, <2>1, NoTokens
<1>5. words = {}
  BY <1>4
<1>6. CASE K!HasSuffix(name)
  <2>1. ASSUME NEW i \in 1..Len(name) - 2 PROVE i \in DOMAIN bare /\ bare[i] = name[i]
    BY <1>1, <1>6
  <2> HIDE DEF bare
  <2>2. \A i \in 1..Len(name) - 2 : name[i] \in K!Separators
    BY <1>5, <2>1
  <2>3. \A i \in DOMAIN name : i \in 1..Len(name) - 2 \/ i >= Len(name) - 1
    BY <1>1
  <2>4. QED BY <1>6, <2>2, <2>3
<1>7. CASE ~K!HasSuffix(name)
  BY <1>5, <1>7
<1>8. QED BY <1>6, <1>7

\* The product is one of the segments.
LEMMA ProductIsSegment ==
  ASSUME NEW W, NEW name \in Seq(W), K!Segments(name) # <<>>
  PROVE  \E k \in DOMAIN K!Segments(name) : K!ProductSegment(name) = K!Segments(name)[k]
<1> DEFINE all == K!Segments(name)
           P == {all[k] : k \in DOMAIN all}
           segments == K!WithoutPrefix(all)
           marks == {i \in 1..Len(segments) - 1 : K!IsOneOf(segments[i], K!PlatformSegments)}
           rest == IF marks = {} THEN segments
                   ELSE SubSeq(segments, K!Min(marks) + 1, Len(segments))
<1>1. PICK Q : all \in Seq(Q)
  BY SegmentsAre, Zenon
<1> HIDE DEF all
<1>2. all \in Seq(P) /\ all # <<>>
  BY <1>1 DEF all
<1> HIDE DEF P
<1>3. segments \in Seq(P) /\ segments # <<>>
  BY <1>2 DEF K!WithoutPrefix
<1> HIDE DEF segments
<1>4. rest \in Seq(P) /\ rest # <<>>
  <2>1. CASE marks = {}
    BY <1>3, <2>1
  <2>2. CASE marks # {}
    <3>1. Len(segments) \in Nat /\ marks \subseteq 1..Len(segments) - 1 /\ marks \subseteq Nat
      BY <1>3
    <3> DEFINE m == K!Min(marks)
    <3>2. m \in marks
      <4> HIDE DEF marks
      <4>1. QED BY <2>2, <3>1, LeastIs
    <3> HIDE DEF m, marks
    <3>3. m \in 1..Len(segments) - 1
      BY <3>1, <3>2
    <3>4. SubSeq(segments, m + 1, Len(segments)) \in Seq(P) /\
          Len(SubSeq(segments, m + 1, Len(segments))) > 0
      BY <1>3, <3>1, <3>3
    <3>5. SubSeq(segments, m + 1, Len(segments)) # <<>>
      <4> DEFINE after == SubSeq(segments, m + 1, Len(segments))
      <4>1. Len(after) > 0 /\ after \in Seq(P)
        BY <3>4
      <4> HIDE DEF after
      <4>2. after # <<>>
        BY <4>1
      <4>3. QED BY <4>2 DEF after
    <3>6. rest = SubSeq(segments, m + 1, Len(segments))
      BY <2>2, Zenon DEF m
    <3>7. QED BY <3>4, <3>5, <3>6, Zenon
  <2>3. QED BY <2>1, <2>2
<1>5. K!ProductSegment(name) = K!FirstMeaningful(rest)
  BY <1>3, Zenon DEF K!ProductSegment, segments, all
<1> HIDE DEF rest
<1>6. K!FirstMeaningful(rest) \in P
  <2>1. Len(rest) \in Nat /\ Len(rest) # 0 /\ DOMAIN rest = 1..Len(rest)
    BY <1>4
  <2>2. CASE K!Meaningful(rest) = {}
    BY <1>4, <2>1, <2>2 DEF K!FirstMeaningful
  <2>3. CASE K!Meaningful(rest) # {}
    <3>1. K!Meaningful(rest) \subseteq DOMAIN rest /\ DOMAIN rest \subseteq Nat
      BY <2>1 DEF K!Meaningful
    <3>2. K!Min(K!Meaningful(rest)) \in DOMAIN rest
      BY <2>3, <3>1, LeastIs
    <3>3. QED BY <1>4, <2>3, <3>2 DEF K!FirstMeaningful
  <2>4. QED BY <2>2, <2>3
<1>7. QED BY <1>5, <1>6 DEF P, all

\* Every name has a key, except one that has no word but what ends it like a suffix, and
\* one with a segment that is blank.
LEMMA NoKeyNoWord ==
  ASSUME NEW W, NEW name \in Seq(W), K!CanonicalKey(name) = <<>>
  PROVE  \/ \A i, j \in {a \in DOMAIN name : name[a] \notin K!Separators} :
              i = j /\ name[i] \in K!ExecutableSuffixes
         \/ K!HasBlankSegment(name)
<1> DEFINE text == K!Stripped(name)
           words == {a \in DOMAIN name : name[a] \notin K!Separators}
<1>1. text \in Seq(W)
  BY StrippedIs
<1>2. PICK d \in Nat : \A j \in DOMAIN name :
                         name[j] # K!Space => j - d \in DOMAIN text /\ text[j - d] = name[j]
  BY StrippedIs
<1>3. /\ Len(text) \in Nat /\ DOMAIN text = 1..Len(text)
      /\ Len(name) \in Nat /\ DOMAIN name = 1..Len(name)
  BY <1>1
<1>4. \A j \in words : j \in Nat /\ j - d \in 1..Len(text) /\ text[j - d] = name[j]
  BY <1>2, <1>3 DEF K!Separators
<1>5. CASE K!Words(text) = <<>>
  <2>1. \A i \in DOMAIN text :
          text[i] \in K!Separators \/ (K!HasSuffix(text) /\ i >= Len(text) - 1)
    BY <1>1, <1>5, NoWords
  <2>2. K!HasSuffix(text) =>
          /\ Len(text) > 1 /\ text[Len(text) - 1] \in K!Separators
          /\ text[Len(text)] \in K!ExecutableSuffixes
    BY DEF K!HasSuffix, K!Separators
  <2>3. ASSUME NEW j \in words
        PROVE  j = d + Len(text) /\ name[j] \in K!ExecutableSuffixes
    <3>1. text[j - d] \notin K!Separators
      BY <1>4
    <3>2. K!HasSuffix(text) /\ j - d >= Len(text) - 1
      BY <1>3, <1>4, <2>1, <3>1
    <3>3. j - d # Len(text) - 1
      BY <2>2, <3>1, <3>2
    <3>4. j - d = Len(text)
      BY <1>3, <1>4, <3>2, <3>3
    <3>5. QED BY <1>3, <1>4, <2>2, <3>2, <3>4
  <2>4. QED BY <2>3
<1>6. CASE K!Words(text) # <<>>
  <2>1. K!Words(K!ProductSegment(text)) = <<>>
    BY <1>6 DEF K!CanonicalKey
  <2>2. K!Segments(text) # <<>>
    BY <1>6, <2>1 DEF K!ProductSegment, K!WithoutPrefix
  <2>3. PICK k \in DOMAIN K!Segments(text) : K!ProductSegment(text) = K!Segments(text)[k]
    BY <1>1, <2>2, ProductIsSegment
  <2> DEFINE W1 == {w \in W : w # K!Dot}
             s == K!Segments(text)[k]
  <2>4. s \in Seq(W1)
    <3> HIDE DEF text, W1
    <3>1. K!Segments(text) \in Seq({t \in Seq(W1) : t # <<>>})
      BY <1>1, SegmentsAre DEF W1
    <3>2. QED BY <3>1
  <2>5. K!Words(s) = <<>>
    BY <2>1, <2>3
  <2>6. ~K!HasSuffix(s)
    <3>1. \A i \in DOMAIN s : s[i] # K!Dot
      BY <2>4
    <3>2. Len(s) \in Nat /\ DOMAIN s = 1..Len(s)
      BY <2>4
    <3> HIDE DEF s
    <3>3. QED BY <3>1, <3>2 DEF K!HasSuffix
  <2>7. \A i \in DOMAIN s : s[i] \in K!Separators
    <3> HIDE DEF s, W1
    <3>1. QED BY <2>4, <2>5, <2>6, NoWords
  <2>8. QED BY <2>3, <2>7 DEF K!HasBlankSegment
<1>7. QED BY <1>5, <1>6

\* The desktop and the phone know a name by one key, whatever the name is, and it has
\* one unless it has no word or a blank segment (canonical_app_key, syncproto.py:96-168;
\* canonicalAppKey, Sync.kt:92-146).
THEOREM OneKeyPerName ==
  ASSUME NEW W, NEW name \in Seq(W)
  PROVE  K!OneKey(name)
<1>1. K!CanonicalKey(name) = K!PhoneKey(name)
  BY SameKey
<1>2. K!CanonicalKey(name) = <<>> =>
        \/ \A i, j \in {a \in DOMAIN name : name[a] \notin K!Separators} :
             i = j /\ name[i] \in K!ExecutableSuffixes
        \/ K!HasBlankSegment(name)
  BY NoKeyNoWord
<1>3. QED BY <1>1, <1>2, Zenon DEF K!OneKey

\* The odd positions, in their order.
LEMMA OddPositions ==
  ASSUME NEW m \in Nat, NEW odd, odd = {2 * j - 1 : j \in 1..m}
  PROVE  /\ K!Cardinality(odd) = m
         /\ \A k \in 1..m : K!Nth(odd, k) = 2 * k - 1
<1>1. odd \in SUBSET (1..2 * m)
  OBVIOUS
<1>2. ASSUME NEW k \in 1..m PROVE K!Cardinality(odd \cap 1..(2 * k - 1)) = k
  <2> DEFINE upto == odd \cap 1..(2 * k - 1)
             f == [j \in 1..k |-> 2 * j - 1]
  <2>1. f \in [1..k -> upto]
    OBVIOUS
  <2>2. \A a, b \in 1..k : f[a] = f[b] => a = b
    OBVIOUS
  <2>3. \A x \in upto : \E j \in 1..k : f[j] = x
    <3>1. ASSUME NEW x \in upto PROVE \E j \in 1..k : f[j] = x
      <4>1. PICK j \in 1..m : x = 2 * j - 1
        OBVIOUS
      <4>2. j \in 1..k
        BY <4>1
      <4>3. QED BY <4>1, <4>2
    <3>2. QED BY <3>1
  <2> HIDE DEF f, upto
  <2>4. f \in Bijection(1..k, upto)
    BY <2>1, <2>2, <2>3 DEF Bijection, Injection, Surjection, IsInjective
  <2>5. ExistsBijection(1..k, upto)
    BY <2>4 DEF ExistsBijection
  <2>6. Cardinality(upto) = k
    BY <2>5, FS_CountingElements
  <2>7. QED BY <2>6 DEF upto, K!Cardinality, Cardinality
<1>3. K!Cardinality(odd) = m
  <2>1. CASE m = 0
    <3>1. odd = {}
      BY <2>1
    <3>2. QED BY <2>1, <3>1, FS_EmptySet DEF K!Cardinality, Cardinality
  <2>2. CASE m # 0
    <3>1. odd \cap 1..(2 * m - 1) = odd /\ m \in 1..m
      BY <2>2
    <3>2. QED BY <1>2, <3>1
  <2>3. QED BY <2>1, <2>2
<1>4. ASSUME NEW k \in 1..m PROVE K!Nth(odd, k) = 2 * k - 1
  <2>1. 2 * k - 1 \in odd /\ 2 * m \in Nat
    OBVIOUS
  <2>2. K!Nth(odd, K!Cardinality(odd \cap 1..(2 * k - 1))) = 2 * k - 1
    BY <1>1, <2>1, NthIsThe
  <2>3. QED BY <1>2, <2>2
<1>5. QED BY <1>3, <1>4

\* A package whose dots stand between single words.
LEMMA WordsBetweenDots ==
  ASSUME NEW W, NEW m \in Nat \ {0}, NEW name \in Seq(W), Len(name) = 2 * m - 1,
         \A j \in 1..m : name[2 * j - 1] # K!Dot,
         \A j \in 1..m - 1 : name[2 * j] = K!Dot
  PROVE  K!Segments(name) = [k \in 1..m |-> <<name[2 * k - 1]>>]
<1> DEFINE Open(i) == i \in DOMAIN name /\ name[i] # K!Dot
           starts == {i \in DOMAIN name : Open(i) /\ ~Open(i - 1)}
           End(i) == K!Min({j \in i..Len(name) : ~Open(j + 1)})
           odd == {2 * j - 1 : j \in 1..m}
           n == K!Cardinality(starts)
           Part(k) == SubSeq(name, K!Nth(starts, k), End(K!Nth(starts, k)))
<1>1. DOMAIN name = 1..2 * m - 1
  OBVIOUS
<1>2. ASSUME NEW i \in 1..2 * m - 1
      PROVE  (\E j \in 1..m : i = 2 * j - 1) \/ (\E j \in 1..m - 1 : i = 2 * j)
  <2> DEFINE j == (i + 1) \div 2
  <2>1. j \in Int /\ 2 * j <= i + 1 /\ i < 2 * j + 1
    OBVIOUS
  <2> HIDE DEF j
  <2>2. (i = 2 * j - 1 /\ j \in 1..m) \/ (i = 2 * j /\ j \in 1..m - 1)
    BY <2>1
  <2>3. QED BY <2>2
<1>3. \A j \in 1..m : Open(2 * j - 1) /\ ~Open(2 * j - 2) /\ ~Open(2 * j)
  <2>1. ASSUME NEW j \in 1..m PROVE Open(2 * j - 1) /\ ~Open(2 * j - 2) /\ ~Open(2 * j)
    <3>1. Open(2 * j - 1)
      BY <1>1
    <3>2. ~Open(2 * j)
      <4>1. j \in 1..m - 1 \/ 2 * j \notin 1..2 * m - 1
        OBVIOUS
      <4>2. QED BY <1>1, <4>1
    <3>3. ~Open(2 * j - 2)
      <4>1. (j - 1 \in 1..m - 1 /\ 2 * j - 2 = 2 * (j - 1)) \/ 2 * j - 2 \notin 1..2 * m - 1
        OBVIOUS
      <4>2. QED BY <1>1, <4>1
    <3>4. QED BY <3>1, <3>2, <3>3
  <2>2. QED BY <2>1
<1>4. starts = odd
  <2>1. odd \subseteq starts
    <3>1. ASSUME NEW j \in 1..m PROVE 2 * j - 1 \in starts
      <4>1. 2 * j - 1 \in 1..2 * m - 1 /\ (2 * j - 1) - 1 = 2 * j - 2
        OBVIOUS
      <4> HIDE DEF Open
      <4>2. QED BY <1>1, <1>3, <4>1
    <3> HIDE DEF starts
    <3>2. QED BY <3>1
  <2>2. starts \subseteq odd
    <3>1. ASSUME NEW i \in starts PROVE i \in odd
      <4>1. i \in 1..2 * m - 1 /\ Open(i)
        BY <1>1
      <4>2. ~ \E j \in 1..m - 1 : i = 2 * j
        BY <4>1
      <4> HIDE DEF starts
      <4>3. QED BY <1>2, <4>1, <4>2
    <3> HIDE DEF starts, odd
    <3>2. QED BY <3>1
  <2>3. QED BY <2>1, <2>2
<1>5. n = m /\ \A k \in 1..m : K!Nth(starts, k) = 2 * k - 1
  <2> HIDE DEF starts
  <2>1. QED BY <1>4, OddPositions
<1>6. K!Segments(name) = [k \in 1..n |-> Part(k)]
  BY DEF K!Segments
<1>7. ASSUME NEW k \in 1..m PROVE Part(k) = <<name[2 * k - 1]>>
  <2> DEFINE i == 2 * k - 1
             ends == {j \in i..Len(name) : ~Open(j + 1)}
  <2>1. i \in 1..Len(name) /\ i + 1 = 2 * k
    OBVIOUS
  <2>2. i \in ends /\ ends \subseteq Nat /\ \A j \in ends : i <= j
    <3> HIDE DEF Open
    <3>1. QED BY <1>3, <2>1
  <2>3. End(i) = i
    <3>1. K!Min(ends) \in ends /\ \A j \in ends : K!Min(ends) <= j
      <4> HIDE DEF ends
      <4>1. QED BY <2>2, LeastIs
    <3> DEFINE e == K!Min(ends)
    <3>2. e \in ends /\ e <= i
      BY <2>2, <3>1
    <3>3. e \in Nat /\ i <= e
      <4> HIDE DEF ends, e, i
      <4>1. QED BY <2>2, <3>2
    <3> HIDE DEF e, ends
    <3>4. e = i
      BY <3>2, <3>3
    <3>5. QED BY <3>4 DEF e, ends
  <2>4. Part(k) = SubSeq(name, i, i)
    <3>1. K!Nth(starts, k) = i
      BY <1>5
    <3> HIDE DEF i, starts, End
    <3>2. QED BY <2>3, <3>1
  <2> HIDE DEF i
  <2>5. SubSeq(name, i, i) = <<name[i]>>
    <3> DEFINE s == SubSeq(name, i, i)
    <3>1. s \in Seq(W) /\ Len(s) = 1 /\ s[1] = name[i]
      BY <2>1
    <3> HIDE DEF s
    <3>2. s = <<name[i]>>
      BY <3>1, OneIsAll
    <3>3. QED BY <3>2 DEF s
  <2>6. QED BY <2>4, <2>5 DEF i
<1> HIDE DEF Part, n
<1>8. QED BY <1>5, <1>6, <1>7

\* A name with a token at either end is stripped already.
LEMMA NothingToStrip ==
  ASSUME NEW W, NEW name \in Seq(W), Len(name) > 0,
         name[1] # K!Space, name[Len(name)] # K!Space
  PROVE  K!Stripped(name) = name
<1> DEFINE inner == {i \in DOMAIN name : name[i] # K!Space}
<1>1. 1 \in inner /\ Len(name) \in inner /\ inner \subseteq 1..Len(name) /\ Len(name) \in Nat
  OBVIOUS
<1>2. IsFiniteSet(inner) /\ inner \subseteq Nat /\ inner \subseteq Int
  <2>1. IsFiniteSet(1..Len(name)) /\ 1..Len(name) \subseteq Nat /\ Nat \subseteq Int
    BY <1>1, FS_Interval
  <2> HIDE DEF inner
  <2>2. QED BY <1>1, <2>1, FS_Subset
<1>3. K!Stripped(name) = SubSeq(name, K!Min(inner), K!Max(inner))
  BY <1>1, Zenon DEF K!Stripped
<1> HIDE DEF inner
<1>4. /\ K!Min(inner) \in inner /\ K!Min(inner) <= 1
      /\ K!Max(inner) \in inner /\ K!Max(inner) >= Len(name)
  BY <1>1, <1>2, LeastIs, GreatestIs
<1>5. K!Min(inner) = 1 /\ K!Max(inner) = Len(name)
  <2>1. K!Min(inner) \in 1..Len(name) /\ K!Max(inner) \in 1..Len(name)
    BY <1>1, <1>4
  <2>2. QED BY <1>1, <1>4, <2>1
<1>6. SubSeq(name, 1, Len(name)) = name
  BY <1>1
<1>7. QED BY <1>3, <1>5, <1>6

\* A name of one word of its own, among separators and noise.
LEMMA OneWord ==
  ASSUME NEW W, NEW name \in Seq(W), ~K!HasSuffix(name), NEW i \in DOMAIN name,
         name[i] \notin K!Separators \cup K!NoiseWords,
         \A j \in DOMAIN name \ {i} : name[j] \in K!Separators \cup K!NoiseWords
  PROVE  K!Words(name) = <<name[i]>>
<1> DEFINE words == {j \in DOMAIN name : name[j] \notin K!Separators}
           kept == {j \in words : name[j] \notin K!NoiseWords}
<1>1. kept = {i}
  OBVIOUS
<1>2. K!Words(name) = K!TokensAt(name, kept)
  <2>1. kept # {}
    BY <1>1
  <2>2. QED BY <2>1, Zenon DEF K!Words
<1>3. QED BY <1>1, <1>2, OneToken

\* The one segment that means something.
LEMMA OneMeaningful ==
  ASSUME NEW P, NEW segments \in Seq(P), NEW i \in DOMAIN segments,
         ~K!IsOneOf(segments[i], K!PlatformSegments \cup K!GenericSegments),
         \A j \in DOMAIN segments \ {i} :
           K!IsOneOf(segments[j], K!PlatformSegments \cup K!GenericSegments)
  PROVE  K!FirstMeaningful(segments) = segments[i]
<1>1. K!Meaningful(segments) = {i} /\ i \in Nat
  <2>1. \A j \in DOMAIN segments :
          j = i <=> ~K!IsOneOf(segments[j], K!PlatformSegments \cup K!GenericSegments)
    OBVIOUS
  <2>2. K!Meaningful(segments) = {i}
    BY <2>1, Zenon DEF K!Meaningful
  <2>3. QED BY <2>2
<1>2. K!Min({i}) = i
  BY <1>1, LeastIs
<1>3. QED BY <1>1, <1>2 DEF K!FirstMeaningful

\* A word of a product's own.
IsProduct(word) ==
  word \notin K!Separators \cup K!NoiseWords \cup K!PlatformSegments \cup K!GenericSegments
              \cup K!ExecutableSuffixes

LEMMA OwnKey ==
  ASSUME NEW product, IsProduct(product)
  PROVE  K!Words(<<product>>) = <<product>>
<1> DEFINE name == <<product>>
<1>1. name \in Seq({product}) /\ Len(name) = 1 /\ DOMAIN name = 1..1 /\ name[1] = product
  OBVIOUS
<1> HIDE DEF name
<1>2. ~K!HasSuffix(name)
  BY <1>1 DEF K!HasSuffix
<1>3. K!Words(name) = <<name[1]>>
  <2>1. name[1] \notin K!Separators \cup K!NoiseWords
    BY <1>1 DEF IsProduct
  <2>2. QED BY <1>1, <1>2, <2>1, OneWord
<1>4. QED BY <1>1, <1>3 DEF name

\* A package whose product is one segment has that segment's key.
LEMMA PackageKey ==
  ASSUME NEW W, NEW name \in Seq(W), NEW product, IsProduct(product),
         K!Stripped(name) = name, K!IsPackage(name),
         K!ProductSegment(name) = <<product>>
  PROVE  K!CanonicalKey(name) = <<product>>
BY OwnKey DEF K!CanonicalKey

\* com.<product>, alone or with a platform or a type of product after it.
LEMMA ProductThenMark ==
  ASSUME NEW product, IsProduct(product), NEW segments,
         segments = << <<"com">>, <<product>> >> \/
         (\E mark \in K!PlatformSegments \cup K!GenericSegments :
            segments = << <<"com">>, <<product>>, <<mark>> >>),
         NEW name, K!Segments(name) = segments
  PROVE  K!ProductSegment(name) = <<product>>
<1> DEFINE P == {segments[i] : i \in DOMAIN segments}
           rest == Tail(segments)
           found == {i \in 1..Len(rest) - 1 : K!IsOneOf(rest[i], K!PlatformSegments)}
<1>1. /\ segments \in Seq(P) /\ Len(segments) \in 2..3 /\ segments[1] = <<"com">>
      /\ segments[2] = <<product>>
      /\ Len(segments) = 3 => \E mark \in K!PlatformSegments \cup K!GenericSegments : segments[3] = <<mark>>
  OBVIOUS
<1>2. K!WithoutPrefix(segments) = rest
  BY <1>1 DEF K!WithoutPrefix, K!IsOneOf, K!PackagePrefixes
<1> HIDE DEF P
<1>3. /\ rest \in Seq(P) /\ Len(rest) \in 1..2 /\ rest[1] = <<product>>
      /\ Len(rest) = 2 => \E mark \in K!PlatformSegments \cup K!GenericSegments : rest[2] = <<mark>>
  BY <1>1
<1> HIDE DEF rest
<1>4. ~K!IsOneOf(<<product>>, K!PlatformSegments \cup K!GenericSegments)
      /\ ~K!IsOneOf(<<product>>, K!PlatformSegments)
  BY DEF K!IsOneOf, IsProduct
<1>5. found = {}
  BY <1>3, <1>4
<1>6. K!FirstMeaningful(rest) = rest[1]
  <2>1. 1 \in DOMAIN rest /\ ~K!IsOneOf(rest[1], K!PlatformSegments \cup K!GenericSegments)
    BY <1>3, <1>4
  <2>2. ASSUME NEW j \in DOMAIN rest \ {1}
        PROVE  K!IsOneOf(rest[j], K!PlatformSegments \cup K!GenericSegments)
    <3>1. j = 2 /\ Len(rest) = 2
      BY <1>3
    <3>2. PICK mark \in K!PlatformSegments \cup K!GenericSegments : rest[2] = <<mark>>
      BY <1>3, <3>1
    <3>3. QED BY <3>1, <3>2 DEF K!IsOneOf
  <2>3. QED BY <1>3, <2>1, <2>2, OneMeaningful
<1>7. rest # <<>>
  BY <1>3
<1>8. K!ProductSegment(name) = K!FirstMeaningful(rest)
  BY <1>2, <1>5, <1>7, Zenon DEF K!ProductSegment
<1>9. QED BY <1>3, <1>6, <1>8

\* com.<vendor>.android.<product>, whatever the vendor's word.
LEMMA VendorThenProduct ==
  ASSUME NEW product, IsProduct(product), NEW vendor, NEW name,
         K!Segments(name) = << <<"com">>, <<vendor>>, <<"android">>, <<product>> >>
  PROVE  K!ProductSegment(name) = <<product>>
<1> DEFINE rest == << <<vendor>>, <<"android">>, <<product>> >>
           P == {<<vendor>>, <<"android">>, <<product>>}
           found == {i \in 1..Len(rest) - 1 : K!IsOneOf(rest[i], K!PlatformSegments)}
           after == SubSeq(rest, K!Min(found) + 1, Len(rest))
<1>1. K!WithoutPrefix(K!Segments(name)) = rest
  BY DEF K!WithoutPrefix, K!IsOneOf, K!PackagePrefixes
<1>2. rest \in Seq(P) /\ Len(rest) = 3 /\ rest[2] = <<"android">> /\ rest[3] = <<product>> /\ rest # <<>>
  OBVIOUS
<1> HIDE DEF rest, P
<1>3. 2 \in found /\ found \subseteq Nat /\ found \subseteq 1..2
  BY <1>2 DEF K!IsOneOf, K!PlatformSegments
<1>4. K!Min(found) \in 1..2
  <2> HIDE DEF found
  <2>1. QED BY <1>3, LeastIs
<1>5. K!ProductSegment(name) = K!FirstMeaningful(after)
  BY <1>1, <1>2, <1>3, Zenon DEF K!ProductSegment
<1> DEFINE m == K!Min(found)
<1> HIDE DEF found, m
<1>6. /\ after \in Seq(P) /\ Len(after) = 3 - m /\ after[3 - m] = <<product>>
      /\ m = 1 => after[1] = <<"android">>
  <2>1. after = SubSeq(rest, m + 1, 3)
    BY <1>2 DEF m
  <2>2. m \in 1..2
    BY <1>4 DEF m
  <2> HIDE DEF after
  <2>3. CASE m = 1
    <3>1. after = SubSeq(rest, 2, 3)
      BY <2>1, <2>3
    <3>2. SubSeq(rest, 2, 3) \in Seq(P)
      <4>1. 2 \in 1..Len(rest) /\ 3 \in 1..Len(rest)
        BY <1>2
      <4>2. QED BY <1>2, <4>1, PartOfSeq
    <3>3. Len(SubSeq(rest, 2, 3)) = 2
      BY <1>2
    <3>4. SubSeq(rest, 2, 3)[1] = rest[2]
      BY <1>2
    <3>5. SubSeq(rest, 2, 3)[2] = rest[3]
      BY <1>2
    <3>6. QED BY <1>2, <2>3, <3>1, <3>2, <3>3, <3>4, <3>5
  <2>4. CASE m = 2
    <3>1. after = SubSeq(rest, 3, 3)
      BY <2>1, <2>4
    <3>2. after \in Seq(P) /\ Len(after) = 1 /\ after[1] = rest[3]
      BY <1>2, <3>1
    <3>3. QED BY <1>2, <2>4, <3>2
  <2>5. QED BY <2>2, <2>3, <2>4
<1>7. m \in 1..2
  BY <1>4 DEF m
<1> HIDE DEF after
<1>8. K!FirstMeaningful(after) = after[3 - m]
  <2>1. 3 - m \in DOMAIN after
    BY <1>6, <1>7
  <2>2. ~K!IsOneOf(after[3 - m], K!PlatformSegments \cup K!GenericSegments)
    BY <1>6 DEF K!IsOneOf, IsProduct
  <2>3. ASSUME NEW j \in DOMAIN after \ {3 - m}
        PROVE  K!IsOneOf(after[j], K!PlatformSegments \cup K!GenericSegments)
    <3>1. m = 1 /\ j = 1
      BY <1>6, <1>7
    <3>2. QED BY <1>6, <3>1 DEF K!IsOneOf, K!PlatformSegments
  <2> DEFINE last == 3 - m
  <2> HIDE DEF last
  <2>4. K!FirstMeaningful(after) = after[last]
    BY <1>6, <2>1, <2>2, <2>3, OneMeaningful DEF last
  <2>5. QED BY <2>4 DEF last
<1>9. QED BY <1>5, <1>6, <1>8

\* The shapes one product comes in meet in one key, whatever word is the product's own
\* and whatever the vendor is called (canonical_app_key, _product_segment,
\* syncproto.py:96-168).
THEOREM ProductsMeet ==
  ASSUME NEW product, IsProduct(product), NEW vendor, vendor \notin K!Separators,
         NEW name \in K!Shapes(product, vendor)
  PROVE  K!CanonicalKey(name) = <<product>>
<1> DEFINE W == {product, vendor, K!Dot, K!Space, "exe", "for", "android", "com", "music"}
<1>1. /\ product \notin {K!Dot, K!Space} /\ vendor \notin {K!Dot, K!Space}
      /\ K!Dot \notin {K!Space, "exe", "for", "android", "com", "music"}
      /\ K!Space \notin {K!Dot, "exe", "for", "android", "com", "music"}
  BY DEF IsProduct, K!Separators, K!Dot, K!Space
<1>2. /\ {"exe"} \subseteq K!ExecutableSuffixes /\ {"com", "music", "android"} \cap K!ExecutableSuffixes = {}
      /\ "android" \in K!PlatformSegments /\ "music" \in K!GenericSegments
      /\ {"for", "android"} \subseteq K!NoiseWords /\ K!Space \in K!Separators
      /\ product \notin K!ExecutableSuffixes
  BY DEF K!ExecutableSuffixes, K!PlatformSegments, K!GenericSegments, K!NoiseWords, K!Separators,
         IsProduct
<1>3. ASSUME NEW s \in Seq(W), Len(s) > 0, s[1] # K!Space, s[Len(s)] # K!Space
      PROVE  K!Stripped(s) = s
  BY <1>3, NothingToStrip
<1> HIDE DEF W
\* A package: words between dots, the last of them no suffix.
<1>4. ASSUME NEW s \in Seq(W), NEW m \in 2..4, Len(s) = 2 * m - 1,
             \A j \in 1..m : s[2 * j - 1] \notin {K!Dot, K!Space},
             \A j \in 1..m - 1 : s[2 * j] = K!Dot,
             s[Len(s)] \notin K!ExecutableSuffixes
      PROVE  /\ K!Stripped(s) = s /\ K!IsPackage(s)
             /\ K!Segments(s) = [k \in 1..m |-> <<s[2 * k - 1]>>]
  <2>1. Len(s) > 0 /\ s[1] # K!Space /\ s[Len(s)] # K!Space
    <3>1. s[2 * 1 - 1] # K!Space /\ s[2 * m - 1] # K!Space
      BY <1>4
    <3>2. QED BY <1>4, <3>1
  <2>2. K!Contains(s, K!Dot)
    <3>1. s[2 * 1] = K!Dot /\ 2 \in DOMAIN s
      BY <1>4
    <3>2. QED BY <1>4, <3>1 DEF K!Contains
  <2>3. ~K!Contains(s, K!Space)
    <3>1. ASSUME NEW i \in 1..Len(s) PROVE s[i] # K!Space
      <4> DEFINE j == (i + 1) \div 2
      <4>1. j \in Int /\ 2 * j <= i + 1 /\ i < 2 * j + 1
        BY <1>4
      <4> HIDE DEF j
      <4>2. (i = 2 * j - 1 /\ j \in 1..m) \/ (i = 2 * j /\ j \in 1..m - 1)
        BY <1>4, <4>1
      <4>3. QED BY <1>1, <1>4, <4>2
    <3>2. QED BY <3>1 DEF K!Contains
  <2>4. ~K!HasSuffix(s)
    BY <1>4 DEF K!HasSuffix
  <2>5. K!Segments(s) = [k \in 1..m |-> <<s[2 * k - 1]>>]
    <3>1. m \in Nat \ {0} /\ \A j \in 1..m : s[2 * j - 1] # K!Dot
      BY <1>4
    <3>2. QED BY <1>4, <3>1, WordsBetweenDots
  <2>6. QED BY <1>3, <2>1, <2>2, <2>3, <2>4, <2>5 DEF K!IsPackage
<1>5. CASE name = <<product>>
  <2>1. name \in Seq(W) /\ Len(name) = 1 /\ name[1] = product
    BY <1>5 DEF W
  <2>2. K!Stripped(name) = name
    BY <1>1, <1>3, <2>1
  <2>3. ~K!IsPackage(name)
    BY <1>1, <2>1 DEF K!IsPackage, K!Contains
  <2>4. QED BY <1>5, <2>2, <2>3, OwnKey DEF K!CanonicalKey
<1>6. CASE name = <<product, K!Dot, "exe">>
  <2>1. name \in Seq(W) /\ Len(name) = 3 /\ name[1] = product /\ name[2] = K!Dot /\ name[3] = "exe"
    BY <1>6 DEF W
  <2>2. K!Stripped(name) = name
    <3>1. name[1] # K!Space /\ name[Len(name)] # K!Space /\ Len(name) > 0
      BY <1>1, <2>1
    <3>2. QED BY <1>3, <2>1, <3>1
  <2>3. K!HasSuffix(name)
    BY <1>2, <2>1 DEF K!HasSuffix
  <2>4. SubSeq(name, 1, Len(name) - 2) = <<product>>
    <3> DEFINE s == SubSeq(name, 1, Len(name) - 2)
    <3>1. s \in Seq(W) /\ Len(s) = 1 /\ s[1] = product
      BY <2>1
    <3> HIDE DEF s
    <3>2. s = <<product>>
      BY <3>1, OneIsAll
    <3>3. QED BY <3>2 DEF s
  <2>5. ~K!HasSuffix(<<product>>)
    BY DEF K!HasSuffix
  <2>6. K!Words(name) = K!Words(<<product>>)
    BY <2>3, <2>4, <2>5, Zenon DEF K!Words
  <2>7. K!CanonicalKey(name) = K!Words(name)
    BY <2>2, <2>3 DEF K!CanonicalKey, K!IsPackage
  <2>8. QED BY <2>6, <2>7, OwnKey
<1>7. CASE name = <<product, K!Space, "for", K!Space, "android">>
  <2>1. /\ name \in Seq(W) /\ Len(name) = 5 /\ DOMAIN name = 1..5
        /\ name[1] = product /\ name[2] = K!Space /\ name[3] = "for" /\ name[4] = K!Space
        /\ name[5] = "android"
    BY <1>7 DEF W
  <2>2. K!Stripped(name) = name
    <3>1. name[1] # K!Space /\ name[Len(name)] # K!Space /\ Len(name) > 0
      BY <1>1, <2>1
    <3>2. QED BY <1>3, <2>1, <3>1
  <2>3. ~K!IsPackage(name)
    BY <2>1 DEF K!IsPackage, K!Contains
  <2>4. ~K!HasSuffix(name)
    BY <1>1, <2>1 DEF K!HasSuffix
  <2>5. K!Words(name) = <<name[1]>>
    <3>1. \A j \in DOMAIN name \ {1} : name[j] \in K!Separators \cup K!NoiseWords
      BY <1>2, <2>1
    <3>2. name[1] \notin K!Separators \cup K!NoiseWords /\ 1 \in DOMAIN name
      BY <2>1 DEF IsProduct
    <3>3. QED BY <2>1, <2>4, <3>1, <3>2, OneWord
  <2>6. QED BY <2>1, <2>2, <2>3, <2>5 DEF K!CanonicalKey
<1>8. CASE name = <<"com", K!Dot, product>>
  <2>1. /\ name \in Seq(W) /\ Len(name) = 3 /\ name[1] = "com" /\ name[2] = K!Dot
        /\ name[3] = product
    BY <1>8 DEF W
  <2>2. /\ K!Stripped(name) = name /\ K!IsPackage(name)
        /\ K!Segments(name) = [k \in 1..2 |-> <<name[2 * k - 1]>>]
    <3>1. /\ \A j \in 1..2 : name[2 * j - 1] \notin {K!Dot, K!Space}
          /\ \A j \in 1..2 - 1 : name[2 * j] = K!Dot
      BY <1>1, <2>1
    <3>2. 2 \in 2..4 /\ Len(name) = 2 * 2 - 1 /\ name[Len(name)] \notin K!ExecutableSuffixes
      BY <1>2, <2>1
    <3>3. QED BY <1>4, <2>1, <3>1, <3>2
  <2>3. K!Segments(name) = << <<"com">>, <<product>> >>
    BY <2>1, <2>2
  <2>4. K!ProductSegment(name) = <<product>>
    BY <2>3, ProductThenMark
  <2>5. QED BY <2>1, <2>2, <2>4, PackageKey
<1>9. ASSUME NEW mark \in {"android", "music"}, name = <<"com", K!Dot, product, K!Dot, mark>>
      PROVE  K!CanonicalKey(name) = <<product>>
  <2>1. /\ name \in Seq(W) /\ Len(name) = 5 /\ name[1] = "com" /\ name[2] = K!Dot
        /\ name[3] = product /\ name[4] = K!Dot /\ name[5] = mark
    BY <1>9 DEF W
  <2>2. /\ K!Stripped(name) = name /\ K!IsPackage(name)
        /\ K!Segments(name) = [k \in 1..3 |-> <<name[2 * k - 1]>>]
    <3>1. /\ \A j \in 1..3 : name[2 * j - 1] \notin {K!Dot, K!Space}
          /\ \A j \in 1..3 - 1 : name[2 * j] = K!Dot
      BY <1>1, <2>1
    <3>2. 3 \in 2..4 /\ Len(name) = 2 * 3 - 1 /\ name[Len(name)] \notin K!ExecutableSuffixes
      BY <1>2, <2>1
    <3>3. QED BY <1>4, <2>1, <3>1, <3>2
  <2>3. K!Segments(name) = << <<"com">>, <<product>>, <<mark>> >>
    BY <2>1, <2>2
  <2>4. K!ProductSegment(name) = <<product>>
    BY <1>2, <2>3, ProductThenMark
  <2>5. QED BY <2>1, <2>2, <2>4, PackageKey
<1>10. CASE name = <<"com", K!Dot, vendor, K!Dot, "android", K!Dot, product>>
  <2>1. /\ name \in Seq(W) /\ Len(name) = 7 /\ name[1] = "com" /\ name[2] = K!Dot
        /\ name[3] = vendor /\ name[4] = K!Dot /\ name[5] = "android" /\ name[6] = K!Dot
        /\ name[7] = product
    BY <1>10 DEF W
  <2>2. /\ K!Stripped(name) = name /\ K!IsPackage(name)
        /\ K!Segments(name) = [k \in 1..4 |-> <<name[2 * k - 1]>>]
    <3>1. /\ \A j \in 1..4 : name[2 * j - 1] \notin {K!Dot, K!Space}
          /\ \A j \in 1..4 - 1 : name[2 * j] = K!Dot
      BY <1>1, <2>1
    <3>2. 4 \in 2..4 /\ Len(name) = 2 * 4 - 1 /\ name[Len(name)] \notin K!ExecutableSuffixes
      BY <1>2, <2>1
    <3>3. QED BY <1>4, <2>1, <3>1, <3>2
  <2>3. K!Segments(name) = << <<"com">>, <<vendor>>, <<"android">>, <<product>> >>
    BY <2>1, <2>2
  <2>4. K!ProductSegment(name) = <<product>>
    BY <2>3, VendorThenProduct
  <2>5. QED BY <2>1, <2>2, <2>4, PackageKey
<1>11. QED BY <1>5, <1>6, <1>7, <1>8, <1>9, <1>10 DEF K!Shapes
-----------------------------------------------------------------------------
(* What has been asked, and the answer to it *)

\* A question is of the kinds the program puts, and an answer is the one due to it.
AnswerIsDue ==
  /\ asked.about = "limit" =>
       /\ asked.own \in Int /\ asked.cfg \in S!Configs /\ asked.now \in S!Moments
       /\ answer # None => answer.active = S!IsActive(asked.cfg, asked.now)
  /\ asked.about = "figures" =>
       /\ V!StoreOK(asked.db, Today)
       /\ answer # None =>
            \E order \in V!Orders(V!AppsThisWeek(asked.db, Today)) :
              answer = [tab |-> V!Insights(asked.db, Today, order),
                        csv |-> V!Csv(asked.db, Today),
                        export |-> V!Export(asked.db, Today, asked.unreadable)]
  /\ asked.about = "key" =>
       /\ asked.name \in Seq(STRING)
       /\ answer # None => answer.desktop = K!CanonicalKey(asked.name)
  /\ asked = None => answer = None

LEMMA AskDue == ASSUME CalculationsAssumption, AnswerIsDue, Ask PROVE AnswerIsDue'
<1>1. asked = None /\ answer' = None
  BY DEF Ask, AnswerIsDue
<1>2. ASSUME AskLimit
      PROVE  /\ asked'.about = "limit"
             /\ asked'.own \in Int /\ asked'.cfg \in S!Configs /\ asked'.now \in S!Moments
  <2>1. PICK start \in S!Texts, end \in S!Texts, days \in DayLists, now \in S!Moments, own \in Int,
             cap \in Int \cup {Junk}, on \in BOOLEAN :
          asked' = [about |-> "limit", own |-> own, now |-> now,
                    cfg |-> [enabled |-> on, days |-> days, start |-> start, end |-> end,
                             limit |-> cap]]
    BY <1>2 DEF AskLimit, CalculationsAssumption
  <2>2. days \in (SUBSET Int) \cup {Junk}
    BY DEF DayLists
  <2> DEFINE c == [enabled |-> on, days |-> days, start |-> start, end |-> end, limit |-> cap]
  <2>3. c \in S!Configs
    BY <2>1, <2>2 DEF S!Configs
  <2> HIDE DEF c
  <2>4. asked' = [about |-> "limit", own |-> own, now |-> now, cfg |-> c]
    BY <2>1 DEF c
  <2>5. QED BY <2>1, <2>3, <2>4
<1>3. ASSUME AskFigures
      PROVE  asked'.about = "figures" /\ V!StoreOK(asked'.db, Today)
  <2>1. PICK db \in Stores :
          \E unreadable \in {{}, {"settings"}, {"tracked_apps"}, {"usage_sessions"}} :
            asked' = [about |-> "figures", db |-> db, unreadable |-> unreadable]
    BY <1>3 DEF AskFigures
  <2>2. asked'.about = "figures" /\ asked'.db = db
    <3>1. PICK unreadable :
            asked' = [about |-> "figures", db |-> db, unreadable |-> unreadable]
      BY <2>1
    <3>2. QED BY <3>1
  <2>3. V!StoreOK(db, Today)
    BY DEF CalculationsAssumption
  <2>4. QED BY <2>2, <2>3
<1>4. ASSUME AskKey PROVE asked'.about = "key" /\ asked'.name \in Seq(STRING)
  BY <1>4 DEF AskKey, CalculationsAssumption
<1>5. ASSUME AskSymbol PROVE asked'.about = "symbol"
  BY <1>5 DEF AskSymbol
<1>6. QED BY <1>1, <1>2, <1>3, <1>4, <1>5 DEF Ask, AnswerIsDue, None, Today

LEMMA AnswerDue ==
  ASSUME AnswerIsDue, AnswerLimit \/ AnswerKey \/ AnswerFigures \/ AnswerSymbol
  PROVE  AnswerIsDue'
<1>1. None.about = "nothing"
  BY DEF None
<1>2. asked' = asked /\ asked # None
  BY <1>1 DEF AnswerLimit, AnswerKey, AnswerFigures, AnswerSymbol, Put
<1>3. CASE AnswerLimit
  <2>1. asked.about = "limit" /\ answer'.active = S!IsActive(asked.cfg, asked.now)
    BY <1>3 DEF AnswerLimit, Put
  <2>2. QED BY <1>2, <2>1 DEF AnswerIsDue
<1>4. CASE AnswerFigures
  <2>1. asked.about = "figures"
    BY <1>4 DEF AnswerFigures, Put
  <2>2. \E order \in V!Orders(V!AppsThisWeek(asked.db, Today)) :
          answer' = [tab |-> V!Insights(asked.db, Today, order),
                     csv |-> V!Csv(asked.db, Today),
                     export |-> V!Export(asked.db, Today, asked.unreadable)]
    BY <1>4 DEF AnswerFigures
  <2>3. QED BY <1>2, <2>1, <2>2, Zenon DEF AnswerIsDue, Today
<1>5. CASE AnswerKey
  <2>1. asked.about = "key" /\ answer'.desktop = K!CanonicalKey(asked.name)
    BY <1>5 DEF AnswerKey, Put
  <2>2. QED BY <1>2, <2>1 DEF AnswerIsDue
<1>6. CASE AnswerSymbol
  <2>1. asked.about = "symbol"
    BY <1>6 DEF AnswerSymbol, Put
  <2>2. QED BY <1>2, <2>1 DEF AnswerIsDue
<1>7. QED BY <1>3, <1>4, <1>5, <1>6

LEMMA DueStep == ASSUME CalculationsAssumption, AnswerIsDue, [Next]_vars PROVE AnswerIsDue'
<1>1. CASE Ask
  BY <1>1, CalculationsAssumption, AskDue
<1>2. CASE AnswerLimit \/ AnswerKey \/ AnswerFigures \/ AnswerSymbol
  BY <1>2, AnswerDue
<1>3. CASE Forget
  BY <1>3 DEF Forget, AnswerIsDue, None
<1>4. CASE UNCHANGED vars
  BY <1>4 DEF vars, AnswerIsDue, Today
<1>5. QED BY <1>1, <1>2, <1>3, <1>4 DEF Next

LEMMA AlwaysDue == Spec => []AnswerIsDue
<1>1. Init => AnswerIsDue
  BY DEF Init, AnswerIsDue, None
<1>2. AnswerIsDue /\ [Next]_vars => AnswerIsDue'
  BY CalculationsAssumption, DueStep
<1>3. QED BY <1>1, <1>2, PTL DEF Spec

\* Focus hours are on exactly while a window that opened on a chosen day is open, and
\* they only ever tighten a limit, whatever the five settings hold (is_active and
\* effective_daily_limit, core/schedule.py).
THEOREM FocusHours == Spec => []FocusHoursTighten
<1>1. AnswerIsDue => FocusHoursTighten
  <2> SUFFICES ASSUME AnswerIsDue, Answered("limit")
               PROVE  /\ answer.active = S!InWindow(asked.cfg, asked.now)
                      /\ S!Tightens(asked.own, asked.cfg, asked.now)
    BY DEF FocusHoursTighten
  <2>1. asked.own \in Int /\ asked.cfg \in S!Configs /\ asked.now \in S!Moments
    BY DEF AnswerIsDue, Answered
  <2>2. answer.active = S!IsActive(asked.cfg, asked.now)
    BY DEF AnswerIsDue, Answered
  <2>3. S!IsActive(asked.cfg, asked.now) = S!InWindow(asked.cfg, asked.now)
    <3>1. S!IsActive(asked.cfg, asked.now) <=> S!InWindow(asked.cfg, asked.now)
      BY <2>1, ActiveIsWindow
    <3>2. QED BY <3>1, Zenon DEF S!IsActive, S!InWindow
  <2>4. S!Tightens(asked.own, asked.cfg, asked.now)
    BY <2>1, FocusOnlyTightens
  <2>5. QED BY <2>2, <2>3, <2>4
<1>2. QED BY <1>1, AlwaysDue, PTL

\* Whatever the tables hold, the figures agree with one another and with what is handed
\* out (the queries of core/database.py, ui/insights_page.py, core/dataexport.py).
THEOREM Figures == Spec => []FiguresAgree
<1>1. AnswerIsDue => FiguresAgree
  <2> SUFFICES ASSUME AnswerIsDue, Answered("figures")
               PROVE  /\ V!WeekAddsUp(asked.db, Today)
                      /\ V!InsightsAgree(asked.db, Today, answer.tab)
                      /\ answer.csv = {r \in V!HistoryRows(asked.db, 36500, Today) : r.day > Today - 30}
                      /\ V!ExportIsWhole(asked.db, Today, asked.unreadable, answer.export)
    BY DEF FiguresAgree
  <2>1. Today \in Int
    BY DEF Today
  <2>2. V!StoreOK(asked.db, Today)
    BY Zenon DEF AnswerIsDue, Answered
  <2>3. PICK order \in V!Orders(V!AppsThisWeek(asked.db, Today)) :
          answer = [tab |-> V!Insights(asked.db, Today, order),
                    csv |-> V!Csv(asked.db, Today),
                    export |-> V!Export(asked.db, Today, asked.unreadable)]
    BY Zenon DEF AnswerIsDue, Answered
  <2>4. /\ answer.tab = V!Insights(asked.db, Today, order)
        /\ answer.csv = V!Csv(asked.db, Today)
        /\ answer.export = V!Export(asked.db, Today, asked.unreadable)
    BY <2>3
  <2>5. V!WeekAddsUp(asked.db, Today)
    BY <2>1, <2>2, WeekIsOne
  <2>6. V!InsightsAgree(asked.db, Today, V!Insights(asked.db, Today, order))
    BY <2>1, <2>2, TabAgrees
  <2>7. V!Csv(asked.db, Today) =
          {r \in V!HistoryRows(asked.db, 36500, Today) : r.day > Today - 30}
    BY <2>1, <2>2, CsvIsTheMonth
  <2>8. V!ExportIsWhole(asked.db, Today, asked.unreadable,
                        V!Export(asked.db, Today, asked.unreadable))
    BY <2>1, <2>2, ExportHasAll
  <2>9. QED BY <2>4, <2>5, <2>6, <2>7, <2>8
<1>2. QED BY <1>1, AlwaysDue, PTL

\* Whatever app is asked about, the two platforms have one key for it, and the shapes of
\* a product's name have the product's (core/syncproto.py, core/Sync.kt).
THEOREM Keys == Spec => []SameKeyEverywhere
<1>1. AnswerIsDue => SameKeyEverywhere
  <2> SUFFICES ASSUME AnswerIsDue, Answered("key")
               PROVE  /\ K!OneKey(asked.name)
                      /\ \A product \in {"spotify", "chat"} :
                           asked.name \in K!Shapes(product, "vendor") =>
                             answer.desktop = <<product>>
    BY DEF SameKeyEverywhere
  <2>1. asked.name \in Seq(STRING) /\ answer.desktop = K!CanonicalKey(asked.name)
    BY DEF AnswerIsDue, Answered
  <2>2. "vendor" \notin K!Separators /\ \A product \in {"spotify", "chat"} : IsProduct(product)
    BY DEF IsProduct, K!Separators, K!Dot, K!Space, K!NoiseWords, K!PlatformSegments,
           K!GenericSegments, K!ExecutableSuffixes
  <2>3. ASSUME NEW product \in {"spotify", "chat"}, asked.name \in K!Shapes(product, "vendor")
        PROVE  answer.desktop = <<product>>
    BY <2>1, <2>2, <2>3, ProductsMeet
  <2>4. QED BY <2>1, <2>3, OneKeyPerName
<1>2. QED BY <1>1, AlwaysDue, PTL
=============================================================================
