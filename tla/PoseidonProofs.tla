--------------------------- MODULE PoseidonProofs ---------------------------
(***************************************************************************)
(* poseidon.c computes the prover's hash, for every modulus, width, number *)
(* of rounds, table, message and history of calls.  The permutation is     *)
(* followed round by round (RoundsRight), the sponge block by block        *)
(* (SpongeRight), the byte stream chunk by chunk (StreamRight).  The       *)
(* prover's side is written with folds; what a fold is, is proved first.   *)
(***************************************************************************)
EXTENDS PoseidonSponge, SequenceTheorems, WellFoundedInduction, TLAPS

(* Numbers *)

LEMMA Sizes ==
  /\ P \in Nat \ {0} /\ P > 1 /\ WIDTH \in Nat /\ WIDTH > 1 /\ RATE \in Nat \ {0} /\ RATE = WIDTH - 1
  /\ TOTAL \in Nat \ {0} /\ CHUNK \in Nat \ {0} /\ BYTE \in Nat /\ BYTE > 1
BY PoseidonAssumption DEF WIDTH, RATE, TOTAL

LEMMA DivMod ==
  ASSUME NEW v \in Int, NEW w \in Nat \ {0}
  PROVE  v \div w \in Int /\ v % w \in 0 .. w - 1 /\ v = (v \div w) * w + (v % w)
OBVIOUS

LEMMA NoMultipleBetween ==
  ASSUME NEW d \in Int, NEW w \in Nat \ {0}, d >= 1
  PROVE  d * w >= w
<1>1. (d - 1) * w >= 0
  OBVIOUS
<1>2. (d - 1) * w = d * w - w
  OBVIOUS
<1> QED BY <1>1, <1>2

(* Quotient and remainder are the only ones that fit. *)
LEMMA Divides ==
  ASSUME NEW v \in Int, NEW q \in Int, NEW w \in Nat \ {0}, NEW m \in 0 .. w - 1, v = q * w + m
  PROVE  v % w = m /\ v \div w = q
<1> DEFINE u == v \div w
           n == v % w
<1>1. u \in Int /\ n \in 0 .. w - 1 /\ v = u * w + n
  BY DivMod
<1> HIDE DEF u, n
<1>2. (u - q) * w = m - n /\ (q - u) * w = n - m
  BY <1>1
<1>3. ~ (u - q >= 1)
  BY <1>1, <1>2, NoMultipleBetween
<1>4. ~ (q - u >= 1)
  BY <1>1, <1>2, NoMultipleBetween
<1>5. u = q
  BY <1>1, <1>3, <1>4
<1>6. n = m
  BY <1>1, <1>2, <1>5
<1> QED BY <1>5, <1>6 DEF u, n

LEMMA InField == \A v \in Int : v % P \in Field
BY Sizes, DivMod DEF Field

LEMMA OwnRemainder == \A v \in Field : v % P = v
BY Sizes DEF Field

(* Numbers that differ by a multiple of P have the same remainder. *)
LEMMA SameRemainder ==
  ASSUME NEW v \in Int, NEW k \in Int
  PROVE  (v + k * P) % P = v % P
<1> DEFINE q == v \div P
           m == v % P
<1>1. q \in Int /\ m \in 0 .. P - 1 /\ v = q * P + m
  BY Sizes, DivMod
<1> HIDE DEF q, m
<1>2. v + k * P = (q + k) * P + m /\ q + k \in Int /\ v + k * P \in Int
  BY <1>1, Sizes
<1> DEFINE x == v + k * P
           y == q + k
<1>3. x \in Int /\ y \in Int /\ x = y * P + m
  BY <1>2
<1> HIDE DEF x, y
<1>4. x % P = m
  BY <1>1, <1>3, Sizes, Divides
<1> QED BY <1>4 DEF x, m

(* A sum reduced at each addition or once at the end. *)
LEMMA ReducedAtEach ==
  ASSUME NEW u \in Int, NEW v \in Int
  PROVE  ((u % P) + (v % P)) % P = (u + v) % P
<1> DEFINE m == u % P
           n == v % P
           q == u \div P
           k == v \div P
<1>1. m \in Int /\ q \in Int /\ u = q * P + m /\ n \in Int /\ k \in Int /\ v = k * P + n
  BY Sizes, DivMod
<1> HIDE DEF m, n, q, k
<1>2. u + v = (m + n) + (q + k) * P /\ m + n \in Int /\ q + k \in Int
  BY <1>1, Sizes
<1> DEFINE x == m + n
           y == q + k
<1>3. x \in Int /\ y \in Int /\ u + v = x + y * P
  BY <1>2
<1> HIDE DEF x, y
<1>4. (x + y * P) % P = x % P
  BY <1>3, SameRemainder
<1> QED BY <1>3, <1>4 DEF x, m, n

-----------------------------------------------------------------------------
(* Recursion and folds *)

LEMMA NatLeast ==
  ASSUME NEW T, T \subseteq Nat, T # {}
  PROVE  \E m \in T : \A l \in T : ~ (l < m)
<1>1. IsWellFoundedOn(OpToRel(<, Nat), Nat)
  BY NatLessThanWellFounded, Zenon
<1>2. \E m \in T : \A l \in T : <<l, m>> \notin OpToRel(<, Nat)
  BY <1>1, WFMin, Zenon
<1>3. PICK m \in T : \A l \in T : <<l, m>> \notin OpToRel(<, Nat)
  BY <1>2, Zenon
<1>4. ASSUME NEW l \in T, l < m PROVE FALSE
  <2>1. l \in Nat /\ m \in Nat
    OBVIOUS
  <2>2. <<l, m>> \in OpToRel(<, Nat)
    BY <1>4, <2>1, Zenon DEF OpToRel
  <2> QED BY <1>3, <2>2, Zenon
<1> QED BY <1>4, Zenon

LEMMA UpTo ==
  ASSUME NEW n \in Nat, NEW S, 0 \in S, \A k \in 0 .. n - 1 : k \in S => k + 1 \in S
  PROVE  \A k \in 0 .. n : k \in S
<1> DEFINE T == (0 .. n) \ S
<1>1. SUFFICES ASSUME T # {} PROVE FALSE
  OBVIOUS
<1>2. PICK m \in T : \A l \in T : ~ (l < m)
  <2>1. T \subseteq Nat
    OBVIOUS
  <2> HIDE DEF T
  <2> QED BY <1>1, <2>1, NatLeast, Zenon
<1>3. m - 1 \in 0 .. n - 1 /\ m - 1 \notin T
  BY <1>2
<1> QED BY <1>3

Recurs(f, D, base, n, H) ==
  f \in [0 .. n -> D] /\ f[0] = base /\ \A k \in 0 .. n - 1 : f[k + 1] = H[<<f[k], k + 1>>]

(* A recursion over 0 .. n has a solution when each step stays in D.        *)
LEMMA StepsExist ==
  ASSUME NEW D, NEW base \in D, NEW n \in Nat, NEW H \in [D \X (1 .. n) -> D]
  PROVE  \E f : Recurs(f, D, base, n, H)
<1> DEFINE Upto(f, m) == /\ f \in [0 .. m -> D] /\ f[0] = base
                         /\ \A k \in 0 .. m - 1 : f[k + 1] = H[<<f[k], k + 1>>]
           S == {m \in 0 .. n : \E f : Upto(f, m)}
<1>1. 0 \in S
  <2> DEFINE f == [k \in 0 .. 0 |-> base]
  <2>1. Upto(f, 0)
    OBVIOUS
  <2> HIDE DEF Upto, f
  <2> QED BY <2>1
<1>2. ASSUME NEW m \in 0 .. n - 1, m \in S PROVE m + 1 \in S
  <2>1. PICK f : Upto(f, m)
    BY <1>2
  <2> DEFINE x == H[<<f[m], m + 1>>]
             g == [k \in 0 .. m + 1 |-> IF k = m + 1 THEN x ELSE f[k]]
  <2>2. x \in D
    <3>1. f[m] \in D /\ m + 1 \in 1 .. n
      BY <2>1
    <3>2. <<f[m], m + 1>> \in D \X (1 .. n)
      BY <3>1
    <3> QED BY <3>2
  <2>3. g \in [0 .. m + 1 -> D] /\ g[m + 1] = x /\ \A k \in 0 .. m : g[k] = f[k]
    <3> HIDE DEF x
    <3> QED BY <2>1, <2>2
  <2> HIDE DEF g
  <2>4. ASSUME NEW k \in 0 .. m PROVE g[k + 1] = H[<<g[k], k + 1>>]
    <3>1. CASE k = m
      BY <2>3, <3>1
    <3>2. CASE k # m
      <4>1. k \in 0 .. m - 1 /\ k + 1 \in 0 .. m
        BY <3>2
      <4>2. g[k + 1] = f[k + 1] /\ g[k] = f[k]
        BY <2>3, <4>1
      <4>3. f[k + 1] = H[<<f[k], k + 1>>]
        BY <2>1, <4>1
      <4> QED BY <4>2, <4>3
    <3> QED BY <3>1, <3>2
  <2>5. g[0] = base
    BY <2>1, <2>3
  <2>6. (m + 1) - 1 = m /\ m + 1 \in 0 .. n
    OBVIOUS
  <2>7. Upto(g, m + 1)
    BY <2>3, <2>4, <2>5, <2>6
  <2> HIDE DEF Upto
  <2> QED BY <2>6, <2>7
<1>3. n \in S
  <2> HIDE DEF S
  <2>1. \A m \in 0 .. n : m \in S
    BY <1>1, <1>2, UpTo
  <2> QED BY <2>1
<1> QED BY <1>3 DEF Recurs

(* The community modules' FoldLeft takes the greatest index first. *)
LEMMA MaxUpTo ==
  ASSUME NEW m \in Nat, NEW S \in SUBSET (1 .. m + 1), m + 1 \in S
  PROVE  Max(S) = m + 1
<1>1. \A x \in S : (\A y \in S : x >= y) <=> x = m + 1
  OBVIOUS
<1> QED BY <1>1 DEF Max

FoldsBy(H, D, base, n, it) ==
  /\ it \in [SUBSET (1 .. n) -> D]
  /\ it = [S \in SUBSET (1 .. n) |-> IF S = {} THEN base ELSE H[<<it[S \ {Max(S)}], Max(S)>>]]

LEMMA FoldExists ==
  ASSUME NEW D, NEW base \in D, NEW n \in Nat, NEW H \in [D \X (1 .. n) -> D]
  PROVE  \E it : FoldsBy(H, D, base, n, it)
<1> DEFINE T == {m \in 0 .. n : \E it : FoldsBy(H, D, base, m, it)}
<1>1. 0 \in T
  <2> DEFINE it == [S \in SUBSET (1 .. 0) |-> base]
  <2>1. \A S \in SUBSET (1 .. 0) : S = {}
    OBVIOUS
  <2>2. FoldsBy(H, D, base, 0, it)
    BY <2>1 DEF FoldsBy
  <2> HIDE DEF it
  <2> QED BY <2>2
<1>2. ASSUME NEW m \in 0 .. n - 1, m \in T PROVE m + 1 \in T
  <2>1. PICK it : FoldsBy(H, D, base, m, it)
    BY <1>2
  <2> DEFINE E == SUBSET (1 .. m + 1)
             g == [S \in E |-> IF m + 1 \in S THEN H[<<it[S \ {m + 1}], m + 1>>] ELSE it[S]]
             G(f, S) == IF S = {} THEN base ELSE H[<<f[S \ {Max(S)}], Max(S)>>]
  <2>2. ASSUME NEW S \in E, m + 1 \in S
        PROVE  g[S] \in D /\ g[S] = G(g, S)
    <3>1. Max(S) = m + 1
      BY <2>2, MaxUpTo
    <3>2. S \ {m + 1} \in E /\ m + 1 \notin S \ {m + 1} /\ S # {} /\ S \ {m + 1} \in SUBSET (1 .. m)
      BY <2>2
    <3>3. g[S] = H[<<it[S \ {m + 1}], m + 1>>] /\ g[S \ {m + 1}] = it[S \ {m + 1}]
      BY <2>2, <3>2
    <3>4. it[S \ {m + 1}] \in D /\ m + 1 \in 1 .. n
      <4>1. it \in [SUBSET (1 .. m) -> D]
        BY <2>1 DEF FoldsBy
      <4> HIDE DEF g, E
      <4> QED BY <3>2, <4>1
    <3>5. <<it[S \ {m + 1}], m + 1>> \in D \X (1 .. n)
      BY <3>4
    <3> HIDE DEF g
    <3> QED BY <3>1, <3>2, <3>3, <3>5
  <2>3. ASSUME NEW S \in E, m + 1 \notin S
        PROVE  g[S] \in D /\ g[S] = G(g, S)
    <3>1. S \in SUBSET (1 .. m)
      BY <2>3
    <3>2. it[S] = G(it, S) /\ it[S] \in D
      BY <2>1, <3>1 DEF FoldsBy
    <3>3. g[S] = it[S]
      BY <2>3
    <3>4. S \ {Max(S)} \in E /\ m + 1 \notin S \ {Max(S)}
      BY <2>3
    <3>5. g[S \ {Max(S)}] = it[S \ {Max(S)}]
      BY <3>4
    <3> HIDE DEF g
    <3> QED BY <3>2, <3>3, <3>5
  <2>4. g \in [E -> D] /\ g = [S \in E |-> G(g, S)]
    BY <2>2, <2>3
  <2>5. FoldsBy(H, D, base, m + 1, g)
    BY <2>4 DEF FoldsBy
  <2> HIDE DEF g
  <2> QED BY <2>5
<1>3. n \in T
  <2> HIDE DEF T
  <2>1. \A k \in 0 .. n : k \in T
    BY <1>1, <1>2, UpTo
  <2> QED BY <2>1
<1> QED BY <1>3

(* Every nonempty set that a fold meets has its greatest element. *)
LEMMA MaxIn ==
  ASSUME NEW n \in Nat, NEW S \in SUBSET (1 .. n), S # {}
  PROVE  Max(S) \in S
<1> DEFINE T == {m \in 0 .. n : \A X \in SUBSET (1 .. m) : X # {} => Max(X) \in X}
<1>1. 0 \in T
  <2>1. \A X \in SUBSET (1 .. 0) : X = {}
    OBVIOUS
  <2>2. \A X \in SUBSET (1 .. 0) : X # {} => Max(X) \in X
    BY <2>1, Zenon
  <2>3. 0 \in 0 .. n
    OBVIOUS
  <2> QED BY <2>2, <2>3
<1>2. ASSUME NEW m \in 0 .. n - 1, m \in T PROVE m + 1 \in T
  <2>1. ASSUME NEW X \in SUBSET (1 .. m + 1), X # {} PROVE Max(X) \in X
    <3>1. CASE m + 1 \in X
      BY <3>1, MaxUpTo
    <3>2. CASE m + 1 \notin X
      <4>1. X \in SUBSET (1 .. m)
        BY <3>2
      <4> QED BY <1>2, <2>1, <4>1
    <3> QED BY <3>1, <3>2
  <2> QED BY <2>1
<1>3. n \in T
  <2> HIDE DEF T
  <2>1. \A k \in 0 .. n : k \in T
    BY <1>1, <1>2, UpTo
  <2> QED BY <2>1
<1> QED BY <1>3

LEMMA PrefixStep ==
  ASSUME NEW n \in Nat, NEW k \in 0 .. n - 1
  PROVE  /\ 1 .. k + 1 \in SUBSET (1 .. n) /\ 1 .. k + 1 # {}
         /\ Max(1 .. k + 1) = k + 1 /\ (1 .. k + 1) \ {k + 1} = 1 .. k /\ k + 1 \in 1 .. n
<1> DEFINE S == 1 .. k + 1
<1>1. \A x \in S : x \in 1 .. n
  OBVIOUS
<1>2. k + 1 \in S /\ k \in Nat
  OBVIOUS
<1>3. \A x : x \in S \ {k + 1} <=> x \in 1 .. k
  OBVIOUS
<1>4. S \ {k + 1} = 1 .. k
  BY <1>3
<1>5. Max(S) = k + 1
  BY <1>2, MaxUpTo
<1> HIDE DEF S
<1>6. S \in SUBSET (1 .. n) /\ S # {} /\ k + 1 \in 1 .. n
  BY <1>1, <1>2
<1> QED BY <1>4, <1>5, <1>6 DEF S

(* A fold takes the values of the recursion. *)
Follows(it, D, base, n, H) ==
  /\ it[{}] = base
  /\ \A k \in 0 .. n - 1 : it[1 .. k] \in D => it[1 .. k + 1] = H[<<it[1 .. k], k + 1>>]

Ends(it, f, n) == it[1 .. n] = f[n]

LEMMA FoldSteps ==
  ASSUME NEW D, NEW base \in D, NEW n \in Nat, NEW H \in [D \X (1 .. n) -> D], NEW it,
         Follows(it, D, base, n, H), NEW f, Recurs(f, D, base, n, H)
  PROVE  Ends(it, f, n)
<1> DEFINE T == {k \in 0 .. n : it[1 .. k] = f[k]}
<1>2. 0 \in T
  <2>1. 1 .. 0 = {}
    OBVIOUS
  <2> QED BY <2>1 DEF Recurs, Follows
<1>3. ASSUME NEW k \in 0 .. n - 1, k \in T PROVE k + 1 \in T
  <2>1. k \in 0 .. n /\ k + 1 \in 0 .. n
    OBVIOUS
  <2>2. f[k] \in D /\ f[k + 1] = H[<<f[k], k + 1>>]
    BY <2>1 DEF Recurs
  <2> QED BY <1>3, <2>1, <2>2 DEF Follows
<1> HIDE DEF T
<1>4. n \in T
  <2>1. \A k \in 0 .. n : k \in T
    BY <1>2, <1>3, UpTo
  <2> QED BY <2>1
<1> QED BY <1>4 DEF T, Ends

(* The folds of the prover's hash, as recursions. *)
Numbers(n) == [k \in 1 .. n |-> k]

Value(s) == FoldLeft(LAMBDA acc, c : acc * BYTE + c, 0, s)

LEMMA ValueFold ==
  ASSUME NEW s \in Seq(Nat)
  PROVE  \E f : /\ f \in [0 .. Len(s) -> Nat] /\ f[0] = 0
                /\ \A k \in 0 .. Len(s) - 1 : f[k + 1] = f[k] * BYTE + s[k + 1]
                /\ Value(s) = f[Len(s)]
<1> DEFINE n == Len(s)
           H == [p \in Nat \X (1 .. n) |-> p[1] * BYTE + s[p[2]]]
           Q(it) == it = [S \in SUBSET (1 .. n) |->
                            IF S = {} THEN 0 ELSE it[S \ {Max(S)}] * BYTE + s[Max(S)]]
<1>1. n \in Nat /\ DOMAIN s = 1 .. n /\ \A k \in 1 .. n : s[k] \in Nat
  OBVIOUS
<1> HIDE DEF n
<1>2. \A x \in Nat : \A k \in 1 .. n : x * BYTE + s[k] \in Nat /\ H[<<x, k>>] = x * BYTE + s[k]
  BY <1>1, Sizes
<1>3. H \in [Nat \X (1 .. n) -> Nat]
  <2>1. ASSUME NEW p \in Nat \X (1 .. n) PROVE p[1] * BYTE + s[p[2]] \in Nat
    <3>1. p[1] \in Nat /\ p[2] \in 1 .. n
      OBVIOUS
    <3> QED BY <1>2, <3>1
  <2> QED BY <2>1
<1> HIDE DEF H
<1>4. \E it : Q(it)
  <2>1. PICK it : FoldsBy(H, Nat, 0, n, it)
    BY <1>1, <1>3, FoldExists
  <2>2. it \in [SUBSET (1 .. n) -> Nat]
    BY <2>1 DEF FoldsBy
  <2>3. ASSUME NEW S \in SUBSET (1 .. n), S # {}
        PROVE  it[S] = it[S \ {Max(S)}] * BYTE + s[Max(S)]
    <3>1. it[S] = H[<<it[S \ {Max(S)}], Max(S)>>]
      BY <2>1, <2>3 DEF FoldsBy
    <3>2. Max(S) \in 1 .. n
      BY <1>1, <2>3, MaxIn
    <3>3. it[S \ {Max(S)}] \in Nat
      BY <2>2
    <3> QED BY <1>2, <3>1, <3>2, <3>3
  <2>4. it[{}] = 0
    BY <2>1 DEF FoldsBy
  <2>5. Q(it)
    BY <2>2, <2>3, <2>4
  <2> HIDE DEF Q
  <2> QED BY <2>5
<1> DEFINE it == CHOOSE g : Q(g)
<1>5. Value(s) = it[1 .. n]
  BY <1>1 DEF Value, FoldLeft, MapThenFoldSet
<1>6. Q(it)
  <2> HIDE DEF Q
  <2> QED BY <1>4
<1> HIDE DEF it
<1>7. it[{}] = 0
  BY <1>6
<1>8. ASSUME NEW k \in 0 .. n - 1, it[1 .. k] \in Nat
      PROVE  it[1 .. k + 1] = H[<<it[1 .. k], k + 1>>]
  <2> DEFINE X == 1 .. k + 1
  <2>1. X \in SUBSET (1 .. n) /\ X # {} /\ Max(X) = k + 1 /\ X \ {k + 1} = 1 .. k /\ k + 1 \in 1 .. n
    BY <1>1, PrefixStep
  <2> HIDE DEF X
  <2>2. it[X] = it[X \ {Max(X)}] * BYTE + s[Max(X)]
    BY <1>6, <2>1
  <2>3. it[X] = H[<<it[1 .. k], k + 1>>]
    BY <1>2, <1>8, <2>1, <2>2
  <2> QED BY <2>3 DEF X
<1>9. PICK f : Recurs(f, Nat, 0, n, H)
  BY <1>1, <1>3, StepsExist
<1>12. it[1 .. n] = f[n]
  <2>1. Follows(it, Nat, 0, n, H)
    BY <1>7, <1>8 DEF Follows
  <2>2. Ends(it, f, n)
    BY <1>1, <1>3, <1>9, <2>1, FoldSteps
  <2> QED BY <2>2 DEF Ends
<1>10. f \in [0 .. n -> Nat] /\ f[0] = 0
  BY <1>9 DEF Recurs
<1>11. ASSUME NEW k \in 0 .. n - 1 PROVE f[k + 1] = f[k] * BYTE + s[k + 1]
  <2>1. f[k + 1] = H[<<f[k], k + 1>>]
    BY <1>9 DEF Recurs
  <2>2. k \in 0 .. n /\ k + 1 \in 1 .. n
    BY <1>1
  <2>3. f[k] \in Nat
    BY <1>10, <2>2
  <2> QED BY <1>2, <2>1, <2>2, <2>3
<1> QED BY <1>5, <1>10, <1>11, <1>12 DEF n
-----------------------------------------------------------------------------
(* What a call has computed at each place *)

States == [Slot -> Field]

(* The state as arkworks numbers it, the capacity at one. *)
Shifted(s) == [c \in 1 .. WIDTH |-> s[c - 1]]

(* The state after k of the rounds that begin with s. *)
After(s, k) ==
  LET f[n \in 0 .. TOTAL] == IF n = 0 THEN s ELSE Rust!Round(f[n - 1], n - 1, is_full(n - 1))
  IN  f[k]

(* A round, step by step. *)
Keyed(s, n) == [c \in 1 .. WIDTH |-> (s[c] + ArkTable[n][c - 1]) % P]
Boxed(s, n) == [c \in 1 .. WIDTH |-> IF is_full(n) \/ c = 1 THEN Rust!Pow5(Keyed(s, n)[c])
                                                         ELSE Keyed(s, n)[c]]

Permuting == {"ark", "sbox", "mds"}

TablesRight ==
  /\ initialized => ARK = ArkTable /\ MDS = MdsTable
  /\ pc \notin {"idle", "init"} => initialized
  /\ pc = "init" => /\ ~ initialized
                    /\ \A k \in 0 .. TOTAL - 1 : k < r => ARK[k] = ArkTable[k]
                    /\ \A k \in Slot : k < r - TOTAL => MDS[k] = MdsTable[k]

(* What the prover's sponge holds before the permutation that is running. *)
Base == Rust!Absorbed(absorbed)

RoundsRight ==
  /\ pc = "ark" => Shifted(state) = After(Base, round)
  /\ pc = "sbox" => Shifted(state) = Keyed(After(Base, round), round)
  /\ pc = "mds" => /\ Shifted(state) = Boxed(After(Base, round), round)
                   /\ \A k \in 0 .. i - 1 : next[k] = Rust!Dot(MdsTable[k], Shifted(state))

(* The rate has idx elements of the last block; at a full one absorb       *)
(* permutes and starts again.                                              *)
Full(n) == n > 0 /\ n % RATE = 0
Position(n) == IF n = 0 THEN 0 ELSE ((n - 1) % RATE) + 1

SpongeRight ==
  /\ pc = "load" => /\ Shifted(state) = Base /\ idx = Position(Len(absorbed))
                    /\ Len(absorbed) > 0
  /\ pc = "absorb" => \/ Shifted(state) = Base /\ idx = Position(Len(absorbed))
                      \/ Shifted(state) = Rust!Permute(Base) /\ idx = 0 /\ Full(Len(absorbed))
  /\ pc \in Permuting /\ ret = "absorb" => idx = 0 /\ Full(Len(absorbed))
  /\ pc = "squeeze" => Shifted(state) = Rust!Permute(Base)

(* Where the n-th chunk of m ends. *)
End(m, n) == IF n * CHUNK < Len(m) THEN n * CHUNK ELSE Len(m)

Absorbing == pc \in {"absorb", "load"} \/ (pc \in Permuting /\ ret = "absorb")

Chunks == IF pc = "load" THEN Len(absorbed) - 1 ELSE Len(absorbed)

StreamRight ==
  /\ absorbed \in Seq(Field)
  /\ pc \in {"start", "init"} => absorbed = <<>>
  /\ Absorbing =>
       /\ arg.fn = "bytes"
       /\ IsPrefix(absorbed, Rust!Pack(arg.v))
       /\ off = End(arg.v, Chunks)
       /\ pc # "load" => /\ Len(absorbed) < Len(Rust!Pack(arg.v))
                         /\ e = Rust!Pack(arg.v)[Len(absorbed) + 1]
  /\ pc = "squeeze" \/ (pc \in Permuting /\ ret = "squeeze") => absorbed = ElementsOf(arg)

LogRight == \A c \in log : c.arg \in Args /\ c.absorbed = ElementsOf(c.arg)

Right == TablesRight /\ RoundsRight /\ SpongeRight /\ StreamRight /\ LogRight

Vectors == [1 .. WIDTH -> Field]

DotStep(row, v, x, k) == x + row[k - 1] * v[k]

DotFold(row, v) == FoldLeft(LAMBDA acc, c : DotStep(row, v, acc, c), 0, Numbers(RATE + 1))

LEMMA DotFolds ==
  ASSUME NEW row, NEW v,
         \A x \in Int : \A k \in 1 .. (RATE + 1) : DotStep(row, v, x, k) \in Int
  PROVE  \E f : /\ f \in [0 .. (RATE + 1) -> Int] /\ f[0] = 0
                /\ \A k \in 0 .. (RATE + 1) - 1 : f[k + 1] = DotStep(row, v, f[k], k + 1)
                /\ DotFold(row, v) = f[(RATE + 1)]
<1> DEFINE D == Int
           m == (RATE + 1)
           H == [p \in D \X (1 .. m) |-> DotStep(row, v, p[1], p[2])]
           Q(it) == it = [S \in SUBSET (1 .. m) |->
                            IF S = {} THEN 0
                            ELSE DotStep(row, v, it[S \ {Max(S)}], Numbers(m)[Max(S)])]
<1>1. m \in Nat /\ 0 \in D /\ DOMAIN Numbers(m) = 1 .. m
  BY Sizes DEF Numbers
<1>2. \A x \in D : \A k \in 1 .. m : DotStep(row, v, x, k) \in D /\ Numbers(m)[k] = k
  BY DEF Numbers
<1>3. DotFold(row, v) = (CHOOSE it : Q(it))[1 .. m]
  BY <1>1 DEF DotFold, FoldLeft, MapThenFoldSet
<1> HIDE DEF D, m
<1>4. \A x \in D : \A k \in 1 .. m : H[<<x, k>>] = DotStep(row, v, x, k)
  OBVIOUS
<1>5. H \in [D \X (1 .. m) -> D]
  BY <1>2
<1> HIDE DEF H
<1>6. \E it : Q(it)
  <2>1. PICK it : FoldsBy(H, D, 0, m, it)
    BY <1>1, <1>5, FoldExists
  <2>2. it \in [SUBSET (1 .. m) -> D] /\ it[{}] = 0
    BY <2>1 DEF FoldsBy
  <2>3. ASSUME NEW S \in SUBSET (1 .. m), S # {}
        PROVE  it[S] = DotStep(row, v, it[S \ {Max(S)}], Numbers(m)[Max(S)])
    <3>1. it[S] = H[<<it[S \ {Max(S)}], Max(S)>>]
      BY <2>1, <2>3 DEF FoldsBy
    <3>2. Max(S) \in 1 .. m
      BY <1>1, <2>3, MaxIn
    <3>3. it[S \ {Max(S)}] \in D
      BY <2>2
    <3> QED BY <1>2, <1>4, <3>1, <3>2, <3>3
  <2>4. Q(it)
    BY <2>2, <2>3
  <2> HIDE DEF Q
  <2> QED BY <2>4
<1> DEFINE it == CHOOSE g : Q(g)
<1>7. Q(it)
  <2> HIDE DEF Q
  <2> QED BY <1>6
<1> HIDE DEF it
<1>8. it[{}] = 0
  BY <1>7
<1>9. ASSUME NEW k \in 0 .. m - 1, it[1 .. k] \in D
      PROVE  it[1 .. k + 1] = H[<<it[1 .. k], k + 1>>]
  <2> DEFINE X == 1 .. k + 1
  <2>1. X \in SUBSET (1 .. m) /\ X # {} /\ Max(X) = k + 1 /\ X \ {k + 1} = 1 .. k /\ k + 1 \in 1 .. m
    BY <1>1, PrefixStep
  <2> HIDE DEF X
  <2>2. it[X] = DotStep(row, v, it[X \ {Max(X)}], Numbers(m)[Max(X)])
    BY <1>7, <2>1
  <2>3. it[X \ {Max(X)}] = it[1 .. k] /\ Numbers(m)[Max(X)] = k + 1
    BY <1>2, <1>9, <2>1
  <2>4. it[X] = DotStep(row, v, it[1 .. k], k + 1)
    BY <2>2, <2>3
  <2>5. it[X] = H[<<it[1 .. k], k + 1>>]
    BY <1>4, <1>9, <2>1, <2>4
  <2> QED BY <2>5 DEF X
<1>10. PICK f : Recurs(f, D, 0, m, H)
  BY <1>1, <1>5, StepsExist
<1>11. it[1 .. m] = f[m]
  <2>1. Follows(it, D, 0, m, H)
    BY <1>8, <1>9 DEF Follows
  <2>2. Ends(it, f, m)
    BY <1>1, <1>5, <1>10, <2>1, FoldSteps
  <2> QED BY <2>2 DEF Ends
<1>12. f \in [0 .. m -> D] /\ f[0] = 0
  BY <1>10 DEF Recurs
<1>13. ASSUME NEW k \in 0 .. m - 1 PROVE f[k + 1] = DotStep(row, v, f[k], k + 1)
  <2>1. f[k + 1] = H[<<f[k], k + 1>>]
    BY <1>10 DEF Recurs
  <2>2. k \in 0 .. m /\ k + 1 \in 1 .. m
    BY <1>1
  <2>3. f[k] \in D
    BY <1>12, <2>2
  <2> QED BY <1>4, <2>1, <2>2, <2>3
<1> QED BY <1>3, <1>11, <1>12, <1>13 DEF it, D, m

RowStep(b, new, k) == Append(new, Rust!Dot(MdsTable[k - 1], b))

RowFold(b) == FoldLeft(LAMBDA new, c : RowStep(b, new, c), <<>>, Numbers(RATE + 1))

LEMMA RowFolds ==
  ASSUME NEW b,
         \A x \in Seq(Field) : \A k \in 1 .. (RATE + 1) : RowStep(b, x, k) \in Seq(Field)
  PROVE  \E f : /\ f \in [0 .. (RATE + 1) -> Seq(Field)] /\ f[0] = <<>>
                /\ \A k \in 0 .. (RATE + 1) - 1 : f[k + 1] = RowStep(b, f[k], k + 1)
                /\ RowFold(b) = f[(RATE + 1)]
<1> DEFINE D == Seq(Field)
           m == (RATE + 1)
           H == [p \in D \X (1 .. m) |-> RowStep(b, p[1], p[2])]
           Q(it) == it = [S \in SUBSET (1 .. m) |->
                            IF S = {} THEN <<>>
                            ELSE RowStep(b, it[S \ {Max(S)}], Numbers(m)[Max(S)])]
<1>1. m \in Nat /\ <<>> \in D /\ DOMAIN Numbers(m) = 1 .. m
  BY Sizes DEF Numbers
<1>2. \A x \in D : \A k \in 1 .. m : RowStep(b, x, k) \in D /\ Numbers(m)[k] = k
  BY DEF Numbers
<1>3. RowFold(b) = (CHOOSE it : Q(it))[1 .. m]
  BY <1>1 DEF RowFold, FoldLeft, MapThenFoldSet
<1> HIDE DEF D, m
<1>4. \A x \in D : \A k \in 1 .. m : H[<<x, k>>] = RowStep(b, x, k)
  OBVIOUS
<1>5. H \in [D \X (1 .. m) -> D]
  BY <1>2
<1> HIDE DEF H
<1>6. \E it : Q(it)
  <2>1. PICK it : FoldsBy(H, D, <<>>, m, it)
    BY <1>1, <1>5, FoldExists
  <2>2. it \in [SUBSET (1 .. m) -> D] /\ it[{}] = <<>>
    BY <2>1 DEF FoldsBy
  <2>3. ASSUME NEW S \in SUBSET (1 .. m), S # {}
        PROVE  it[S] = RowStep(b, it[S \ {Max(S)}], Numbers(m)[Max(S)])
    <3>1. it[S] = H[<<it[S \ {Max(S)}], Max(S)>>]
      BY <2>1, <2>3 DEF FoldsBy
    <3>2. Max(S) \in 1 .. m
      BY <1>1, <2>3, MaxIn
    <3>3. it[S \ {Max(S)}] \in D
      BY <2>2
    <3> QED BY <1>2, <1>4, <3>1, <3>2, <3>3
  <2>4. Q(it)
    BY <2>2, <2>3
  <2> HIDE DEF Q
  <2> QED BY <2>4
<1> DEFINE it == CHOOSE g : Q(g)
<1>7. Q(it)
  <2> HIDE DEF Q
  <2> QED BY <1>6
<1> HIDE DEF it
<1>8. it[{}] = <<>>
  BY <1>7
<1>9. ASSUME NEW k \in 0 .. m - 1, it[1 .. k] \in D
      PROVE  it[1 .. k + 1] = H[<<it[1 .. k], k + 1>>]
  <2> DEFINE X == 1 .. k + 1
  <2>1. X \in SUBSET (1 .. m) /\ X # {} /\ Max(X) = k + 1 /\ X \ {k + 1} = 1 .. k /\ k + 1 \in 1 .. m
    BY <1>1, PrefixStep
  <2> HIDE DEF X
  <2>2. it[X] = RowStep(b, it[X \ {Max(X)}], Numbers(m)[Max(X)])
    BY <1>7, <2>1
  <2>3. it[X \ {Max(X)}] = it[1 .. k] /\ Numbers(m)[Max(X)] = k + 1
    BY <1>2, <1>9, <2>1
  <2>4. it[X] = RowStep(b, it[1 .. k], k + 1)
    BY <2>2, <2>3
  <2>5. it[X] = H[<<it[1 .. k], k + 1>>]
    BY <1>4, <1>9, <2>1, <2>4
  <2> QED BY <2>5 DEF X
<1>10. PICK f : Recurs(f, D, <<>>, m, H)
  BY <1>1, <1>5, StepsExist
<1>11. it[1 .. m] = f[m]
  <2>1. Follows(it, D, <<>>, m, H)
    BY <1>8, <1>9 DEF Follows
  <2>2. Ends(it, f, m)
    BY <1>1, <1>5, <1>10, <2>1, FoldSteps
  <2> QED BY <2>2 DEF Ends
<1>12. f \in [0 .. m -> D] /\ f[0] = <<>>
  BY <1>10 DEF Recurs
<1>13. ASSUME NEW k \in 0 .. m - 1 PROVE f[k + 1] = RowStep(b, f[k], k + 1)
  <2>1. f[k + 1] = H[<<f[k], k + 1>>]
    BY <1>10 DEF Recurs
  <2>2. k \in 0 .. m /\ k + 1 \in 1 .. m
    BY <1>1
  <2>3. f[k] \in D
    BY <1>12, <2>2
  <2> QED BY <1>4, <2>1, <2>2, <2>3
<1> QED BY <1>3, <1>11, <1>12, <1>13 DEF it, D, m

RoundStep(from, full, t, k) == Rust!Round(t, from + k - 1, full)

RoundsFold(s, from, n, full) ==
  FoldLeft(LAMBDA t, k : RoundStep(from, full, t, k), s, Numbers(n))

RoundsRun(f, s, from, n, full) ==
  /\ f \in [0 .. n -> Vectors] /\ f[0] = s
  /\ \A k \in 0 .. n - 1 : f[k + 1] = RoundStep(from, full, f[k], k + 1)
  /\ RoundsFold(s, from, n, full) = f[n]

LEMMA RoundsFolds ==
  ASSUME NEW n \in Nat, NEW from, NEW full, NEW s \in Vectors,
         \A x \in Vectors : \A k \in 1 .. n : RoundStep(from, full, x, k) \in Vectors
  PROVE  \E f : RoundsRun(f, s, from, n, full)
<1> DEFINE D == Vectors
           m == n
           H == [p \in D \X (1 .. m) |-> RoundStep(from, full, p[1], p[2])]
           Q(it) == it = [S \in SUBSET (1 .. m) |->
                            IF S = {} THEN s
                            ELSE RoundStep(from, full, it[S \ {Max(S)}], Numbers(m)[Max(S)])]
<1>1. m \in Nat /\ s \in D /\ DOMAIN Numbers(m) = 1 .. m
  BY Sizes DEF Numbers
<1>2. \A x \in D : \A k \in 1 .. m : RoundStep(from, full, x, k) \in D /\ Numbers(m)[k] = k
  BY DEF Numbers
<1>3. RoundsFold(s, from, n, full) = (CHOOSE it : Q(it))[1 .. m]
  BY <1>1 DEF RoundsFold, FoldLeft, MapThenFoldSet
<1> HIDE DEF D, m
<1>4. \A x \in D : \A k \in 1 .. m : H[<<x, k>>] = RoundStep(from, full, x, k)
  OBVIOUS
<1>5. H \in [D \X (1 .. m) -> D]
  BY <1>2
<1> HIDE DEF H
<1>6. \E it : Q(it)
  <2>1. PICK it : FoldsBy(H, D, s, m, it)
    BY <1>1, <1>5, FoldExists
  <2>2. it \in [SUBSET (1 .. m) -> D] /\ it[{}] = s
    BY <2>1 DEF FoldsBy
  <2>3. ASSUME NEW S \in SUBSET (1 .. m), S # {}
        PROVE  it[S] = RoundStep(from, full, it[S \ {Max(S)}], Numbers(m)[Max(S)])
    <3>1. it[S] = H[<<it[S \ {Max(S)}], Max(S)>>]
      BY <2>1, <2>3 DEF FoldsBy
    <3>2. Max(S) \in 1 .. m
      BY <1>1, <2>3, MaxIn
    <3>3. it[S \ {Max(S)}] \in D
      BY <2>2
    <3> QED BY <1>2, <1>4, <3>1, <3>2, <3>3
  <2>4. Q(it)
    BY <2>2, <2>3
  <2> HIDE DEF Q
  <2> QED BY <2>4
<1> DEFINE it == CHOOSE g : Q(g)
<1>7. Q(it)
  <2> HIDE DEF Q
  <2> QED BY <1>6
<1> HIDE DEF it
<1>8. it[{}] = s
  BY <1>7
<1>9. ASSUME NEW k \in 0 .. m - 1, it[1 .. k] \in D
      PROVE  it[1 .. k + 1] = H[<<it[1 .. k], k + 1>>]
  <2> DEFINE X == 1 .. k + 1
  <2>1. X \in SUBSET (1 .. m) /\ X # {} /\ Max(X) = k + 1 /\ X \ {k + 1} = 1 .. k /\ k + 1 \in 1 .. m
    BY <1>1, PrefixStep
  <2> HIDE DEF X
  <2>2. it[X] = RoundStep(from, full, it[X \ {Max(X)}], Numbers(m)[Max(X)])
    BY <1>7, <2>1
  <2>3. it[X \ {Max(X)}] = it[1 .. k] /\ Numbers(m)[Max(X)] = k + 1
    BY <1>2, <1>9, <2>1
  <2>4. it[X] = RoundStep(from, full, it[1 .. k], k + 1)
    BY <2>2, <2>3
  <2>5. it[X] = H[<<it[1 .. k], k + 1>>]
    BY <1>4, <1>9, <2>1, <2>4
  <2> QED BY <2>5 DEF X
<1>10. PICK f : Recurs(f, D, s, m, H)
  BY <1>1, <1>5, StepsExist
<1>11. it[1 .. m] = f[m]
  <2>1. Follows(it, D, s, m, H)
    BY <1>8, <1>9 DEF Follows
  <2>2. Ends(it, f, m)
    BY <1>1, <1>5, <1>10, <2>1, FoldSteps
  <2> QED BY <2>2 DEF Ends
<1>12. f \in [0 .. m -> D] /\ f[0] = s
  BY <1>10 DEF Recurs
<1>13. ASSUME NEW k \in 0 .. m - 1 PROVE f[k + 1] = RoundStep(from, full, f[k], k + 1)
  <2>1. f[k + 1] = H[<<f[k], k + 1>>]
    BY <1>10 DEF Recurs
  <2>2. k \in 0 .. m /\ k + 1 \in 1 .. m
    BY <1>1
  <2>3. f[k] \in D
    BY <1>12, <2>2
  <2> QED BY <1>4, <2>1, <2>2, <2>3
<1>14. RoundsRun(f, s, from, n, full)
  BY <1>3, <1>11, <1>12, <1>13 DEF it, D, m, RoundsRun
<1> QED BY <1>14

Block(v, k) == SubSeq(v, (k - 1) * RATE + 1, IF k * RATE < Len(v) THEN k * RATE ELSE Len(v))

BlockStep(v, t, k) == Rust!AddBlock(Rust!Permute(t), Block(v, k + 1))

BlocksFold(v, s, n) == FoldLeft(LAMBDA t, k : BlockStep(v, t, k), s, Numbers(n))

LEMMA BlocksFolds ==
  ASSUME NEW n \in Nat, NEW v, NEW s \in Vectors,
         \A x \in Vectors : \A k \in 1 .. n : BlockStep(v, x, k) \in Vectors
  PROVE  \E f : /\ f \in [0 .. n -> Vectors] /\ f[0] = s
                /\ \A k \in 0 .. n - 1 : f[k + 1] = BlockStep(v, f[k], k + 1)
                /\ BlocksFold(v, s, n) = f[n]
<1> DEFINE D == Vectors
           m == n
           H == [p \in D \X (1 .. m) |-> BlockStep(v, p[1], p[2])]
           Q(it) == it = [S \in SUBSET (1 .. m) |->
                            IF S = {} THEN s
                            ELSE BlockStep(v, it[S \ {Max(S)}], Numbers(m)[Max(S)])]
<1>1. m \in Nat /\ s \in D /\ DOMAIN Numbers(m) = 1 .. m
  BY Sizes DEF Numbers
<1>2. \A x \in D : \A k \in 1 .. m : BlockStep(v, x, k) \in D /\ Numbers(m)[k] = k
  BY DEF Numbers
<1>3. BlocksFold(v, s, n) = (CHOOSE it : Q(it))[1 .. m]
  BY <1>1 DEF BlocksFold, FoldLeft, MapThenFoldSet
<1> HIDE DEF D, m
<1>4. \A x \in D : \A k \in 1 .. m : H[<<x, k>>] = BlockStep(v, x, k)
  OBVIOUS
<1>5. H \in [D \X (1 .. m) -> D]
  BY <1>2
<1> HIDE DEF H
<1>6. \E it : Q(it)
  <2>1. PICK it : FoldsBy(H, D, s, m, it)
    BY <1>1, <1>5, FoldExists
  <2>2. it \in [SUBSET (1 .. m) -> D] /\ it[{}] = s
    BY <2>1 DEF FoldsBy
  <2>3. ASSUME NEW S \in SUBSET (1 .. m), S # {}
        PROVE  it[S] = BlockStep(v, it[S \ {Max(S)}], Numbers(m)[Max(S)])
    <3>1. it[S] = H[<<it[S \ {Max(S)}], Max(S)>>]
      BY <2>1, <2>3 DEF FoldsBy
    <3>2. Max(S) \in 1 .. m
      BY <1>1, <2>3, MaxIn
    <3>3. it[S \ {Max(S)}] \in D
      BY <2>2
    <3> QED BY <1>2, <1>4, <3>1, <3>2, <3>3
  <2>4. Q(it)
    BY <2>2, <2>3
  <2> HIDE DEF Q
  <2> QED BY <2>4
<1> DEFINE it == CHOOSE g : Q(g)
<1>7. Q(it)
  <2> HIDE DEF Q
  <2> QED BY <1>6
<1> HIDE DEF it
<1>8. it[{}] = s
  BY <1>7
<1>9. ASSUME NEW k \in 0 .. m - 1, it[1 .. k] \in D
      PROVE  it[1 .. k + 1] = H[<<it[1 .. k], k + 1>>]
  <2> DEFINE X == 1 .. k + 1
  <2>1. X \in SUBSET (1 .. m) /\ X # {} /\ Max(X) = k + 1 /\ X \ {k + 1} = 1 .. k /\ k + 1 \in 1 .. m
    BY <1>1, PrefixStep
  <2> HIDE DEF X
  <2>2. it[X] = BlockStep(v, it[X \ {Max(X)}], Numbers(m)[Max(X)])
    BY <1>7, <2>1
  <2>3. it[X \ {Max(X)}] = it[1 .. k] /\ Numbers(m)[Max(X)] = k + 1
    BY <1>2, <1>9, <2>1
  <2>4. it[X] = BlockStep(v, it[1 .. k], k + 1)
    BY <2>2, <2>3
  <2>5. it[X] = H[<<it[1 .. k], k + 1>>]
    BY <1>4, <1>9, <2>1, <2>4
  <2> QED BY <2>5 DEF X
<1>10. PICK f : Recurs(f, D, s, m, H)
  BY <1>1, <1>5, StepsExist
<1>11. it[1 .. m] = f[m]
  <2>1. Follows(it, D, s, m, H)
    BY <1>8, <1>9 DEF Follows
  <2>2. Ends(it, f, m)
    BY <1>1, <1>5, <1>10, <2>1, FoldSteps
  <2> QED BY <2>2 DEF Ends
<1>12. f \in [0 .. m -> D] /\ f[0] = s
  BY <1>10 DEF Recurs
<1>13. ASSUME NEW k \in 0 .. m - 1 PROVE f[k + 1] = BlockStep(v, f[k], k + 1)
  <2>1. f[k + 1] = H[<<f[k], k + 1>>]
    BY <1>10 DEF Recurs
  <2>2. k \in 0 .. m /\ k + 1 \in 1 .. m
    BY <1>1
  <2>3. f[k] \in D
    BY <1>12, <2>2
  <2> QED BY <1>4, <2>1, <2>2, <2>3
<1> QED BY <1>3, <1>11, <1>12, <1>13 DEF it, D, m

-----------------------------------------------------------------------------
(* Bytes *)

Bytes == Seq(0 .. BYTE - 1)

LEMMA BytesAreNumbers == \A s \in Bytes : s \in Seq(Nat)
<1> SUFFICES ASSUME NEW s \in Bytes PROVE s \in Seq(Nat)
  OBVIOUS
<1>1. 0 .. BYTE - 1 \subseteq Nat
  BY Sizes
<1>2. Len(s) \in Nat /\ s \in [1 .. Len(s) -> 0 .. BYTE - 1]
  BY LenProperties DEF Bytes
<1>3. s \in [1 .. Len(s) -> Nat]
  BY <1>1, <1>2
<1> QED BY <1>2, <1>3, SeqDef

(* Two recursions with the same steps. *)
LEMMA ValueUnique ==
  ASSUME NEW s \in Seq(Nat), NEW f, NEW g, f[0] = 0, g[0] = 0,
         \A k \in 0 .. Len(s) - 1 : f[k + 1] = f[k] * BYTE + s[k + 1],
         \A k \in 0 .. Len(s) - 1 : g[k + 1] = g[k] * BYTE + s[k + 1]
  PROVE  f[Len(s)] = g[Len(s)]
<1> DEFINE n == Len(s)
           T == {k \in 0 .. n : f[k] = g[k]}
<1>1. n \in Nat
  OBVIOUS
<1> HIDE DEF n
<1>2. 0 \in T
  BY <1>1
<1>3. ASSUME NEW k \in 0 .. n - 1, k \in T PROVE k + 1 \in T
  <2>1. f[k + 1] = g[k + 1]
    BY <1>3 DEF n
  <2> QED BY <1>1, <2>1
<1> HIDE DEF T
<1>4. \A k \in 0 .. n : k \in T
  BY <1>1, <1>2, <1>3, UpTo
<1>5. n \in T
  BY <1>1, <1>4
<1> QED BY <1>5 DEF T, n

(* Both sides read a byte string as the same number. *)
LEMMA SameNumber ==
  ASSUME NEW s \in Seq(Nat)
  PROVE  /\ Value(s) \in Nat
         /\ fr_from_be(s) = Value(s) % P /\ Rust!FromBytes(s) = Value(s) % P
         /\ Value(s) % P \in Field
<1>1. PICK f : /\ f \in [0 .. Len(s) -> Nat] /\ f[0] = 0
               /\ \A k \in 0 .. Len(s) - 1 : f[k + 1] = f[k] * BYTE + s[k + 1]
               /\ Value(s) = f[Len(s)]
  BY ValueFold
<1> DEFINE Q(v) == v = [k \in 0 .. Len(s) |-> IF k = 0 THEN 0 ELSE v[k - 1] * BYTE + s[k]]
           n == Len(s)
<1>0. n \in Nat
  OBVIOUS
<1>2. Q(f)
  <2> HIDE DEF n
  <2>1. ASSUME NEW k \in 0 .. n, k # 0 PROVE f[k] = f[k - 1] * BYTE + s[k]
    <3>1. k - 1 \in 0 .. Len(s) - 1 /\ (k - 1) + 1 = k
      BY <1>0, <2>1 DEF n
    <3> QED BY <1>1, <3>1
  <2>2. f = [k \in 0 .. n |-> f[k]]
    BY <1>1 DEF n
  <2> QED BY <1>1, <2>1, <2>2 DEF n
<1> DEFINE v == CHOOSE g : Q(g)
<1>3. Q(v)
  <2> HIDE DEF Q
  <2> QED BY <1>2
<1>4. fr_from_be(s) = v[Len(s)] % P
  BY DEF fr_from_be
<1> HIDE DEF v
<1>5. v[0] = 0
  BY <1>0, <1>3
<1>6. ASSUME NEW k \in 0 .. Len(s) - 1 PROVE v[k + 1] = v[k] * BYTE + s[k + 1]
  <2>1. k + 1 \in 0 .. Len(s) /\ k + 1 # 0 /\ (k + 1) - 1 = k
    OBVIOUS
  <2> QED BY <1>3, <2>1
<1>7. v[Len(s)] = f[Len(s)]
  BY <1>1, <1>5, <1>6, ValueUnique
<1>8. Rust!FromBytes(s) = Value(s) % P
  BY DEF Value, FoldLeft, MapThenFoldSet, Max, Rust!FromBytes, Rust!FoldLeft,
         Rust!MapThenFoldSet, Rust!Max
<1>9. Value(s) \in Nat
  BY <1>0, <1>1
<1> QED BY <1>1, <1>4, <1>7, <1>8, <1>9, InField

LEMMA BytesInField ==
  ASSUME NEW s \in Bytes
  PROVE  fr_from_be(s) \in Field /\ fr_from_be(s) = Rust!FromBytes(s)
BY SameNumber, BytesAreNumbers

LEMMA TablesInField ==
  /\ ArkTable \in [0 .. TOTAL - 1 -> [Slot -> Field]]
  /\ MdsTable \in [Slot -> [Slot -> Field]]
<1>1. \A k \in 0 .. TOTAL - 1 : \A c \in Slot : POSEIDON_ARK[k][c] \in Bytes
  BY PoseidonAssumption DEF Bytes
<1>2. \A k \in Slot : \A c \in Slot : POSEIDON_MDS[k][c] \in Bytes
  BY PoseidonAssumption DEF Bytes
<1>3. \A k \in 0 .. TOTAL - 1 : \A c \in Slot : fr_from_be(POSEIDON_ARK[k][c]) \in Field
  BY <1>1, BytesInField
<1>4. \A k \in Slot : \A c \in Slot : fr_from_be(POSEIDON_MDS[k][c]) \in Field
  BY <1>2, BytesInField
<1> QED BY <1>3, <1>4 DEF ArkTable, MdsTable

(* The zeros before the chunk in the buffer add nothing. *)
LEMMA BufferValue ==
  ASSUME NEW m \in Bytes, NEW from \in Nat, NEW n \in 1 .. CHUNK, from + n <= Len(m)
  PROVE  /\ fr_from_be(Buffer(m, from, n)) = Rust!FromBytes(SubSeq(m, from + 1, from + n))
         /\ fr_from_be(Buffer(m, from, n)) \in Field
<1> DEFINE b == Buffer(m, from, n)
           s == SubSeq(m, from + 1, from + n)
           z == CHUNK + 1 - n
<1>0. Len(m) \in Nat /\ n \in Nat /\ z \in Nat /\ z + n = CHUNK + 1 /\ CHUNK + 1 \in Nat
  BY Sizes DEF Bytes
<1>1. \A k \in 1 .. Len(m) : m[k] \in Nat
  BY BytesAreNumbers
<1>2. \A k \in 1 .. z : b[k] = 0
  BY Sizes DEF Buffer
<1>3. \A k \in 1 .. n : b[z + k] = m[from + k]
  <2> SUFFICES ASSUME NEW k \in 1 .. n PROVE b[z + k] = m[from + k]
    OBVIOUS
  <2>1. z + k \in 1 .. CHUNK + 1 /\ z + k > z /\ from + (z + k) - z = from + k
    BY <1>0
  <2> QED BY <2>1 DEF Buffer
<1>4. b \in Seq(Nat) /\ Len(b) = CHUNK + 1
  <2>1. \A k \in 1 .. CHUNK + 1 : (IF k > z THEN m[from + k - z] ELSE 0) \in Nat
    <3> SUFFICES ASSUME NEW k \in 1 .. CHUNK + 1, k > z PROVE m[from + k - z] \in Nat
      OBVIOUS
    <3>1. from + k - z \in 1 .. Len(m)
      BY <1>0
    <3> QED BY <1>1, <3>1
  <2>2. b \in [1 .. CHUNK + 1 -> Nat]
    BY <2>1 DEF Buffer
  <2> QED BY <1>0, <2>2, SeqDef
<1>5. s \in Seq(Nat) /\ Len(s) = n /\ \A k \in 1 .. n : s[k] = m[from + k]
  <2>0. from + 1 \in 1 .. from + n + 1 /\ from + n \in from .. Len(m)
    BY <1>0
  <2>1. m \in Seq(Nat) /\ from + 1 \in Nat /\ from + n \in Nat
    BY <1>0, BytesAreNumbers
  <2>2. \A k \in from + 1 .. from + n : m[k] \in Nat
    BY <1>0, <1>1
  <2>3. Len(s) = n /\ \A k \in 1 .. n : s[k] = m[from + k]
    BY <1>0, <2>1
  <2>4. s \in Seq(Nat)
    BY <1>0, <2>1
  <2> QED BY <2>3, <2>4
<1> HIDE DEF b, s
<1>6. PICK f : /\ f \in [0 .. Len(b) -> Nat] /\ f[0] = 0
               /\ \A k \in 0 .. Len(b) - 1 : f[k + 1] = f[k] * BYTE + b[k + 1]
               /\ Value(b) = f[Len(b)]
  BY <1>4, ValueFold
<1>7. PICK g : /\ g \in [0 .. Len(s) -> Nat] /\ g[0] = 0
               /\ \A k \in 0 .. Len(s) - 1 : g[k + 1] = g[k] * BYTE + s[k + 1]
               /\ Value(s) = g[Len(s)]
  BY <1>5, ValueFold
<1> HIDE DEF z
<1>8. f[z] = 0
  <2> DEFINE T == {k \in 0 .. z : f[k] = 0}
  <2>1. 0 \in T
    BY <1>0, <1>6
  <2>2. ASSUME NEW k \in 0 .. z - 1, k \in T PROVE k + 1 \in T
    <3>1. k + 1 \in 1 .. z /\ k \in 0 .. Len(b) - 1
      BY <1>0, <1>4
    <3>2. f[k + 1] = f[k] * BYTE + b[k + 1] /\ b[k + 1] = 0 /\ f[k] = 0
      BY <1>2, <1>6, <2>2, <3>1
    <3>3. f[k + 1] = 0
      BY <3>2, Sizes
    <3> QED BY <3>1, <3>3
  <2> HIDE DEF T
  <2>3. \A k \in 0 .. z : k \in T
    BY <1>0, <2>1, <2>2, UpTo
  <2>4. z \in T
    BY <1>0, <2>3
  <2> QED BY <2>4 DEF T
<1>9. f[z + n] = g[n]
  <2> DEFINE T == {k \in 0 .. n : f[z + k] = g[k]}
  <2>1. 0 \in T
    BY <1>0, <1>7, <1>8
  <2>2. ASSUME NEW k \in 0 .. n - 1, k \in T PROVE k + 1 \in T
    <3>1. z + k \in 0 .. Len(b) - 1 /\ k \in 0 .. Len(s) - 1 /\ k + 1 \in 1 .. n
          /\ (z + k) + 1 = z + (k + 1)
      BY <1>0, <1>4, <1>5
    <3>2. f[z + (k + 1)] = f[z + k] * BYTE + b[z + (k + 1)]
      BY <1>6, <3>1
    <3>3. g[k + 1] = g[k] * BYTE + s[k + 1]
      BY <1>7, <3>1
    <3>4. b[z + (k + 1)] = s[k + 1]
      BY <1>3, <1>5, <3>1
    <3>5. f[z + (k + 1)] = g[k + 1]
      BY <2>2, <3>2, <3>3, <3>4
    <3> QED BY <3>1, <3>5
  <2> HIDE DEF T
  <2>3. \A k \in 0 .. n : k \in T
    BY <1>0, <2>1, <2>2, UpTo
  <2>4. n \in T
    BY <1>0, <2>3
  <2> QED BY <2>4 DEF T
<1>10. Value(b) = Value(s)
  BY <1>0, <1>4, <1>5, <1>6, <1>7, <1>9
<1>11. fr_from_be(b) = Rust!FromBytes(s) /\ fr_from_be(b) \in Field
  BY <1>4, <1>5, <1>10, SameNumber
<1> QED BY <1>11 DEF b, s

-----------------------------------------------------------------------------
(* Rounds *)

LEMMA SlotNumbers ==
  /\ RATE + 1 = WIDTH /\ RATE + 1 \in Nat /\ Rust!Slots = 1 .. WIDTH
  /\ \A c \in 1 .. WIDTH : c - 1 \in Slot /\ c \in Int
  /\ \A c \in Slot : c + 1 \in 1 .. WIDTH /\ (c + 1) - 1 = c
BY Sizes DEF Slot, Rust!Slots

LEMMA DotIsFold ==
  ASSUME NEW row, NEW v
  PROVE  Rust!Dot(row, v) = DotFold(row, v) % P
BY DEF DotFold, DotStep, Numbers, FoldLeft, MapThenFoldSet, Max, Rust!Dot, Rust!Count, Rust!FoldLeft,
       Rust!MapThenFoldSet, Rust!Max

LEMMA DotRecursion ==
  ASSUME NEW row \in [Slot -> Field], NEW v \in Vectors
  PROVE  \E f : /\ f \in [0 .. WIDTH -> Int] /\ f[0] = 0
                /\ \A k \in 0 .. WIDTH - 1 : f[k + 1] = f[k] + row[k] * v[k + 1]
                /\ Rust!Dot(row, v) = f[WIDTH] % P
<1>1. ASSUME NEW x \in Int, NEW k \in 1 .. RATE + 1 PROVE DotStep(row, v, x, k) \in Int
  <2>1. row[k - 1] \in Int /\ v[k] \in Int
    BY SlotNumbers, Sizes DEF Vectors, Field
  <2> QED BY <2>1 DEF DotStep
<1>2. PICK f : /\ f \in [0 .. RATE + 1 -> Int] /\ f[0] = 0
               /\ \A k \in 0 .. (RATE + 1) - 1 : f[k + 1] = DotStep(row, v, f[k], k + 1)
               /\ DotFold(row, v) = f[RATE + 1]
  BY <1>1, DotFolds
<1>3. \A k \in 0 .. WIDTH - 1 : f[k + 1] = f[k] + row[k] * v[k + 1]
  BY <1>2, Sizes DEF DotStep
<1>4. Rust!Dot(row, v) = f[WIDTH] % P
  BY <1>2, DotIsFold, SlotNumbers
<1> QED BY <1>2, <1>3, <1>4, SlotNumbers

LEMMA DotInField ==
  ASSUME NEW row \in [Slot -> Field], NEW v \in Vectors
  PROVE  Rust!Dot(row, v) \in Field
<1>1. PICK f : /\ f \in [0 .. WIDTH -> Int] /\ f[0] = 0
               /\ \A k \in 0 .. WIDTH - 1 : f[k + 1] = f[k] + row[k] * v[k + 1]
               /\ Rust!Dot(row, v) = f[WIDTH] % P
  BY DotRecursion
<1>2. f[WIDTH] \in Int
  BY <1>1, Sizes
<1> QED BY <1>1, <1>2, InField

Accumulates(row, st, acc) ==
  acc = [j \in 0 .. WIDTH |->
           IF j = 0 THEN 0 ELSE fr_add(acc[j - 1], fr_mul(row[j - 1], st[j - 1]))]

(* The C accumulates with field operations, the prover reduces at the end. *)
LEMMA ProductIs ==
  ASSUME NEW row \in [Slot -> Field], NEW st \in [Slot -> Field], NEW acc, Accumulates(row, st, acc)
  PROVE  acc[WIDTH] = Rust!Dot(row, Shifted(st))
<1> DEFINE v == Shifted(st)
<1>1. row \in [Slot -> Field] /\ v \in Vectors /\ \A c \in Slot : v[c + 1] = st[c] /\ st[c] \in Field
  BY SlotNumbers DEF Vectors, Shifted
<1> HIDE DEF v
<1>2. PICK f : /\ f \in [0 .. WIDTH -> Int] /\ f[0] = 0
               /\ \A k \in 0 .. WIDTH - 1 : f[k + 1] = f[k] + row[k] * v[k + 1]
               /\ Rust!Dot(row, v) = f[WIDTH] % P
  BY <1>1, DotRecursion
<1> DEFINE T == {k \in 0 .. WIDTH : acc[k] = f[k] % P}
<1>3. 0 \in T
  BY <1>2, Sizes DEF Accumulates
<1>4. ASSUME NEW k \in 0 .. WIDTH - 1, k \in T PROVE k + 1 \in T
  <2>1. k \in Slot /\ k + 1 \in 0 .. WIDTH /\ k + 1 # 0 /\ (k + 1) - 1 = k /\ k \in 0 .. WIDTH
    BY Sizes DEF Slot
  <2>2. acc[k + 1] = fr_add(acc[k], fr_mul(row[k], st[k]))
    BY <2>1 DEF Accumulates
  <2>3. row[k] \in Int /\ st[k] \in Int /\ f[k] \in Int /\ v[k + 1] = st[k]
    BY <1>1, <1>2, <2>1, Sizes DEF Field
  <2> DEFINE x == row[k] * st[k]
             y == f[k]
  <2>4. x \in Int /\ y \in Int
    BY <2>3
  <2>5. acc[k + 1] = ((y % P) + (x % P)) % P
    BY <1>4, <2>2 DEF fr_add, fr_mul
  <2>6. f[k + 1] = y + x
    BY <1>2, <2>3
  <2> HIDE DEF x, y
  <2>7. ((y % P) + (x % P)) % P = (y + x) % P
    BY <2>4, ReducedAtEach
  <2> QED BY <2>1, <2>5, <2>6, <2>7
<1> HIDE DEF T
<1>5. \A k \in 0 .. WIDTH : k \in T
  BY <1>3, <1>4, Sizes, UpTo
<1>6. WIDTH \in T
  BY <1>5, Sizes
<1> QED BY <1>2, <1>6 DEF T, v

(* The product itself is such an accumulation. *)
LEMMA ProductExists ==
  ASSUME NEW row, NEW st
  PROVE  \E acc : Accumulates(row, st, acc)
<1> DEFINE Q(m, acc) == acc = [j \in 0 .. m |->
                           IF j = 0 THEN 0 ELSE fr_add(acc[j - 1], fr_mul(row[j - 1], st[j - 1]))]
           T == {m \in 0 .. WIDTH : \E acc : Q(m, acc)}
<1>1. 0 \in T
  <2> DEFINE g == [j \in 0 .. 0 |-> 0]
  <2>1. Q(0, g)
    OBVIOUS
  <2> HIDE DEF Q
  <2> QED BY <2>1, Sizes
<1>2. ASSUME NEW m \in 0 .. WIDTH - 1, m \in T PROVE m + 1 \in T
  <2>1. PICK acc : Q(m, acc)
    BY <1>2
  <2> DEFINE x == fr_add(acc[m], fr_mul(row[m], st[m]))
             g == [j \in 0 .. m + 1 |-> IF j = m + 1 THEN x ELSE acc[j]]
  <2> HIDE DEF x
  <2>2. \A j \in 0 .. m : g[j] = acc[j]
    OBVIOUS
  <2>3. g[m + 1] = x
    OBVIOUS
  <2>5. ASSUME NEW j \in 0 .. m + 1
        PROVE  g[j] = IF j = 0 THEN 0 ELSE fr_add(g[j - 1], fr_mul(row[j - 1], st[j - 1]))
    <3>1. CASE j = m + 1
      <4>1. j # 0 /\ j - 1 = m /\ m \in 0 .. m
        BY <3>1
      <4> QED BY <2>2, <2>3, <3>1, <4>1 DEF x
    <3>2. CASE j # m + 1
      <4>1. j \in 0 .. m
        BY <3>2
      <4>2. g[j] = IF j = 0 THEN 0 ELSE fr_add(acc[j - 1], fr_mul(row[j - 1], st[j - 1]))
        BY <2>1, <2>2, <4>1
      <4>3. j # 0 => g[j - 1] = acc[j - 1]
        BY <2>2, <4>1
      <4> HIDE DEF g
      <4> QED BY <4>2, <4>3
    <3> QED BY <3>1, <3>2
  <2>6. Q(m + 1, g)
    BY <2>5
  <2>7. m + 1 \in 0 .. WIDTH
    BY Sizes
  <2> HIDE DEF Q
  <2> QED BY <2>6, <2>7
<1> HIDE DEF T
<1>3. \A k \in 0 .. WIDTH : k \in T
  BY <1>1, <1>2, Sizes, UpTo
<1>4. WIDTH \in T
  BY <1>3, Sizes
<1> QED BY <1>4 DEF T, Accumulates

LEMMA MdsProductIs ==
  ASSUME NEW n \in Slot, MDS[n] \in [Slot -> Field], state \in [Slot -> Field]
  PROVE  MdsProduct(n) = Rust!Dot(MDS[n], Shifted(state))
<1> DEFINE a == CHOOSE acc : Accumulates(MDS[n], state, acc)
<1>1. MdsProduct(n) = a[WIDTH]
  BY DEF MdsProduct, Accumulates
<1>2. Accumulates(MDS[n], state, a)
  BY ProductExists
<1> HIDE DEF a
<1>3. a[WIDTH] = Rust!Dot(MDS[n], Shifted(state))
  BY <1>2, ProductIs
<1> QED BY <1>1, <1>3

LEMMA Pow5InField == \A x \in Int : Rust!Pow5(x) \in Field
<1> SUFFICES ASSUME NEW x \in Int PROVE Rust!Pow5(x) \in Field
  OBVIOUS
<1> DEFINE y == x * x * x * x * x
<1>1. y \in Int
  OBVIOUS
<1>2. Rust!Pow5(x) = y % P
  BY DEF Rust!Pow5
<1> HIDE DEF y
<1> QED BY <1>1, <1>2, InField

BoxedBy(s, n, full) == [c \in 1 .. WIDTH |-> IF full \/ c = 1 THEN Rust!Pow5(Keyed(s, n)[c])
                                                            ELSE Keyed(s, n)[c]]

LEMMA KeyedIn ==
  ASSUME NEW s \in Vectors, NEW n \in 0 .. TOTAL - 1
  PROVE  Keyed(s, n) \in Vectors
<1>1. ASSUME NEW c \in 1 .. WIDTH PROVE (s[c] + ArkTable[n][c - 1]) % P \in Field
  <2>1. ArkTable[n][c - 1] \in Int /\ s[c] \in Int
    BY TablesInField, SlotNumbers, Sizes DEF Vectors, Field
  <2> DEFINE x == s[c] + ArkTable[n][c - 1]
  <2>2. x \in Int
    BY <2>1
  <2> HIDE DEF x
  <2> QED BY <2>2, InField DEF x
<1> QED BY <1>1 DEF Keyed, Vectors

LEMMA BoxedIn ==
  ASSUME NEW s \in Vectors, NEW n \in 0 .. TOTAL - 1, NEW full
  PROVE  BoxedBy(s, n, full) \in Vectors
<1>1. ASSUME NEW c \in 1 .. WIDTH PROVE Keyed(s, n)[c] \in Field /\ Keyed(s, n)[c] \in Int
  BY KeyedIn, Sizes DEF Vectors, Field
<1>2. ASSUME NEW c \in 1 .. WIDTH PROVE Rust!Pow5(Keyed(s, n)[c]) \in Field
  BY <1>1, Pow5InField
<1> QED BY <1>1, <1>2 DEF BoxedBy, Vectors

LEMMA RoundIsFold ==
  ASSUME NEW s, NEW n, NEW full
  PROVE  Rust!Round(s, n, full) = RowFold(BoxedBy(s, n, full))
<1> DEFINE b == [c \in Rust!Slots |->
                   IF full \/ c = 1 THEN Rust!Pow5([d \in Rust!Slots |-> (s[d] + ArkTable[n][d - 1]) % P][c])
                   ELSE [d \in Rust!Slots |-> (s[d] + ArkTable[n][d - 1]) % P][c]]
<1>1. Rust!Round(s, n, full) = RowFold(b)
  BY DEF RowFold, RowStep, Numbers, FoldLeft, MapThenFoldSet, Max, Rust!Round, Rust!Count, Rust!FoldLeft,
         Rust!MapThenFoldSet, Rust!Max
<1>2. b = BoxedBy(s, n, full)
  BY SlotNumbers DEF BoxedBy, Keyed
<1> HIDE DEF b
<1> QED BY <1>1, <1>2

(* The rows of the matrix times b, one after the other. *)
LEMMA RowsAre ==
  ASSUME NEW b \in Vectors
  PROVE  RowFold(b) = [c \in 1 .. WIDTH |-> Rust!Dot(MdsTable[c - 1], b)]
<1> DEFINE d(c) == Rust!Dot(MdsTable[c - 1], b)
<1>1. \A c \in 1 .. WIDTH : d(c) \in Field
  <2> SUFFICES ASSUME NEW c \in 1 .. WIDTH PROVE Rust!Dot(MdsTable[c - 1], b) \in Field
    OBVIOUS
  <2>1. MdsTable[c - 1] \in [Slot -> Field]
    BY SlotNumbers, TablesInField
  <2> QED BY <2>1, DotInField
<1>2. ASSUME NEW x \in Seq(Field), NEW k \in 1 .. RATE + 1 PROVE RowStep(b, x, k) \in Seq(Field)
  <2>1. RowStep(b, x, k) = Append(x, d(k)) /\ d(k) \in Field
    BY <1>1, SlotNumbers DEF RowStep
  <2> HIDE DEF d
  <2> QED BY <2>1
<1>3. PICK f : /\ f \in [0 .. RATE + 1 -> Seq(Field)] /\ f[0] = <<>>
               /\ \A k \in 0 .. (RATE + 1) - 1 : f[k + 1] = RowStep(b, f[k], k + 1)
               /\ RowFold(b) = f[RATE + 1]
  BY <1>2, RowFolds
<1>4. RATE + 1 = WIDTH /\ WIDTH \in Nat
  BY SlotNumbers, Sizes
<1>5. \A k \in 0 .. WIDTH - 1 : f[k + 1] = Append(f[k], d(k + 1)) /\ f[k] \in Seq(Field)
  BY <1>3, <1>4 DEF RowStep
<1> DEFINE T == {k \in 0 .. WIDTH : f[k] = [c \in 1 .. k |-> d(c)]}
<1> HIDE DEF d
<1>6. 0 \in T
  BY <1>3, <1>4
<1>7. ASSUME NEW k \in 0 .. WIDTH - 1, k \in T PROVE k + 1 \in T
  <2>1. f[k + 1] = Append(f[k], d(k + 1)) /\ f[k] = [c \in 1 .. k |-> d(c)] /\ f[k] \in Seq(Field)
    BY <1>5, <1>7
  <2>2. k \in Nat /\ k + 1 \in 0 .. WIDTH
    BY <1>4
  <2>3. Len(f[k]) = k
    BY <2>1, <2>2
  <2>4. f[k + 1] = [c \in 1 .. k + 1 |-> IF c = k + 1 THEN d(k + 1) ELSE f[k][c]]
    BY <2>1, <2>2, <2>3
  <2>5. \A c \in 1 .. k + 1 : (IF c = k + 1 THEN d(k + 1) ELSE f[k][c]) = d(c)
    BY <2>1, <2>2
  <2>6. f[k + 1] = [c \in 1 .. k + 1 |-> d(c)]
    BY <2>4, <2>5
  <2> QED BY <2>2, <2>6
<1> HIDE DEF T
<1>8. \A k \in 0 .. WIDTH : k \in T
  BY <1>4, <1>6, <1>7, UpTo
<1>9. WIDTH \in T
  BY <1>4, <1>8
<1> QED BY <1>3, <1>4, <1>9 DEF T, d

LEMMA RoundIs ==
  ASSUME NEW s \in Vectors, NEW n \in 0 .. TOTAL - 1, NEW full
  PROVE  /\ Rust!Round(s, n, full) = [c \in 1 .. WIDTH |-> Rust!Dot(MdsTable[c - 1], BoxedBy(s, n, full))]
         /\ Rust!Round(s, n, full) \in Vectors
<1> DEFINE b == BoxedBy(s, n, full)
<1>1. b \in Vectors /\ Rust!Round(s, n, full) = RowFold(b)
  BY BoxedIn, RoundIsFold
<1> HIDE DEF b
<1>2. RowFold(b) = [c \in 1 .. WIDTH |-> Rust!Dot(MdsTable[c - 1], b)]
  BY <1>1, RowsAre
<1>3. \A c \in 1 .. WIDTH : Rust!Dot(MdsTable[c - 1], b) \in Field
  BY <1>1, SlotNumbers, TablesInField, DotInField
<1> QED BY <1>1, <1>2, <1>3 DEF b, Vectors

(* The rounds from s are those the C runs through, full or partial alike. *)
LEMMA AfterSteps ==
  ASSUME NEW s \in Vectors
  PROVE  /\ After(s, 0) = s
         /\ \A k \in 0 .. TOTAL : After(s, k) \in Vectors
         /\ \A k \in 0 .. TOTAL - 1 : After(s, k + 1) = Rust!Round(After(s, k), k, is_full(k))
<1> DEFINE H == [p \in Vectors \X (1 .. TOTAL) |-> Rust!Round(p[1], p[2] - 1, is_full(p[2] - 1))]
           Q(f) == f = [n \in 0 .. TOTAL |->
                          IF n = 0 THEN s ELSE Rust!Round(f[n - 1], n - 1, is_full(n - 1))]
<1>1. H \in [Vectors \X (1 .. TOTAL) -> Vectors]
  <2>1. ASSUME NEW p \in Vectors \X (1 .. TOTAL)
        PROVE  Rust!Round(p[1], p[2] - 1, is_full(p[2] - 1)) \in Vectors
    <3>1. p[1] \in Vectors /\ p[2] - 1 \in 0 .. TOTAL - 1
      BY Sizes
    <3> QED BY <3>1, RoundIs
  <2> QED BY <2>1
<1>2. \A x \in Vectors : \A k \in 1 .. TOTAL : H[<<x, k>>] = Rust!Round(x, k - 1, is_full(k - 1))
  OBVIOUS
<1> HIDE DEF H
<1>3. TOTAL \in Nat
  BY Sizes
<1>4. PICK f : Recurs(f, Vectors, s, TOTAL, H)
  BY <1>1, <1>3, StepsExist
<1>5. f \in [0 .. TOTAL -> Vectors] /\ f[0] = s
  BY <1>4 DEF Recurs
<1>6. ASSUME NEW k \in 0 .. TOTAL - 1 PROVE f[k + 1] = Rust!Round(f[k], k, is_full(k))
  <2>1. f[k + 1] = H[<<f[k], k + 1>>]
    BY <1>4 DEF Recurs
  <2>2. k \in 0 .. TOTAL /\ k + 1 \in 1 .. TOTAL /\ (k + 1) - 1 = k
    BY <1>3
  <2>3. f[k] \in Vectors
    BY <1>5, <2>2
  <2>4. H[<<f[k], k + 1>>] = Rust!Round(f[k], (k + 1) - 1, is_full((k + 1) - 1))
    BY <1>2, <2>2, <2>3
  <2> QED BY <2>1, <2>2, <2>4
<1>7. Q(f)
  <2>1. ASSUME NEW n \in 0 .. TOTAL, n # 0 PROVE f[n] = Rust!Round(f[n - 1], n - 1, is_full(n - 1))
    <3>1. n - 1 \in 0 .. TOTAL - 1 /\ (n - 1) + 1 = n
      BY <1>3, <2>1
    <3> QED BY <1>6, <3>1
  <2> QED BY <1>5, <2>1
<1> DEFINE g == CHOOSE a : Q(a)
<1>8. Q(g)
  <2> HIDE DEF Q
  <2> QED BY <1>7
<1>9. \A k : After(s, k) = g[k]
  BY DEF After
<1> HIDE DEF g
<1>10. g[0] = s
  BY <1>3, <1>8
<1>11. ASSUME NEW k \in 0 .. TOTAL - 1 PROVE g[k + 1] = Rust!Round(g[k], k, is_full(k))
  <2>1. k + 1 \in 0 .. TOTAL /\ k + 1 # 0 /\ (k + 1) - 1 = k
    BY <1>3
  <2>2. g[k + 1] = Rust!Round(g[(k + 1) - 1], (k + 1) - 1, is_full((k + 1) - 1))
    BY <1>8, <2>1
  <2> QED BY <2>1, <2>2
<1>12. \A k \in 0 .. TOTAL : g[k] \in Vectors
  <2> DEFINE T == {k \in 0 .. TOTAL : g[k] \in Vectors}
  <2>1. 0 \in T
    BY <1>3, <1>10
  <2>2. ASSUME NEW k \in 0 .. TOTAL - 1, k \in T PROVE k + 1 \in T
    <3>1. g[k] \in Vectors /\ k + 1 \in 0 .. TOTAL
      BY <1>3, <2>2
    <3>2. Rust!Round(g[k], k, is_full(k)) \in Vectors
      BY <3>1, RoundIs
    <3> QED BY <1>11, <3>1, <3>2
  <2> HIDE DEF T
  <2>3. \A k \in 0 .. TOTAL : k \in T
    BY <1>3, <2>1, <2>2, UpTo
  <2> QED BY <2>3 DEF T
<1> QED BY <1>9, <1>10, <1>11, <1>12

LEMMA RoundKind ==
  ASSUME NEW s, NEW n, NEW full, full <=> is_full(n)
  PROVE  Rust!Round(s, n, full) = Rust!Round(s, n, is_full(n))
<1>1. BoxedBy(s, n, full) = BoxedBy(s, n, is_full(n))
  BY DEF BoxedBy
<1> QED BY <1>1, RoundIsFold

(* A stretch of rounds of one kind. *)
LEMMA Stretch ==
  ASSUME NEW s \in Vectors, NEW from \in Nat, NEW n \in Nat, from + n <= TOTAL, NEW full,
         \A k \in from .. from + n - 1 : full <=> is_full(k)
  PROVE  RoundsFold(After(s, from), from, n, full) = After(s, from + n)
<1> DEFINE t == After(s, from)
<1>0. TOTAL \in Nat
  BY Sizes
<1>1. t \in Vectors
  BY <1>0, AfterSteps
<1> HIDE DEF t
<1>2. \A x \in Vectors : \A k \in 1 .. n : RoundStep(from, full, x, k) \in Vectors
  <2> SUFFICES ASSUME NEW x \in Vectors, NEW k \in 1 .. n PROVE RoundStep(from, full, x, k) \in Vectors
    OBVIOUS
  <2>1. from + k - 1 \in 0 .. TOTAL - 1
    BY <1>0
  <2> QED BY <2>1, RoundIs DEF RoundStep
<1>a. PICK f : RoundsRun(f, t, from, n, full)
  BY <1>1, <1>2, RoundsFolds
<1>3. /\ f \in [0 .. n -> Vectors] /\ f[0] = t
      /\ \A k \in 0 .. n - 1 : f[k + 1] = RoundStep(from, full, f[k], k + 1)
      /\ RoundsFold(t, from, n, full) = f[n]
  BY <1>a DEF RoundsRun
<1> DEFINE T == {k \in 0 .. n : f[k] = After(s, from + k)}
<1>4. 0 \in T
  BY <1>3 DEF t
<1>5. ASSUME NEW k \in 0 .. n - 1, k \in T PROVE k + 1 \in T
  <2>1. from + k \in 0 .. TOTAL - 1 /\ from + k \in from .. from + n - 1 /\ k + 1 \in 0 .. n
        /\ from + (k + 1) - 1 = from + k /\ from + (k + 1) = (from + k) + 1
    BY <1>0
  <2>2. f[k + 1] = Rust!Round(After(s, from + k), from + k, full)
    BY <1>3, <1>5, <2>1 DEF RoundStep
  <2>3. full <=> is_full(from + k)
    BY <2>1
  <2>4. f[k + 1] = Rust!Round(After(s, from + k), from + k, is_full(from + k))
    BY <2>2, <2>3, RoundKind
  <2>5. After(s, (from + k) + 1) = Rust!Round(After(s, from + k), from + k, is_full(from + k))
    BY <2>1, AfterSteps
  <2> QED BY <2>1, <2>4, <2>5
<1> HIDE DEF T
<1>6. \A k \in 0 .. n : k \in T
  BY <1>4, <1>5, UpTo
<1>7. n \in T
  BY <1>6
<1> QED BY <1>3, <1>7 DEF T, t

LEMMA Halves ==
  LET half == POSEIDON_FULL_ROUNDS \div 2
  IN  /\ half \in Nat /\ POSEIDON_FULL_ROUNDS = half + half
      /\ TOTAL = half + POSEIDON_PARTIAL_ROUNDS + half
      /\ POSEIDON_PARTIAL_ROUNDS \in Nat
      /\ \A n \in Int : is_full(n) <=> n < half \/ n >= half + POSEIDON_PARTIAL_ROUNDS
<1> DEFINE half == POSEIDON_FULL_ROUNDS \div 2
<1>1. POSEIDON_FULL_ROUNDS \in Nat /\ POSEIDON_FULL_ROUNDS % 2 = 0 /\ POSEIDON_PARTIAL_ROUNDS \in Nat
  BY PoseidonAssumption
<1>2. half \in Nat /\ POSEIDON_FULL_ROUNDS = half + half
  BY <1>1
<1>3. TOTAL = half + POSEIDON_PARTIAL_ROUNDS + half
  BY <1>1, <1>2 DEF TOTAL
<1> QED BY <1>1, <1>2, <1>3 DEF is_full

(* The rounds are the permutation. *)
LEMMA PermuteIs ==
  ASSUME NEW s \in Vectors
  PROVE  Rust!Permute(s) = After(s, TOTAL) /\ Rust!Permute(s) \in Vectors
<1> DEFINE half == POSEIDON_FULL_ROUNDS \div 2
           part == POSEIDON_PARTIAL_ROUNDS
<1>1. Rust!Permute(s) = RoundsFold(RoundsFold(RoundsFold(s, 0, half, TRUE), half, part, FALSE),
                                   half + part, half, TRUE)
  BY DEF RoundsFold, RoundStep, Numbers, FoldLeft, MapThenFoldSet, Max, Rust!Permute, Rust!Count,
         Rust!FoldLeft, Rust!MapThenFoldSet, Rust!Max
<1>2. /\ half \in Nat /\ part \in Nat /\ TOTAL = half + part + half
      /\ \A n \in Int : is_full(n) <=> n < half \/ n >= half + part
  BY Halves
<1> HIDE DEF half, part
<1>3. After(s, 0) = s
  BY AfterSteps
<1>4. RoundsFold(After(s, 0), 0, half, TRUE) = After(s, 0 + half)
  <2>1. 0 \in Nat /\ 0 + half <= TOTAL
    BY <1>2
  <2>2. \A k \in 0 .. 0 + half - 1 : TRUE <=> is_full(k)
    BY <1>2
  <2> QED BY <1>2, <2>1, <2>2, Stretch
<1>5. RoundsFold(After(s, half), half, part, FALSE) = After(s, half + part)
  <2>1. half + part <= TOTAL
    BY <1>2
  <2>2. \A k \in half .. half + part - 1 : FALSE <=> is_full(k)
    BY <1>2
  <2> QED BY <1>2, <2>1, <2>2, Stretch
<1>6. RoundsFold(After(s, half + part), half + part, half, TRUE) = After(s, (half + part) + half)
  <2>1. half + part \in Nat /\ (half + part) + half <= TOTAL
    BY <1>2
  <2>2. \A k \in half + part .. (half + part) + half - 1 : TRUE <=> is_full(k)
    BY <1>2
  <2> QED BY <1>2, <2>1, <2>2, Stretch
<1>7. 0 + half = half /\ (half + part) + half = TOTAL /\ TOTAL \in 0 .. TOTAL
  BY <1>2
<1>8. After(s, TOTAL) \in Vectors
  BY <1>7, AfterSteps
<1> QED BY <1>1, <1>3, <1>4, <1>5, <1>6, <1>7, <1>8

-----------------------------------------------------------------------------
(* Blocks *)

LEMMA AddedIn ==
  ASSUME NEW t \in Vectors, NEW b \in Seq(Field)
  PROVE  Rust!AddBlock(t, b) \in Vectors
<1>1. ASSUME NEW c \in 1 .. WIDTH, c - 1 \in DOMAIN b PROVE (t[c] + b[c - 1]) % P \in Field
  <2>1. t[c] \in Int /\ b[c - 1] \in Int
    BY <1>1, Sizes DEF Vectors, Field
  <2> DEFINE x == t[c] + b[c - 1]
  <2>2. x \in Int
    BY <2>1
  <2> HIDE DEF x
  <2> QED BY <2>2, InField DEF x
<1> QED BY <1>1, SlotNumbers DEF Rust!AddBlock, Vectors

LEMMA BlockIn ==
  ASSUME NEW v \in Seq(Field), NEW k \in Nat \ {0}
  PROVE  Block(v, k) \in Seq(Field)
<1> DEFINE a == (k - 1) * RATE + 1
           z == IF k * RATE < Len(v) THEN k * RATE ELSE Len(v)
<1>1. Len(v) \in Nat
  OBVIOUS
<1>2. k * RATE \in Nat /\ (k - 1) * RATE \in Nat
  BY Sizes
<1>3. a \in Nat \ {0} /\ z \in Nat /\ z <= Len(v)
  BY <1>1, <1>2
<1>4. Block(v, k) = SubSeq(v, a, z)
  BY DEF Block
<1> HIDE DEF a, z
<1>5. \A j \in a .. z : v[j] \in Field
  BY <1>1, <1>3
<1> QED BY <1>3, <1>4, <1>5

(* The number of permutations between blocks. *)
Turns(n) == IF n = 0 THEN 0 ELSE (n - 1) \div RATE

Nought == [c \in 1 .. WIDTH |-> 0]

LEMMA AbsorbedSteps ==
  ASSUME NEW v \in Seq(Field)
  PROVE  /\ Turns(Len(v)) \in Nat
         /\ \E f : /\ f \in [0 .. Turns(Len(v)) -> Vectors]
                   /\ f[0] = Rust!AddBlock(Nought, Block(v, 1))
                   /\ \A k \in 0 .. Turns(Len(v)) - 1 :
                        f[k + 1] = Rust!AddBlock(Rust!Permute(f[k]), Block(v, k + 2))
                   /\ Rust!Absorbed(v) = f[Turns(Len(v))]
<1> DEFINE n == Len(v)
           first == Rust!AddBlock(Nought, Block(v, 1))
           blocks == (n + RATE - 1) \div RATE
<1>1. n \in Nat /\ RATE \in Nat \ {0}
  BY Sizes
<1>2. Rust!Absorbed(v) = BlocksFold(v, first, blocks - 1)
  <2>1. Rust!Absorbed(v) =
          BlocksFold(v, Rust!AddBlock([c \in Rust!Slots |-> 0], Block(v, 1)), blocks - 1)
    BY DEF BlocksFold, BlockStep, Block, Numbers, FoldLeft, MapThenFoldSet, Max, Rust!Absorbed,
           Rust!Count, Rust!FoldLeft, Rust!MapThenFoldSet, Rust!Max
  <2>2. [c \in Rust!Slots |-> 0] = Nought
    BY SlotNumbers DEF Nought
  <2> QED BY <2>1, <2>2
<1>3. Turns(n) \in Nat
  <2>1. CASE n = 0
    BY <2>1 DEF Turns
  <2>2. CASE n # 0
    <3>1. n - 1 \in Nat
      BY <1>1, <2>2
    <3> DEFINE u == n - 1
    <3>2. u \div RATE \in Nat
      <4> HIDE DEF u, n
      <4> QED BY <1>1, <3>1 DEF u
    <3> QED BY <2>2, <3>2 DEF Turns
  <2> QED BY <2>1, <2>2
<1>4. BlocksFold(v, first, blocks - 1) = BlocksFold(v, first, Turns(n))
  <2>1. CASE n = 0
    <3>1. RATE - 1 = 0 * RATE + (RATE - 1) /\ RATE - 1 \in 0 .. RATE - 1 /\ RATE - 1 \in Int
      BY <1>1
    <3>2. (RATE - 1) \div RATE = 0
      BY <1>1, <3>1, Divides
    <3>3. blocks = 0
      BY <1>1, <2>1, <3>2
    <3>4. 1 .. blocks - 1 = 1 .. Turns(n)
      BY <2>1, <3>3 DEF Turns
    <3>5. Numbers(blocks - 1) = Numbers(Turns(n))
      BY <3>4 DEF Numbers
    <3> QED BY <3>5 DEF BlocksFold
  <2>2. CASE n # 0
    <3> DEFINE u == n - 1
               q == u \div RATE
               w == n + RATE - 1
    <3>0. u \in Int /\ w = u + RATE
      BY <1>1
    <3> HIDE DEF u, w
    <3>1. u \in Int /\ q \in Int /\ u % RATE \in 0 .. RATE - 1 /\ u = q * RATE + (u % RATE)
      BY <1>1, <3>0, DivMod
    <3>2. w = u + RATE /\ (q + 1) * RATE = q * RATE + RATE
      <4> HIDE DEF q
      <4> QED BY <1>1, <3>0, <3>1
    <3> HIDE DEF q
    <3>3. w \in Int /\ q + 1 \in Int /\ w = (q + 1) * RATE + (u % RATE)
      <4>1. q * RATE \in Int
        BY <1>1, <3>1
      <4>2. (q + 1) * RATE \in Int
        BY <1>1, <3>1
      <4> QED BY <1>1, <3>1, <3>2, <4>1, <4>2
    <3>4. w \div RATE = q + 1
      BY <1>1, <3>1, <3>3, Divides
    <3>5. blocks - 1 = q
      BY <3>1, <3>4 DEF w
    <3> QED BY <2>2, <3>5 DEF Turns, q, u
  <2> QED BY <2>1, <2>2
<1> DEFINE m == Turns(n)
<1>5. first \in Vectors
  <2>1. Nought \in Vectors
    BY Sizes DEF Nought, Vectors, Field
  <2> QED BY <2>1, BlockIn, AddedIn
<1>6. \A x \in Vectors : \A k \in 1 .. m : BlockStep(v, x, k) \in Vectors
  <2> SUFFICES ASSUME NEW x \in Vectors, NEW k \in 1 .. m PROVE BlockStep(v, x, k) \in Vectors
    OBVIOUS
  <2>1. Block(v, k + 1) \in Seq(Field)
    BY BlockIn
  <2>2. Rust!Permute(x) \in Vectors
    BY PermuteIs
  <2> QED BY <2>1, <2>2, AddedIn DEF BlockStep
<1> HIDE DEF first, m
<1>7. PICK f : /\ f \in [0 .. m -> Vectors] /\ f[0] = first
               /\ \A k \in 0 .. m - 1 : f[k + 1] = BlockStep(v, f[k], k + 1)
               /\ BlocksFold(v, first, m) = f[m]
  BY <1>3, <1>5, <1>6, BlocksFolds DEF m
<1>8. \A k \in 0 .. m - 1 : f[k + 1] = Rust!AddBlock(Rust!Permute(f[k]), Block(v, k + 2))
  <2> SUFFICES ASSUME NEW k \in 0 .. m - 1
               PROVE  f[k + 1] = Rust!AddBlock(Rust!Permute(f[k]), Block(v, k + 2))
    OBVIOUS
  <2>1. (k + 1) + 1 = k + 2
    OBVIOUS
  <2> QED BY <1>7, <2>1 DEF BlockStep
<1> QED BY <1>2, <1>3, <1>4, <1>7, <1>8 DEF m, n, first

LEMMA BlockIs ==
  ASSUME NEW v \in Seq(Field), NEW q \in Nat, NEW n \in Nat, q * RATE + n <= Len(v),
         \/ n = RATE
         \/ n <= RATE /\ q * RATE + n = Len(v)
  PROVE  /\ Block(v, q + 1) \in Seq(Field) /\ Len(Block(v, q + 1)) = n
         /\ \A j \in 1 .. n : Block(v, q + 1)[j] = v[q * RATE + j]
<1> DEFINE a == q * RATE
           z == IF (q + 1) * RATE < Len(v) THEN (q + 1) * RATE ELSE Len(v)
<1>1. Len(v) \in Nat /\ RATE \in Nat \ {0}
  BY Sizes
<1>2. a \in Nat
  BY <1>1
<1>3. (q + 1) * RATE = a + RATE
  BY <1>1
<1>4. ((q + 1) - 1) * RATE = a
  BY <1>1
<1> HIDE DEF a
<1>5. z = a + n
  BY <1>1, <1>2, <1>3 DEF a
<1>6. Block(v, q + 1) = SubSeq(v, a + 1, a + n)
  BY <1>4, <1>5 DEF Block
<1>7. a + n <= Len(v)
  BY DEF a
<1>8. \A j \in a + 1 .. a + n : v[j] \in Field
  BY <1>1, <1>2, <1>7
<1>9. SubSeq(v, a + 1, a + n) \in Seq(Field) /\ Len(SubSeq(v, a + 1, a + n)) = n
  BY <1>1, <1>2, <1>7, <1>8
<1>10. \A j \in 1 .. n : SubSeq(v, a + 1, a + n)[j] = v[a + j]
  BY <1>1, <1>2, <1>7
<1> QED BY <1>6, <1>9, <1>10 DEF a

LEMMA AddBlockIs ==
  ASSUME NEW t \in Vectors, NEW b \in Seq(Field)
  PROVE  Rust!AddBlock(t, b) = [c \in 1 .. WIDTH |-> IF c - 1 \in 1 .. Len(b) THEN (t[c] + b[c - 1]) % P
                                                                           ELSE t[c]]
BY SlotNumbers DEF Rust!AddBlock

(* Numbers of elements, whole blocks and the rest. *)
LEMMA WholeBlocks ==
  ASSUME NEW n \in Nat
  PROVE  \E q \in Nat : \E m \in 0 .. RATE - 1 :
           /\ n = q * RATE + m /\ n % RATE = m /\ q * RATE \in Nat
           /\ Turns(n + 1) = q
           /\ Full(n) => m = 0 /\ q > 0 /\ Turns(n) = q - 1
           /\ ~ Full(n) => Turns(n) = q /\ (m = 0 => q = 0)
<1> DEFINE q == n \div RATE
           m == n % RATE
<1>0. RATE \in Nat \ {0}
  BY Sizes
<1>1. q \in Int /\ m \in 0 .. RATE - 1 /\ n = q * RATE + m
  BY <1>0, DivMod
<1>2. Turns(n + 1) = q
  BY DEF Turns
<1>3. q \in Nat
  BY <1>0
<1>4. m = n % RATE
  OBVIOUS
<1> HIDE DEF q, m
<1>5. q * RATE \in Nat
  BY <1>0, <1>3
<1>6. ASSUME Full(n) PROVE m = 0 /\ q > 0 /\ Turns(n) = q - 1
  <2>1. m = 0 /\ n > 0
    BY <1>4, <1>6 DEF Full
  <2>2. q > 0
    <3>1. q = 0 => q * RATE = 0
      BY <1>0
    <3> QED BY <1>1, <1>3, <2>1, <3>1
  <2>3. n - 1 = (q - 1) * RATE + (RATE - 1)
    <3>1. (q - 1) * RATE = q * RATE - RATE
      BY <1>0, <1>1
    <3> QED BY <1>0, <1>1, <1>5, <2>1, <3>1
  <2> DEFINE u == n - 1
             w == q - 1
             d == RATE - 1
  <2>4. u \in Int /\ w \in Int /\ d \in 0 .. RATE - 1 /\ u = w * RATE + d
    BY <1>0, <1>1, <2>3
  <2> HIDE DEF u, w, d
  <2>5. u \div RATE = w
    BY <1>0, <2>4, Divides
  <2> QED BY <2>1, <2>2, <2>5 DEF Turns, u, w
<1>7. ASSUME ~ Full(n) PROVE Turns(n) = q /\ (m = 0 => q = 0)
  <2>1. CASE n = 0
    <3>1. 0 = 0 * RATE + 0 /\ 0 \in 0 .. RATE - 1 /\ 0 \in Int
      BY <1>0
    <3>2. 0 \div RATE = 0
      BY <1>0, <3>1, Divides
    <3> QED BY <2>1, <3>2 DEF Turns, q
  <2>2. CASE n # 0
    <3>1. m # 0
      BY <1>4, <1>7, <2>2 DEF Full
    <3> DEFINE u == n - 1
               d == m - 1
    <3>2. u \in Int /\ d \in 0 .. RATE - 1 /\ u = q * RATE + d
      BY <1>0, <1>1, <1>5, <3>1
    <3> HIDE DEF u, d
    <3>3. u \div RATE = q
      BY <1>0, <1>1, <3>2, Divides
    <3> QED BY <2>2, <3>1, <3>3 DEF Turns, u
  <2> QED BY <2>1, <2>2
<1> QED BY <1>1, <1>2, <1>3, <1>4, <1>5, <1>6, <1>7

(* One more element in the last block. *)
LEMMA AddOne ==
  ASSUME NEW v \in Seq(Field), NEW x \in Field, NEW q \in Nat, NEW m \in 0 .. RATE - 1,
         Len(v) = q * RATE + m, q * RATE \in Nat, NEW t \in Vectors
  PROVE  /\ Rust!AddBlock(t, Block(Append(v, x), q + 1))
              = [Rust!AddBlock(t, Block(v, q + 1)) EXCEPT ![m + 2] = (@ + x) % P]
         /\ Rust!AddBlock(t, Block(v, q + 1)) \in Vectors
         /\ m = 0 => Rust!AddBlock(t, Block(v, q + 1)) = t
<1> DEFINE w == Append(v, x)
           b == Block(v, q + 1)
           d == Block(w, q + 1)
           a == q * RATE
<1>1. a \in Nat /\ m \in Nat /\ m <= RATE - 1 /\ RATE \in Nat /\ Len(v) = a + m /\ m + 2 \in 1 .. WIDTH
  BY Sizes
<1>2. w \in Seq(Field) /\ Len(w) = a + (m + 1) /\ \A j \in 1 .. a + m : w[j] = v[j]
  BY <1>1
<1>3. w[a + m + 1] = x
  BY <1>1
<1> HIDE DEF w
<1>4. b \in Seq(Field) /\ Len(b) = m /\ \A j \in 1 .. m : b[j] = v[a + j]
  <2>1. q * RATE + m <= Len(v) /\ m <= RATE /\ q * RATE + m = Len(v)
    BY <1>1
  <2> QED BY <1>1, <2>1, BlockIs
<1>5. d \in Seq(Field) /\ Len(d) = m + 1 /\ \A j \in 1 .. m + 1 : d[j] = w[a + j]
  <2>1. m + 1 \in Nat /\ m + 1 <= RATE /\ a + (m + 1) <= Len(w)
    BY <1>1, <1>2
  <2> QED BY <1>2, <2>1, BlockIs
<1> HIDE DEF a, b, d
<1>6. \A j \in 1 .. m : d[j] = b[j]
  BY <1>1, <1>2, <1>4, <1>5
<1>7. d[m + 1] = x
  BY <1>1, <1>3, <1>5
<1> DEFINE s == Rust!AddBlock(t, b)
           r2 == Rust!AddBlock(t, d)
<1>8. /\ s = [c \in 1 .. WIDTH |-> IF c - 1 \in 1 .. m THEN (t[c] + b[c - 1]) % P ELSE t[c]]
      /\ r2 = [c \in 1 .. WIDTH |-> IF c - 1 \in 1 .. m + 1 THEN (t[c] + d[c - 1]) % P ELSE t[c]]
  <2>1. s = [c \in 1 .. WIDTH |-> IF c - 1 \in 1 .. Len(b) THEN (t[c] + b[c - 1]) % P ELSE t[c]]
    BY <1>4, AddBlockIs
  <2>2. r2 = [c \in 1 .. WIDTH |-> IF c - 1 \in 1 .. Len(d) THEN (t[c] + d[c - 1]) % P ELSE t[c]]
    BY <1>5, AddBlockIs
  <2> HIDE DEF s, r2
  <2>3. Len(b) = m /\ Len(d) = m + 1
    BY <1>4, <1>5
  <2>4. s = [c \in 1 .. WIDTH |-> IF c - 1 \in 1 .. m THEN (t[c] + b[c - 1]) % P ELSE t[c]]
    BY <2>1, <2>3
  <2>5. r2 = [c \in 1 .. WIDTH |-> IF c - 1 \in 1 .. m + 1 THEN (t[c] + d[c - 1]) % P ELSE t[c]]
    BY <2>2, <2>3
  <2> QED BY <2>4, <2>5
<1>9. s \in Vectors
  BY <1>4, AddedIn
<1> HIDE DEF s, r2
<1>10. ASSUME NEW c \in 1 .. WIDTH PROVE r2[c] = [s EXCEPT ![m + 2] = (@ + x) % P][c]
  <2>1. CASE c = m + 2
    <3>1. c - 1 = m + 1 /\ c - 1 \in 1 .. m + 1 /\ c - 1 \notin 1 .. m
      BY <1>1, <2>1
    <3>2. r2[c] = (t[c] + x) % P /\ s[c] = t[c]
      BY <1>7, <1>8, <3>1
    <3> QED BY <1>8, <2>1, <3>2
  <2>2. CASE c # m + 2
    <3>1. c - 1 \in 1 .. m + 1 <=> c - 1 \in 1 .. m
      BY <1>1, <2>2
    <3>2. r2[c] = s[c]
      BY <1>6, <1>8, <3>1
    <3> QED BY <1>8, <2>2, <3>2
  <2> QED BY <2>1, <2>2
<1>11. r2 = [s EXCEPT ![m + 2] = (@ + x) % P]
  BY <1>8, <1>10
<1>12. m = 0 => s = t
  BY <1>8 DEF Vectors
<1> QED BY <1>9, <1>11, <1>12 DEF r2, s, b, d, w

(* Whole blocks do not change. *)
LEMMA SameBlock ==
  ASSUME NEW v \in Seq(Field), NEW x \in Field, NEW q \in Nat, q * RATE \in Nat,
         q * RATE + RATE <= Len(v)
  PROVE  Block(Append(v, x), q + 1) = Block(v, q + 1)
<1> DEFINE w == Append(v, x)
           b == Block(v, q + 1)
           d == Block(w, q + 1)
           a == q * RATE
<1>1. a \in Nat /\ RATE \in Nat /\ Len(v) \in Nat /\ a + RATE <= Len(v)
  BY Sizes
<1>2. w \in Seq(Field) /\ Len(w) = Len(v) + 1 /\ \A j \in 1 .. Len(v) : w[j] = v[j]
  OBVIOUS
<1> HIDE DEF w
<1>3. b \in Seq(Field) /\ Len(b) = RATE /\ \A j \in 1 .. RATE : b[j] = v[a + j]
  BY <1>1, BlockIs
<1>4. a + RATE <= Len(w)
  BY <1>1, <1>2
<1>5. d \in Seq(Field) /\ Len(d) = RATE /\ \A j \in 1 .. RATE : d[j] = w[a + j]
  BY <1>1, <1>2, <1>4, BlockIs
<1> HIDE DEF a, b, d
<1>6. \A j \in 1 .. RATE : d[j] = b[j]
  <2> SUFFICES ASSUME NEW j \in 1 .. RATE PROVE d[j] = b[j]
    OBVIOUS
  <2>1. a + j \in 1 .. Len(v)
    BY <1>1
  <2> QED BY <1>2, <1>3, <1>5, <2>1
<1>7. d = b
  BY <1>3, <1>5, <1>6
<1> QED BY <1>7 DEF b, d, w

LEMMA NothingLeft ==
  ASSUME NEW v \in Seq(Field), NEW q \in Nat, Len(v) = q * RATE, NEW t \in Vectors
  PROVE  Rust!AddBlock(t, Block(v, q + 1)) = t
<1>1. 0 \in 0 .. RATE - 1 /\ 0 \in Field /\ q * RATE \in Nat /\ q * RATE + 0 = q * RATE
  BY Sizes DEF Field
<1>2. /\ Rust!AddBlock(t, Block(Append(v, 0), q + 1))
              = [Rust!AddBlock(t, Block(v, q + 1)) EXCEPT ![0 + 2] = (@ + 0) % P]
      /\ 0 = 0 => Rust!AddBlock(t, Block(v, q + 1)) = t
  BY <1>1, AddOne
<1> QED BY <1>2

(* Elements are added one by one: the permutation between two blocks is    *)
(* due when the next element comes.                                        *)
LEMMA AbsorbNext ==
  ASSUME NEW v \in Seq(Field), NEW x \in Field
  PROVE  /\ Rust!Absorbed(v) \in Vectors
         /\ ~ Full(Len(v)) => Rust!Absorbed(Append(v, x))
              = [Rust!Absorbed(v) EXCEPT ![(Len(v) % RATE) + 2] = (@ + x) % P]
         /\ Full(Len(v)) => Rust!Absorbed(Append(v, x))
              = [Rust!Permute(Rust!Absorbed(v)) EXCEPT ![2] = (@ + x) % P]
<1> DEFINE w == Append(v, x)
           n == Len(v)
<1>1. n \in Nat /\ w \in Seq(Field) /\ Len(w) = n + 1
  OBVIOUS
<1>2. PICK q \in Nat : \E m \in 0 .. RATE - 1 :
           /\ n = q * RATE + m /\ n % RATE = m /\ q * RATE \in Nat
           /\ Turns(n + 1) = q
           /\ Full(n) => m = 0 /\ q > 0 /\ Turns(n) = q - 1
           /\ ~ Full(n) => Turns(n) = q /\ (m = 0 => q = 0)
  BY <1>1, WholeBlocks
<1>3. PICK m \in 0 .. RATE - 1 :
           /\ n = q * RATE + m /\ n % RATE = m /\ q * RATE \in Nat
           /\ Turns(n + 1) = q
           /\ Full(n) => m = 0 /\ q > 0 /\ Turns(n) = q - 1
           /\ ~ Full(n) => Turns(n) = q /\ (m = 0 => q = 0)
  BY <1>2
<1> DEFINE s == Turns(n)
<1>4. s \in Nat /\ s <= q /\ (Full(n) => s = q - 1) /\ (~ Full(n) => s = q)
  BY <1>1, <1>3, AbsorbedSteps
<1>5. PICK f : /\ f \in [0 .. s -> Vectors]
               /\ f[0] = Rust!AddBlock(Nought, Block(v, 1))
               /\ \A k \in 0 .. s - 1 : f[k + 1] = Rust!AddBlock(Rust!Permute(f[k]), Block(v, k + 2))
               /\ Rust!Absorbed(v) = f[s]
  BY AbsorbedSteps
<1>6. PICK g : /\ g \in [0 .. q -> Vectors]
               /\ g[0] = Rust!AddBlock(Nought, Block(w, 1))
               /\ \A k \in 0 .. q - 1 : g[k + 1] = Rust!AddBlock(Rust!Permute(g[k]), Block(w, k + 2))
               /\ Rust!Absorbed(w) = g[q]
  <2>1. Turns(Len(w)) = q
    BY <1>1, <1>3
  <2> HIDE DEF w
  <2> QED BY <1>1, <2>1, AbsorbedSteps
<1> HIDE DEF s
<1>7. RATE \in Nat \ {0} /\ Nought \in Vectors
  BY Sizes DEF Nought, Vectors, Field
<1>8. \A k \in 0 .. q - 1 : Block(w, k + 1) = Block(v, k + 1)
  <2> SUFFICES ASSUME NEW k \in 0 .. q - 1 PROVE Block(w, k + 1) = Block(v, k + 1)
    OBVIOUS
  <2>1. k \in Nat
    OBVIOUS
  <2>2. k * RATE \in Nat
    BY <1>7, <2>1
  <2>3. (q - (k + 1)) * RATE >= 0
    BY <1>7, <2>1
  <2>4. (q - (k + 1)) * RATE = q * RATE - (k * RATE + RATE)
    BY <1>7, <2>1
  <2>5. k * RATE + RATE <= n
    BY <1>3, <1>7, <2>2, <2>3, <2>4
  <2> QED BY <2>1, <2>2, <2>5, SameBlock
<1>9. \A k \in 0 .. q - 1 : f[k] = g[k]
  <2> DEFINE T == {k \in 0 .. q - 1 : f[k] = g[k]}
  <2>1. CASE q = 0
    BY <2>1
  <2>2. CASE q > 0
    <3>1. 0 \in T
      <4>1. 0 \in 0 .. q - 1 /\ 0 + 1 = 1
        BY <2>2
      <4>2. Block(w, 1) = Block(v, 1)
        BY <1>8, <4>1
      <4> QED BY <1>5, <1>6, <4>1, <4>2
    <3>2. ASSUME NEW k \in 0 .. (q - 1) - 1, k \in T PROVE k + 1 \in T
      <4>1. k + 1 \in 0 .. q - 1 /\ (k + 1) + 1 = k + 2 /\ k \in 0 .. s - 1 /\ k \in 0 .. q - 1
        BY <1>4, <2>2
      <4>2. Block(w, k + 2) = Block(v, k + 2)
        BY <1>8, <4>1
      <4>3. f[k + 1] = g[k + 1]
        BY <1>5, <1>6, <3>2, <4>1, <4>2
      <4> QED BY <4>1, <4>3
    <3> HIDE DEF T
    <3>3. q - 1 \in Nat
      BY <2>2
    <3>4. \A k \in 0 .. q - 1 : k \in T
      BY <3>1, <3>2, <3>3, UpTo
    <3> QED BY <3>4 DEF T
  <2> QED BY <2>1, <2>2
<1>10. Rust!Absorbed(v) \in Vectors
  BY <1>4, <1>5
<1>11. CASE ~ Full(n)
  <2>1. s = q
    BY <1>4, <1>11
  (* What the block under way is added to. *)
  <2> DEFINE t == IF q = 0 THEN Nought ELSE Rust!Permute(g[q - 1])
  <2>2. t \in Vectors /\ f[q] = Rust!AddBlock(t, Block(v, q + 1)) /\ g[q] = Rust!AddBlock(t, Block(w, q + 1))
    <3>1. CASE q = 0
      <4>1. q + 1 = 1 /\ t = Nought
        BY <3>1
      <4> HIDE DEF t
      <4> QED BY <1>5, <1>6, <1>7, <3>1, <4>1
    <3>2. CASE q # 0
      <4>1. q - 1 \in 0 .. q - 1 /\ (q - 1) + 1 = q /\ (q - 1) + 2 = q + 1 /\ q - 1 \in 0 .. q
        BY <3>2
      <4>2. f[q - 1] = g[q - 1] /\ g[q - 1] \in Vectors
        BY <1>6, <1>9, <4>1
      <4>3. f[(q - 1) + 1] = Rust!AddBlock(Rust!Permute(f[q - 1]), Block(v, (q - 1) + 2))
        BY <1>5, <2>1, <4>1
      <4>4. g[(q - 1) + 1] = Rust!AddBlock(Rust!Permute(g[q - 1]), Block(w, (q - 1) + 2))
        BY <1>6, <4>1
      <4>5. Rust!Permute(g[q - 1]) \in Vectors
        BY <4>2, PermuteIs
      <4>6. t = Rust!Permute(g[q - 1])
        BY <3>2
      <4> HIDE DEF t
      <4> QED BY <4>1, <4>2, <4>3, <4>4, <4>5, <4>6
    <3> QED BY <3>1, <3>2
  <2> HIDE DEF t
  <2>3. g[q] = [f[q] EXCEPT ![m + 2] = (@ + x) % P]
    BY <1>3, <2>2, AddOne
  <2>4. Rust!Absorbed(w) = [Rust!Absorbed(v) EXCEPT ![(n % RATE) + 2] = (@ + x) % P]
    BY <1>3, <1>5, <1>6, <2>1, <2>3
  <2> QED BY <1>10, <1>11, <2>4
<1>12. CASE Full(n)
  <2>1. s = q - 1 /\ q > 0 /\ m = 0
    BY <1>3, <1>4, <1>12
  <2> DEFINE t == Rust!Permute(Rust!Absorbed(v))
  <2>2. t \in Vectors
    BY <1>10, PermuteIs
  <2>3. g[q] = Rust!AddBlock(t, Block(w, q + 1))
    <3>1. q - 1 \in 0 .. q - 1 /\ (q - 1) + 1 = q /\ (q - 1) + 2 = q + 1
      BY <2>1
    <3>2. f[q - 1] = g[q - 1] /\ Rust!Absorbed(v) = f[q - 1]
      BY <1>5, <1>9, <2>1, <3>1
    <3>3. g[(q - 1) + 1] = Rust!AddBlock(Rust!Permute(g[q - 1]), Block(w, (q - 1) + 2))
      BY <1>6, <3>1
    <3> QED BY <3>1, <3>2, <3>3
  <2> HIDE DEF t
  <2>4. g[q] = [t EXCEPT ![2] = (@ + x) % P]
    <3>1. g[q] = [Rust!AddBlock(t, Block(v, q + 1)) EXCEPT ![m + 2] = (@ + x) % P]
      BY <1>3, <2>2, <2>3, AddOne
    <3>2. Rust!AddBlock(t, Block(v, q + 1)) = t
      BY <1>3, <2>1, <2>2, NothingLeft
    <3>3. m + 2 = 2
      BY <2>1
    <3> QED BY <3>1, <3>2, <3>3
  <2> QED BY <1>6, <1>10, <1>12, <2>4 DEF t
<1> QED BY <1>11, <1>12

LEMMA AbsorbNothing == Rust!Absorbed(<<>>) = Nought
<1> DEFINE v == <<>>
<1>1. v \in Seq(Field) /\ Len(v) = 0
  OBVIOUS
<1>2. Turns(Len(v)) = 0
  BY DEF Turns
<1>3. PICK f : /\ f \in [0 .. Turns(Len(v)) -> Vectors]
               /\ f[0] = Rust!AddBlock(Nought, Block(v, 1))
               /\ \A k \in 0 .. Turns(Len(v)) - 1 :
                    f[k + 1] = Rust!AddBlock(Rust!Permute(f[k]), Block(v, k + 2))
               /\ Rust!Absorbed(v) = f[Turns(Len(v))]
  <2> HIDE DEF v
  <2> QED BY <1>1, AbsorbedSteps
<1>4. Nought \in Vectors /\ 0 \in Field /\ 0 \in 0 .. RATE - 1 /\ 0 * RATE \in Nat /\ 0 + 1 = 1
      /\ 0 * RATE + 0 = 0
  BY Sizes DEF Nought, Vectors, Field
<1>5. Rust!AddBlock(Nought, Block(v, 0 + 1)) = Nought
  <2>1. Len(v) = 0 * RATE
    BY <1>1, Sizes
  <2> HIDE DEF v
  <2> QED BY <1>1, <1>4, <2>1, NothingLeft
<1> QED BY <1>2, <1>3, <1>4, <1>5

-----------------------------------------------------------------------------
(* Chunks *)

LEMMA PrefixIs ==
  ASSUME NEW s \in Seq(Field), NEW t \in Seq(Field)
  PROVE  IsPrefix(s, t) <=> Len(s) <= Len(t) /\ \A j \in 1 .. Len(s) : s[j] = t[j]
<1>1. Len(s) \in Nat /\ Len(t) \in Nat
  OBVIOUS
<1>2. ASSUME Len(s) <= Len(t) PROVE SubSeq(s, 1, Len(s)) = SubSeq(t, 1, Len(s))
                                     <=> \A j \in 1 .. Len(s) : s[j] = t[j]
  <2> DEFINE u == SubSeq(s, 1, Len(s))
             w == SubSeq(t, 1, Len(s))
  <2>1. u \in Seq(Field) /\ Len(u) = Len(s) /\ \A j \in 1 .. Len(s) : u[j] = s[j]
    BY <1>1
  <2>2. w \in Seq(Field) /\ Len(w) = Len(s) /\ \A j \in 1 .. Len(s) : w[j] = t[j]
    BY <1>1, <1>2
  <2> HIDE DEF u, w
  <2>3. u = w => \A j \in 1 .. Len(s) : s[j] = t[j]
    BY <2>1, <2>2
  <2>4. (\A j \in 1 .. Len(s) : s[j] = t[j]) => u = w
    BY <2>1, <2>2
  <2> QED BY <2>3, <2>4 DEF u, w
<1> QED BY <1>2 DEF IsPrefix

LEMMA PrefixGrows ==
  ASSUME NEW s \in Seq(Field), NEW t \in Seq(Field), IsPrefix(s, t), Len(s) < Len(t)
  PROVE  IsPrefix(Append(s, t[Len(s) + 1]), t)
<1> DEFINE x == t[Len(s) + 1]
           u == Append(s, x)
<1>1. Len(s) \in Nat /\ Len(t) \in Nat /\ Len(s) + 1 \in 1 .. Len(t) /\ x \in Field
  OBVIOUS
<1>2. \A j \in 1 .. Len(s) : s[j] = t[j]
  BY PrefixIs
<1>3. u \in Seq(Field) /\ Len(u) = Len(s) + 1
  BY <1>1
<1>4. \A j \in 1 .. Len(u) : u[j] = t[j]
  <2> SUFFICES ASSUME NEW j \in 1 .. Len(u) PROVE u[j] = t[j]
    OBVIOUS
  <2>1. CASE j = Len(s) + 1
    BY <1>1, <2>1
  <2>2. CASE j # Len(s) + 1
    <3>1. j \in 1 .. Len(s)
      BY <1>1, <1>3, <2>2
    <3> QED BY <1>1, <1>2, <3>1
  <2> QED BY <2>1, <2>2
<1> HIDE DEF u
<1>5. IsPrefix(u, t)
  BY <1>1, <1>3, <1>4, PrefixIs
<1> QED BY <1>5 DEF u

LEMMA WholePrefix ==
  ASSUME NEW s \in Seq(Field), NEW t \in Seq(Field), IsPrefix(s, t), Len(s) = Len(t)
  PROVE  s = t
BY PrefixIs

Chunked(n) == (n + CHUNK - 1) \div CHUNK

(* A chunk exists when something is left before it. *)
LEMMA ChunkCount ==
  ASSUME NEW n \in Nat
  PROVE  /\ Chunked(n) \in Nat
         /\ \A k \in Nat \ {0} : k <= Chunked(n) <=> (k - 1) * CHUNK < n
<1> DEFINE w == n + CHUNK - 1
           q == w \div CHUNK
           d == w % CHUNK
<1>0. CHUNK \in Nat \ {0}
  BY Sizes
<1>1. w \in Nat
  BY <1>0
<1> HIDE DEF w
<1>2. q \in Nat /\ d \in 0 .. CHUNK - 1 /\ w = q * CHUNK + d
  BY <1>0, <1>1
<1> HIDE DEF q, d
<1>3. q * CHUNK \in Nat /\ n + CHUNK - 1 = q * CHUNK + d
  BY <1>0, <1>2 DEF w
<1>4. ASSUME NEW k \in Nat \ {0} PROVE k <= q <=> (k - 1) * CHUNK < n
  <2> DEFINE a == (k - 1) * CHUNK
  <2>1. a \in Nat
    BY <1>0
  <2>2. ASSUME k <= q PROVE a < n
    <3>1. (q - k) * CHUNK >= 0
      BY <1>0, <1>2, <2>2
    <3>2. (q - k) * CHUNK = q * CHUNK - a - CHUNK
      BY <1>0, <1>2
    <3> HIDE DEF a
    <3> QED BY <1>0, <1>2, <1>3, <2>1, <3>1, <3>2
  <2>3. ASSUME k >= q + 1 PROVE ~ (a < n)
    <3>1. ((k - 1) - q) * CHUNK >= 0
      BY <1>0, <1>2, <2>3
    <3>2. ((k - 1) - q) * CHUNK = a - q * CHUNK
      BY <1>0, <1>2
    <3> HIDE DEF a
    <3> QED BY <1>0, <1>2, <1>3, <2>1, <3>1, <3>2
  <2> QED BY <1>2, <2>2, <2>3
<1> QED BY <1>2, <1>4 DEF q, w, Chunked

ChunkAt(m, k) == SubSeq(m, (k - 1) * CHUNK + 1, End(m, k))

LEMMA EndIs ==
  ASSUME NEW n \in Nat, NEW m \in Bytes, n * CHUNK < Len(m)
  PROVE  LET left == Len(m) - n * CHUNK
         IN  /\ n * CHUNK \in Nat /\ ChunkLen(left) \in 1 .. CHUNK
             /\ n * CHUNK + ChunkLen(left) <= Len(m)
             /\ End(m, n) = n * CHUNK
             /\ End(m, n + 1) = n * CHUNK + ChunkLen(left)
<1>1. Len(m) \in Nat /\ CHUNK \in Nat \ {0}
  BY Sizes DEF Bytes
<1> DEFINE a == n * CHUNK
<1>2. a \in Nat /\ (n + 1) * CHUNK = a + CHUNK
  BY <1>1
<1>3. a < Len(m)
  OBVIOUS
<1> HIDE DEF a
<1>4. End(m, n) = a
  BY <1>3 DEF End, a
<1>5. End(m, n + 1) = IF a + CHUNK < Len(m) THEN a + CHUNK ELSE Len(m)
  BY <1>2 DEF End
<1>6. ChunkLen(Len(m) - a) = IF Len(m) - a > CHUNK THEN CHUNK ELSE Len(m) - a
  BY DEF ChunkLen
<1> QED BY <1>1, <1>2, <1>3, <1>4, <1>5, <1>6 DEF a

(* The n-th buffer holds the n-th chunk. *)
LEMMA NextChunk ==
  ASSUME NEW m \in Bytes, NEW n \in Nat, n * CHUNK < Len(m)
  PROVE  LET b == Buffer(m, n * CHUNK, ChunkLen(Len(m) - n * CHUNK))
         IN  fr_from_be(b) = Rust!FromBytes(ChunkAt(m, n + 1)) /\ fr_from_be(b) \in Field
<1> DEFINE a == n * CHUNK
           l == ChunkLen(Len(m) - a)
<1>1. a \in Nat /\ l \in 1 .. CHUNK /\ a + l <= Len(m) /\ End(m, n + 1) = a + l
  BY EndIs
<1>2. ((n + 1) - 1) * CHUNK = a
  BY Sizes
<1> HIDE DEF a, l
<1>3. ChunkAt(m, n + 1) = SubSeq(m, a + 1, a + l)
  BY <1>1, <1>2 DEF ChunkAt
<1>4. fr_from_be(Buffer(m, a, l)) = Rust!FromBytes(SubSeq(m, a + 1, a + l))
      /\ fr_from_be(Buffer(m, a, l)) \in Field
  BY <1>1, BufferValue
<1> QED BY <1>3, <1>4 DEF a, l

LEMMA PackIs ==
  ASSUME NEW m \in Messages
  PROVE  LET p == Rust!Pack(m)
         IN  /\ p \in Seq(Field) /\ Len(p) = Chunked(Len(m)) + 1
             /\ p[1] = Len(m) /\ m \in Bytes /\ Len(m) \in Field /\ Len(m) \in Nat
             /\ \A k \in 1 .. Chunked(Len(m)) : p[k + 1] = Rust!FromBytes(ChunkAt(m, k))
<1> DEFINE n == Len(m)
           K == Chunked(n)
           rest == [k \in 1 .. K |-> Rust!FromBytes(ChunkAt(m, k))]
<1>1. m \in Bytes /\ n \in Nat /\ n < P
  BY PoseidonAssumption DEF Bytes
<1>2. n % P = n /\ n \in Field
  BY <1>1, Sizes, OwnRemainder DEF Field
<1>3. Rust!Pack(m) = <<n % P>> \o rest
  BY DEF Rust!Pack, Chunked, ChunkAt, End
<1>4. K \in Nat /\ \A k \in Nat \ {0} : k <= K <=> (k - 1) * CHUNK < n
  BY <1>1, ChunkCount
<1>5. \A k \in 1 .. K : Rust!FromBytes(ChunkAt(m, k)) \in Field
  <2> SUFFICES ASSUME NEW k \in 1 .. K PROVE Rust!FromBytes(ChunkAt(m, k)) \in Field
    OBVIOUS
  <2>1. k - 1 \in Nat /\ (k - 1) * CHUNK < Len(m) /\ (k - 1) + 1 = k
    <3> HIDE DEF K
    <3> QED BY <1>4
  <2> QED BY <1>1, <2>1, NextChunk
<1> HIDE DEF n, K
<1>6. rest \in Seq(Field) /\ Len(rest) = K /\ \A k \in 1 .. K : rest[k] = Rust!FromBytes(ChunkAt(m, k))
  <2>1. rest \in [1 .. K -> Field]
    BY <1>5
  <2> QED BY <1>4, <2>1, SeqDef
<1> HIDE DEF rest
<1>7. <<n>> \in Seq(Field) /\ Len(<<n>>) = 1 /\ <<n>>[1] = n
  BY <1>2
<1>8. <<n>> \o rest \in Seq(Field) /\ Len(<<n>> \o rest) = K + 1 /\ (<<n>> \o rest)[1] = n
  BY <1>4, <1>6, <1>7
<1>9. \A k \in 1 .. K : (<<n>> \o rest)[k + 1] = rest[k]
  BY <1>4, <1>6, <1>7
<1>10. Rust!Pack(m) = <<n>> \o rest
  BY <1>2, <1>3
<1> QED BY <1>1, <1>2, <1>6, <1>8, <1>9, <1>10 DEF n, K

-----------------------------------------------------------------------------
(* The invariant, step by step *)

IInv == TypeOK /\ Right

LEMMA PositionIs ==
  ASSUME NEW n \in Nat
  PROVE  /\ Position(n + 1) = (n % RATE) + 1
         /\ ~ Full(n) => Position(n) = n % RATE
         /\ Full(n) => Position(n) = RATE /\ n % RATE = 0
         /\ n % RATE \in 0 .. RATE - 1
<1> DEFINE q == n \div RATE
           m == n % RATE
<1>0. RATE \in Nat \ {0}
  BY Sizes
<1>1. q \in Int /\ m \in 0 .. RATE - 1 /\ n = q * RATE + m
  BY <1>0, DivMod
<1>2. Position(n + 1) = m + 1
  BY DEF Position
<1> HIDE DEF q
<1>3. q * RATE \in Int /\ (q - 1) * RATE = q * RATE - RATE
  BY <1>0, <1>1
<1>4. CASE n = 0
  <2>1. 0 = 0 * RATE + 0 /\ 0 \in 0 .. RATE - 1 /\ 0 \in Int
    BY <1>0
  <2>2. 0 % RATE = 0
    BY <1>0, <2>1, Divides
  <2> QED BY <1>0, <1>2, <1>4, <2>1, <2>2 DEF Position, Full
<1>5. CASE n # 0 /\ m = 0
  <2> DEFINE u == n - 1
             w == q - 1
             d == RATE - 1
  <2>1. u \in Int /\ w \in Int /\ d \in 0 .. RATE - 1 /\ u = w * RATE + d
    BY <1>0, <1>1, <1>3, <1>5
  <2> HIDE DEF u, w, d
  <2>2. u % RATE = d
    BY <1>0, <2>1, Divides
  <2>3. Position(n) = d + 1
    BY <1>5, <2>2 DEF Position, u
  <2> QED BY <1>0, <1>2, <1>5, <2>3 DEF Full, d
<1>6. CASE n # 0 /\ m # 0
  <2> DEFINE u == n - 1
             d == m - 1
  <2>1. u \in Int /\ d \in 0 .. RATE - 1 /\ u = q * RATE + d
    BY <1>0, <1>1, <1>3, <1>6
  <2> HIDE DEF u, d
  <2>2. u % RATE = d
    BY <1>0, <1>1, <2>1, Divides
  <2>3. Position(n) = d + 1
    BY <1>6, <2>2 DEF Position, u
  <2> QED BY <1>0, <1>1, <1>2, <1>6, <2>3 DEF Full, d
<1> QED BY <1>4, <1>5, <1>6

LEMMA ShiftedIs ==
  ASSUME NEW s \in States
  PROVE  /\ Shifted(s) \in Vectors
         /\ \A c \in 1 .. WIDTH : Shifted(s)[c] = s[c - 1] /\ s[c - 1] \in Field
         /\ \A c \in Slot : Shifted(s)[c + 1] = s[c]
BY SlotNumbers DEF Shifted, States, Vectors

LEMMA ArgIs ==
  ASSUME NEW a \in Args
  PROVE  \/ a.fn = "fr" /\ \E x \in Elements : a.v = <<x>>
         \/ a.fn = "bytes" /\ a.v \in Messages
BY DEF Args

LEMMA ElementsAre ==
  ASSUME NEW a \in Args
  PROVE  ElementsOf(a) \in Seq(Field)
<1>1. CASE a.fn = "fr" /\ \E x \in Elements : a.v = <<x>>
  <2>1. PICK x \in Elements : a.v = <<x>>
    BY <1>1
  <2>2. x \in Field
    BY PoseidonAssumption
  <2> QED BY <1>1, <2>1, <2>2 DEF ElementsOf
<1>2. CASE a.fn = "bytes" /\ a.v \in Messages
  <2>1. Rust!Pack(a.v) \in Seq(Field)
    BY <1>2, PackIs
  <2> QED BY <1>2, <2>1 DEF ElementsOf
<1> QED BY <1>1, <1>2, ArgIs

LEMMA Initially ==
  ASSUME Init PROVE IInv
<1>1. Zeros \in States /\ 0 \in Field
  BY Sizes DEF Zeros, States, Field
<1>2. TypeOK
  <2>1. ARK \in [0 .. TOTAL - 1 -> [Slot -> Field]] /\ MDS \in [Slot -> [Slot -> Field]]
    BY <1>1 DEF Init, States
  <2>2. /\ r \in 0 .. TOTAL + WIDTH /\ idx \in 0 .. RATE /\ i \in 0 .. WIDTH
        /\ round \in 0 .. TOTAL /\ off \in Nat
    BY Sizes DEF Init
  <2>3. state \in [Slot -> Field] /\ e \in Field /\ next \in [Slot -> Field]
    BY <1>1 DEF Init, States
  <2> QED BY <2>1, <2>2, <2>3 DEF Init, TypeOK
<1>3. Right
  BY DEF Init, Right, TablesRight, RoundsRight, SpongeRight, StreamRight, LogRight, Permuting, Absorbing
<1> QED BY <1>2, <1>3 DEF IInv

LEMMA CallStep ==
  ASSUME IInv, NEW x \in Args, Call(x)
  PROVE  IInv'
<1>1. TypeOK'
  <2>1. x # NoArg
    BY NoArgAssumption
  <2>2. 0 \in 0 .. TOTAL + WIDTH
    BY Sizes
  <2>3. /\ UNCHANGED <<ARK, MDS, initialized, state, idx, e, off, round, i, next, ret>>
        /\ arg' = x /\ r' = 0 /\ out' = NoArg /\ pc' \in {"init", "start"}
    BY DEF Call, perm
  <2> QED BY <2>1, <2>2, <2>3 DEF IInv, TypeOK
<1>2. TablesRight'
  <2>1. \A k \in 0 .. TOTAL - 1 : ~ (k < 0)
    BY Sizes
  <2>2. \A k \in Slot : ~ (k < 0 - TOTAL)
    BY Sizes DEF Slot
  <2> QED BY <2>1, <2>2 DEF Call, IInv, Right, TypeOK, TablesRight
<1>3. RoundsRight' /\ SpongeRight' /\ StreamRight' /\ LogRight'
  BY DEF Call, IInv, Right, RoundsRight, SpongeRight, StreamRight, LogRight, Permuting, Absorbing
<1> QED BY <1>1, <1>2, <1>3 DEF IInv, Right

LEMMA InitArkStep ==
  ASSUME IInv, InitArk
  PROVE  IInv'
<1>1. /\ UNCHANGED <<MDS, initialized, pc, arg, state, idx, e, off, absorbed, round, i, next, ret, out, log>>
      /\ r' = r + 1 /\ pc = "init" /\ r < TOTAL /\ r \in 0 .. TOTAL - 1 /\ TOTAL \in Nat
      /\ ARK' = [ARK EXCEPT ![r] = ArkTable[r]] /\ ARK \in [0 .. TOTAL - 1 -> [Slot -> Field]]
  <2>1. r \in 0 .. TOTAL - 1 /\ TOTAL \in Nat
    BY Sizes DEF InitArk, IInv, TypeOK
  <2>2. ArkTable[r] = [c \in Slot |-> fr_from_be(POSEIDON_ARK[r][c])]
    BY <2>1 DEF ArkTable
  <2> QED BY <2>1, <2>2 DEF InitArk, sponge, perm, history, IInv, TypeOK
<1>2. TypeOK'
  <2>1. ARK' \in [0 .. TOTAL - 1 -> [Slot -> Field]]
    BY <1>1, TablesInField
  <2>2. r' \in 0 .. TOTAL + WIDTH
    BY <1>1, Sizes
  <2> QED BY <1>1, <2>1, <2>2 DEF IInv, TypeOK
<1>3. TablesRight'
  <2>1. ~ initialized /\ \A k \in 0 .. TOTAL - 1 : k < r => ARK[k] = ArkTable[k]
    BY <1>1 DEF IInv, Right, TablesRight
  <2>2. \A k \in 0 .. TOTAL - 1 : k < r' => ARK'[k] = ArkTable[k]
    BY <1>1, <2>1
  <2>3. \A k \in Slot : ~ (k < r' - TOTAL)
    BY <1>1 DEF Slot
  <2> QED BY <1>1, <2>1, <2>2, <2>3 DEF TablesRight
<1>4. RoundsRight' /\ SpongeRight' /\ StreamRight' /\ LogRight'
  BY <1>1 DEF IInv, Right, RoundsRight, SpongeRight, StreamRight, LogRight, Permuting, Absorbing, Base
<1> QED BY <1>2, <1>3, <1>4 DEF IInv, Right

LEMMA InitMdsStep ==
  ASSUME IInv, InitMds
  PROVE  IInv'
<1> DEFINE k0 == r - TOTAL
<1>1. /\ UNCHANGED <<ARK, initialized, pc, arg, state, idx, e, off, absorbed, round, i, next, ret, out, log>>
      /\ r' = r + 1 /\ pc = "init" /\ r \in TOTAL .. TOTAL + WIDTH - 1 /\ TOTAL \in Nat
      /\ k0 \in Slot /\ MDS' = [MDS EXCEPT ![k0] = MdsTable[k0]] /\ MDS \in [Slot -> [Slot -> Field]]
  <2>1. r \in TOTAL .. TOTAL + WIDTH - 1 /\ TOTAL \in Nat /\ WIDTH \in Nat
    BY Sizes DEF InitMds
  <2>2. k0 \in Slot
    BY <2>1 DEF Slot
  <2>3. MdsTable[k0] = MdsRow(k0)
    BY <2>2 DEF MdsTable, MdsRow
  <2> QED BY <2>1, <2>2, <2>3 DEF InitMds, sponge, perm, history, IInv, TypeOK
<1>2. TypeOK'
  <2>1. MDS' \in [Slot -> [Slot -> Field]]
    <3> HIDE DEF k0
    <3> QED BY <1>1, TablesInField
  <2>2. r' \in 0 .. TOTAL + WIDTH
    BY <1>1, Sizes
  <2> QED BY <1>1, <2>1, <2>2 DEF IInv, TypeOK
<1>3. TablesRight'
  <2>1. /\ ~ initialized
        /\ \A k \in 0 .. TOTAL - 1 : k < r => ARK[k] = ArkTable[k]
        /\ \A k \in Slot : k < r - TOTAL => MDS[k] = MdsTable[k]
    BY <1>1 DEF IInv, Right, TablesRight
  <2>2. \A k \in 0 .. TOTAL - 1 : ARK[k] = ArkTable[k]
    BY <1>1, <2>1
  <2>3. \A k \in Slot : k < r' - TOTAL => k < k0 \/ k = k0
    BY <1>1, Sizes DEF Slot
  <2>4. \A k \in Slot : k < r' - TOTAL => MDS'[k] = MdsTable[k]
    BY <1>1, <2>1, <2>3
  <2> QED BY <1>1, <2>1, <2>2, <2>4 DEF TablesRight
<1>4. RoundsRight' /\ SpongeRight' /\ StreamRight' /\ LogRight'
  BY <1>1 DEF IInv, Right, RoundsRight, SpongeRight, StreamRight, LogRight, Permuting, Absorbing, Base
<1> QED BY <1>2, <1>3, <1>4 DEF IInv, Right

LEMMA InitializedStep ==
  ASSUME IInv, Initialized
  PROVE  IInv'
<1>1. /\ UNCHANGED <<ARK, MDS, r, arg, state, idx, e, off, absorbed, round, i, next, ret, out, log>>
      /\ initialized' = TRUE /\ pc = "init" /\ pc' = "start" /\ r = TOTAL + WIDTH
      /\ TOTAL \in Nat /\ WIDTH \in Nat
  BY Sizes DEF Initialized, sponge, perm, history
<1>2. TypeOK'
  BY <1>1 DEF IInv, TypeOK
<1>3. TablesRight'
  <2>1. ARK \in [0 .. TOTAL - 1 -> [Slot -> Field]] /\ MDS \in [Slot -> [Slot -> Field]]
    BY DEF IInv, TypeOK
  <2>2. \A k \in 0 .. TOTAL - 1 : ARK[k] = ArkTable[k]
    BY <1>1 DEF IInv, Right, TablesRight
  <2>3. \A k \in Slot : MDS[k] = MdsTable[k]
    BY <1>1 DEF IInv, Right, TablesRight, Slot
  <2>4. ARK = ArkTable
    <3>1. ARK = [k \in 0 .. TOTAL - 1 |-> ARK[k]]
      BY <2>1, Zenon
    <3>2. ArkTable = [k \in 0 .. TOTAL - 1 |-> ArkTable[k]]
      BY TablesInField, Zenon
    <3> QED BY <2>2, <3>1, <3>2, Zenon
  <2>5. MDS = MdsTable
    BY <2>1, <2>3, TablesInField
  <2> QED BY <1>1, <2>4, <2>5 DEF TablesRight
<1>4. RoundsRight' /\ SpongeRight' /\ StreamRight' /\ LogRight'
  BY <1>1 DEF IInv, Right, RoundsRight, SpongeRight, StreamRight, LogRight, Permuting, Absorbing, Base
<1> QED BY <1>2, <1>3, <1>4 DEF IInv, Right

(* One round of permute. *)
LEMMA PermutingFacts ==
  ASSUME IInv, pc \in Permuting
  PROVE  /\ round \in 0 .. TOTAL - 1 /\ round + 1 \in 0 .. TOTAL /\ state \in States
         /\ ARK = ArkTable /\ MDS = MdsTable /\ initialized /\ absorbed \in Seq(Field)
         /\ Base \in Vectors /\ After(Base, round) \in Vectors
<1>1. round \in 0 .. TOTAL - 1 /\ round + 1 \in 0 .. TOTAL /\ state \in States
  BY Sizes DEF IInv, TypeOK, Permuting, States
<1>2. ARK = ArkTable /\ MDS = MdsTable /\ initialized
  BY DEF IInv, Right, TablesRight, Permuting
<1>3. absorbed \in Seq(Field)
  BY DEF IInv, Right, StreamRight
<1>4. Base \in Vectors
  <2>1. 0 \in Field
    BY Sizes DEF Field
  <2> QED BY <1>3, <2>1, AbsorbNext DEF Base
<1>5. round \in 0 .. TOTAL
  BY <1>1, Sizes
<1>6. After(Base, round) \in Vectors
  BY <1>4, <1>5, AfterSteps
<1> QED BY <1>1, <1>2, <1>3, <1>4, <1>6

LEMMA AddRoundKeysStep ==
  ASSUME IInv, AddRoundKeys
  PROVE  IInv'
<1>1. /\ UNCHANGED <<ARK, MDS, initialized, r, arg, idx, e, off, absorbed, round, i, next, ret, out, log>>
      /\ pc = "ark" /\ pc' = "sbox" /\ pc \in Permuting
      /\ state' = [c \in Slot |-> fr_add(state[c], ARK[round][c])]
  BY DEF AddRoundKeys, tables, sponge, perm, history, Permuting
<1>2. /\ round \in 0 .. TOTAL - 1 /\ state \in States /\ ARK = ArkTable
      /\ After(Base, round) \in Vectors
  BY <1>1, PermutingFacts
<1>3. Shifted(state) = After(Base, round)
  BY <1>1 DEF IInv, Right, RoundsRight
<1> DEFINE s == After(Base, round)
<1>4. Keyed(s, round) \in Vectors
  BY <1>2, KeyedIn
<1>5. \A c \in Slot : state'[c] = Keyed(s, round)[c + 1]
  <2> SUFFICES ASSUME NEW c \in Slot PROVE state'[c] = Keyed(s, round)[c + 1]
    OBVIOUS
  <2>1. c + 1 \in 1 .. WIDTH /\ (c + 1) - 1 = c
    BY SlotNumbers
  <2>2. s[c + 1] = state[c]
    BY <1>2, <1>3, ShiftedIs
  <2> HIDE DEF s
  <2>3. Keyed(s, round)[c + 1] = (s[c + 1] + ArkTable[round][c]) % P
    BY <2>1 DEF Keyed
  <2> QED BY <1>1, <1>2, <2>2, <2>3 DEF fr_add
<1> HIDE DEF s
<1>6. state' \in [Slot -> Field]
  BY <1>1, <1>4, <1>5, SlotNumbers DEF Vectors
<1>7. Shifted(state') = Keyed(s, round)
  BY <1>4, <1>5, SlotNumbers DEF Shifted, Vectors
<1>8. TypeOK'
  BY <1>1, <1>6 DEF IInv, TypeOK
<1>9. TablesRight'
  BY <1>1 DEF IInv, Right, TablesRight
<1>10. RoundsRight'
  BY <1>1, <1>7 DEF RoundsRight, Base, s
<1>11. SpongeRight' /\ StreamRight' /\ LogRight'
  BY <1>1 DEF IInv, Right, SpongeRight, StreamRight, LogRight, Permuting, Absorbing, Chunks
<1> QED BY <1>8, <1>9, <1>10, <1>11 DEF IInv, Right

LEMMA SBoxStep ==
  ASSUME IInv, SBox
  PROVE  IInv'
<1>1. /\ UNCHANGED <<ARK, MDS, initialized, r, arg, idx, e, off, absorbed, round, next, ret, out, log>>
      /\ pc = "sbox" /\ pc' = "mds" /\ i' = 0 /\ pc \in Permuting
      /\ state' = [c \in Slot |-> IF is_full(round) \/ c = 0 THEN fr_pow5(state[c]) ELSE state[c]]
  BY DEF SBox, tables, sponge, perm, history, Permuting
<1>2. /\ round \in 0 .. TOTAL - 1 /\ state \in States /\ After(Base, round) \in Vectors
  BY <1>1, PermutingFacts
<1> DEFINE s == After(Base, round)
<1>3. Shifted(state) = Keyed(s, round)
  BY <1>1 DEF IInv, Right, RoundsRight
<1>4. Boxed(s, round) \in Vectors
  <2>1. Boxed(s, round) = BoxedBy(s, round, is_full(round))
    BY DEF Boxed, BoxedBy
  <2> QED BY <1>2, <2>1, BoxedIn
<1>5. \A c \in Slot : state'[c] = Boxed(s, round)[c + 1]
  <2> SUFFICES ASSUME NEW c \in Slot PROVE state'[c] = Boxed(s, round)[c + 1]
    OBVIOUS
  <2>1. c + 1 \in 1 .. WIDTH /\ (c + 1) - 1 = c
    BY SlotNumbers
  <2>2. c = 0 <=> c + 1 = 1
    BY Sizes DEF Slot
  <2>3. Keyed(s, round)[c + 1] = state[c]
    BY <1>2, <1>3, ShiftedIs
  <2> HIDE DEF s
  <2>4. Boxed(s, round)[c + 1] = IF is_full(round) \/ c + 1 = 1 THEN Rust!Pow5(Keyed(s, round)[c + 1])
                                                                ELSE Keyed(s, round)[c + 1]
    BY <2>1 DEF Boxed
  <2>5. Rust!Pow5(state[c]) = fr_pow5(state[c])
    BY DEF Rust!Pow5, fr_pow5
  <2>6. state'[c] = IF is_full(round) \/ c = 0 THEN fr_pow5(state[c]) ELSE state[c]
    BY <1>1
  <2> QED BY <2>2, <2>3, <2>4, <2>5, <2>6
<1> HIDE DEF s
<1>6. state' \in [Slot -> Field]
  BY <1>1, <1>4, <1>5, SlotNumbers DEF Vectors
<1>7. Shifted(state') = Boxed(s, round)
  BY <1>4, <1>5, SlotNumbers DEF Shifted, Vectors
<1>8. TypeOK'
  <2>1. 0 \in 0 .. WIDTH
    BY Sizes
  <2> QED BY <1>1, <1>6, <2>1 DEF IInv, TypeOK
<1>9. TablesRight'
  BY <1>1 DEF IInv, Right, TablesRight
<1>10. RoundsRight'
  <2>1. \A k \in 0 .. 0 - 1 : FALSE
    OBVIOUS
  <2> QED BY <1>1, <1>7, <2>1 DEF RoundsRight, Base, s
<1>11. SpongeRight' /\ StreamRight' /\ LogRight'
  BY <1>1 DEF IInv, Right, SpongeRight, StreamRight, LogRight, Permuting, Absorbing, Chunks
<1> QED BY <1>8, <1>9, <1>10, <1>11 DEF IInv, Right

LEMMA MixRowStep ==
  ASSUME IInv, MixRow
  PROVE  IInv'
<1>1. /\ UNCHANGED <<ARK, MDS, initialized, r, pc, arg, state, idx, e, off, absorbed, round, ret, out, log>>
      /\ pc = "mds" /\ pc \in Permuting /\ i < WIDTH /\ i \in 0 .. WIDTH /\ i' = i + 1
      /\ next \in [Slot -> Field] /\ next' = [next EXCEPT ![i] = MdsProduct(i)]
  BY DEF MixRow, tables, sponge, perm, history, Permuting, IInv, TypeOK
<1>2. state \in States /\ MDS = MdsTable
  BY <1>1, PermutingFacts
<1>3. i \in Slot /\ i' \in 0 .. WIDTH
  BY <1>1, Sizes DEF Slot
<1> DEFINE d(k) == Rust!Dot(MdsTable[k], Shifted(state))
<1>4. MdsProduct(i) = d(i) /\ d(i) \in Field
  <2>1. MDS[i] \in [Slot -> Field]
    BY <1>2, <1>3, TablesInField
  <2>2. MdsProduct(i) = Rust!Dot(MDS[i], Shifted(state))
    BY <1>2, <1>3, <2>1, MdsProductIs DEF States
  <2>3. Shifted(state) \in Vectors
    BY <1>2, ShiftedIs
  <2> QED BY <1>2, <2>1, <2>2, <2>3, DotInField
<1>5. \A k \in 0 .. i - 1 : next[k] = d(k)
  BY <1>1 DEF IInv, Right, RoundsRight
<1> HIDE DEF d
<1>6. \A k \in 0 .. i' - 1 : next'[k] = d(k)
  <2> SUFFICES ASSUME NEW k \in 0 .. i' - 1 PROVE next'[k] = d(k)
    OBVIOUS
  <2>1. k \in Slot /\ (k = i \/ k \in 0 .. i - 1)
    BY <1>1, Sizes DEF Slot
  <2> QED BY <1>1, <1>3, <1>4, <1>5, <2>1
<1>7. TypeOK'
  <2>1. next' \in [Slot -> Field]
    BY <1>1, <1>3, <1>4
  <2> QED BY <1>1, <1>3, <2>1 DEF IInv, TypeOK
<1>8. TablesRight'
  BY <1>1 DEF IInv, Right, TablesRight
<1>9. RoundsRight'
  <2>1. Shifted(state) = Boxed(After(Base, round), round)
    BY <1>1 DEF IInv, Right, RoundsRight
  <2> QED BY <1>1, <1>6, <2>1 DEF RoundsRight, Base, d
<1>10. SpongeRight' /\ StreamRight' /\ LogRight'
  BY <1>1 DEF IInv, Right, SpongeRight, StreamRight, LogRight, Permuting, Absorbing, Chunks
<1> QED BY <1>7, <1>8, <1>9, <1>10 DEF IInv, Right

LEMMA MixedStep ==
  ASSUME IInv, Mixed
  PROVE  IInv'
<1>1. /\ UNCHANGED <<ARK, MDS, initialized, r, arg, idx, e, off, absorbed, i, next, ret, out, log>>
      /\ pc = "mds" /\ pc \in Permuting /\ i = WIDTH /\ state' = next /\ next \in [Slot -> Field]
      /\ round' = round + 1 /\ pc' = (IF round + 1 < TOTAL THEN "ark" ELSE ret)
      /\ ret \in {"absorb", "squeeze"} /\ TOTAL \in Nat
  BY Sizes DEF Mixed, tables, sponge, history, Permuting, IInv, TypeOK
<1>2. /\ round \in 0 .. TOTAL - 1 /\ round + 1 \in 0 .. TOTAL /\ state \in States
      /\ initialized /\ Base \in Vectors /\ After(Base, round) \in Vectors
  BY <1>1, PermutingFacts
<1> DEFINE s == After(Base, round)
<1>3. Shifted(state) = BoxedBy(s, round, is_full(round))
  BY <1>1 DEF IInv, Right, RoundsRight, Boxed, BoxedBy
<1>4. \A k \in Slot : next[k] = Rust!Dot(MdsTable[k], Shifted(state))
  <2>1. Slot = 0 .. i - 1
    BY <1>1 DEF Slot
  <2> QED BY <1>1, <2>1 DEF IInv, Right, RoundsRight
<1>5. Shifted(next) = After(Base, round + 1)
  <2>1. Shifted(next) = [c \in 1 .. WIDTH |-> Rust!Dot(MdsTable[c - 1], Shifted(state))]
    BY <1>4, SlotNumbers DEF Shifted
  <2>2. Rust!Round(s, round, is_full(round))
          = [c \in 1 .. WIDTH |-> Rust!Dot(MdsTable[c - 1], BoxedBy(s, round, is_full(round)))]
    BY <1>2, RoundIs
  <2>3. After(Base, round + 1) = Rust!Round(s, round, is_full(round))
    BY <1>2, AfterSteps
  <2> QED BY <1>3, <2>1, <2>2, <2>3
<1> HIDE DEF s
<1>6. pc' \in {"ark", "absorb", "squeeze"}
  BY <1>1
<1>7. ASSUME pc' # "ark" PROVE pc' = ret /\ Shifted(state') = Rust!Permute(Base)
  <2>1. ~ (round + 1 < TOTAL)
    BY <1>1, <1>7
  <2>2. round + 1 = TOTAL /\ pc' = ret
    BY <1>1, <1>2, <2>1
  <2> QED BY <1>1, <1>2, <1>5, <2>2, PermuteIs
<1>8. ret = "absorb" => idx = 0 /\ Full(Len(absorbed)) /\ off \in Nat /\ arg.fn = "bytes"
                        /\ off = End(arg.v, Len(absorbed))
  BY <1>1 DEF IInv, Right, TypeOK, SpongeRight, StreamRight, Absorbing, Permuting, Chunks
<1>9. TypeOK'
  <2>1. pc' = "absorb" => off <= Len(arg.v)
    <3>1. SUFFICES ASSUME pc' = "absorb" PROVE off <= Len(arg.v)
      OBVIOUS
    <3>2. off = End(arg.v, Len(absorbed)) /\ arg.fn = "bytes" /\ arg \in Args
      BY <1>1, <1>7, <1>8, <3>1 DEF IInv, TypeOK
    <3>3. Len(arg.v) \in Nat
      BY <3>2, ArgIs, PackIs
    <3>4. Len(absorbed) * CHUNK \in Int
      <4>1. Len(absorbed) \in Nat
        BY <1>1, PermutingFacts
      <4> QED BY <4>1, Sizes
    <3> QED BY <3>2, <3>3, <3>4 DEF End
  <2>2. pc' \in {"ark", "sbox", "mds"} => round' < TOTAL
    BY <1>1
  <2> QED BY <1>1, <1>2, <1>6, <2>1, <2>2 DEF IInv, TypeOK
<1>10. TablesRight'
  BY <1>1, <1>2, <1>6 DEF IInv, Right, TablesRight
<1>11. RoundsRight'
  BY <1>1, <1>5, <1>6 DEF RoundsRight, Base
<1>12. SpongeRight'
  <2>1. pc' = "absorb" => Shifted(state') = Rust!Permute(Base) /\ idx = 0 /\ Full(Len(absorbed))
    BY <1>7, <1>8
  <2>2. pc' = "ark" /\ ret = "absorb" => idx = 0 /\ Full(Len(absorbed))
    BY <1>8
  <2>3. pc' = "squeeze" => Shifted(state') = Rust!Permute(Base)
    BY <1>7
  <2> QED BY <1>1, <1>6, <2>1, <2>2, <2>3 DEF SpongeRight, Permuting, Base
<1>13. StreamRight' /\ LogRight'
  BY <1>1, <1>6, <1>7 DEF IInv, Right, StreamRight, LogRight, Permuting, Absorbing, Chunks
<1> QED BY <1>9, <1>10, <1>11, <1>12, <1>13 DEF IInv, Right

(* The two hashes. *)
LEMMA OneElement ==
  ASSUME NEW x \in Field
  PROVE  Rust!Absorbed(<<x>>) = [Nought EXCEPT ![2] = x]
<1> DEFINE v == <<>>
<1>1. v \in Seq(Field) /\ Len(v) = 0 /\ Append(v, x) = <<x>>
  OBVIOUS
<1>2. ~ Full(0) /\ 0 % RATE = 0
  <2>1. 0 \in Int /\ 0 = 0 * RATE + 0 /\ 0 \in 0 .. RATE - 1 /\ RATE \in Nat \ {0}
    BY Sizes
  <2>2. 0 % RATE = 0
    BY <2>1, Divides
  <2> QED BY <2>2 DEF Full
<1>3. Rust!Absorbed(v) = Nought
  BY AbsorbNothing
<1> HIDE DEF v
<1>4. Rust!Absorbed(Append(v, x)) = [Rust!Absorbed(v) EXCEPT ![(Len(v) % RATE) + 2] = (@ + x) % P]
  BY <1>1, <1>2, AbsorbNext
<1>5. Rust!Absorbed(<<x>>) = [Nought EXCEPT ![2] = (@ + x) % P]
  <2>1. (Len(v) % RATE) + 2 = 2
    BY <1>1, <1>2
  <2> QED BY <1>1, <1>3, <1>4, <2>1
<1>6. Nought[2] = 0 /\ (0 + x) % P = x
  BY Sizes, OwnRemainder DEF Nought, Field
<1> QED BY <1>5, <1>6

LEMMA StartFrStep ==
  ASSUME IInv, StartFr
  PROVE  IInv'
<1>1. /\ UNCHANGED <<ARK, MDS, initialized, r, arg, idx, e, off, i, next, out, log>>
      /\ pc = "start" /\ pc' = "ark" /\ round' = 0 /\ ret' = "squeeze" /\ arg.fn = "fr"
      /\ state' = [Zeros EXCEPT ![1] = arg.v[1]] /\ absorbed' = arg.v /\ arg \in Args
  BY DEF StartFr, Permute, tables, history, IInv, TypeOK
<1>2. PICK x \in Elements : arg.v = <<x>>
  BY <1>1, ArgIs
<1>3. x \in Field /\ arg.v[1] = x /\ <<x>> \in Seq(Field)
  <2>1. x \in Field
    BY PoseidonAssumption
  <2> QED BY <1>2, <2>1
<1>4. state' \in States /\ Shifted(state') = [Nought EXCEPT ![2] = x]
  <2>1. 0 \in Field /\ 1 \in Slot /\ \A c \in Slot : c + 1 = 2 <=> c = 1
    BY Sizes DEF Field, Slot
  <2>2. state' \in States
    BY <1>1, <1>3, <2>1 DEF Zeros, States
  <2>3. \A c \in 1 .. WIDTH : c - 1 \in Slot /\ (c - 1 = 1 <=> c = 2)
    BY SlotNumbers
  <2>4. \A c \in 1 .. WIDTH : state'[c - 1] = IF c = 2 THEN x ELSE 0
    BY <1>1, <1>3, <2>3 DEF Zeros
  <2> QED BY <2>2, <2>4 DEF Shifted, Nought
<1>5. Rust!Absorbed(absorbed') = Shifted(state')
  BY <1>1, <1>2, <1>3, <1>4, OneElement
<1>6. After(Rust!Absorbed(absorbed'), 0) = Rust!Absorbed(absorbed')
  <2>1. Shifted(state') \in Vectors
    BY <1>4, ShiftedIs
  <2> QED BY <1>5, <2>1, AfterSteps
<1>7. TypeOK'
  <2>1. 0 \in 0 .. TOTAL /\ 0 < TOTAL
    BY Sizes
  <2> QED BY <1>1, <1>4, <2>1 DEF IInv, TypeOK, States
<1>8. TablesRight' /\ LogRight'
  BY <1>1 DEF IInv, Right, TablesRight, LogRight
<1>9. RoundsRight' /\ SpongeRight'
  BY <1>1, <1>5, <1>6 DEF RoundsRight, SpongeRight, Base
<1>10. StreamRight'
  BY <1>1, <1>2, <1>3 DEF StreamRight, Absorbing, Permuting, ElementsOf
<1> QED BY <1>7, <1>8, <1>9, <1>10 DEF IInv, Right

LEMMA StartBytesStep ==
  ASSUME IInv, StartBytes
  PROVE  IInv'
<1>1. /\ UNCHANGED <<ARK, MDS, initialized, r, arg, absorbed, round, i, next, ret, out, log>>
      /\ pc = "start" /\ pc' = "absorb" /\ arg.fn = "bytes"
      /\ state' = Zeros /\ idx' = 0 /\ off' = 0 /\ e' = Len(arg.v) /\ arg \in Args
  BY DEF StartBytes, tables, perm, history, LengthElement, IInv, TypeOK
<1>2. arg.v \in Messages /\ absorbed = <<>>
  BY <1>1, ArgIs DEF IInv, Right, StreamRight
<1>3. /\ Rust!Pack(arg.v) \in Seq(Field) /\ Len(Rust!Pack(arg.v)) = Chunked(Len(arg.v)) + 1
      /\ Rust!Pack(arg.v)[1] = Len(arg.v) /\ Len(arg.v) \in Field /\ Len(arg.v) \in Nat
  BY <1>2, PackIs
<1>4. Chunked(Len(arg.v)) \in Nat
  BY <1>3, ChunkCount
<1>5. state' \in States /\ Shifted(state') = Nought
  <2>1. 0 \in Field /\ \A c \in 1 .. WIDTH : c - 1 \in Slot
    BY Sizes, SlotNumbers DEF Field
  <2> QED BY <1>1, <2>1 DEF Zeros, States, Shifted, Nought
<1>6. TypeOK'
  <2>1. 0 \in 0 .. RATE /\ 0 \in Nat /\ 0 <= Len(arg.v)
    BY <1>3, Sizes
  <2> QED BY <1>1, <1>3, <1>5, <2>1 DEF IInv, TypeOK, States
<1>7. TablesRight' /\ LogRight'
  BY <1>1 DEF IInv, Right, TablesRight, LogRight
<1>8. RoundsRight'
  BY <1>1 DEF RoundsRight
<1>9. SpongeRight'
  <2>1. Len(<<>>) = 0 /\ Position(0) = 0
    BY DEF Position
  <2> QED BY <1>1, <1>2, <1>5, <2>1, AbsorbNothing DEF SpongeRight, Base, Permuting
<1>10. StreamRight'
  <2>1. <<>> \in Seq(Field) /\ Len(<<>>) = 0
    OBVIOUS
  <2>2. IsPrefix(<<>>, Rust!Pack(arg.v))
    <3> DEFINE s == <<>>
    <3>1. s \in Seq(Field) /\ Len(s) = 0
      OBVIOUS
    <3> HIDE DEF s
    <3>2. Rust!Pack(arg.v) \in Seq(Field) /\ Len(s) <= Len(Rust!Pack(arg.v))
      BY <1>3, <1>4, <3>1
    <3>3. \A j \in 1 .. Len(s) : s[j] = Rust!Pack(arg.v)[j]
      BY <3>1
    <3>4. IsPrefix(s, Rust!Pack(arg.v))
      BY <3>1, <3>2, <3>3, PrefixIs
    <3> QED BY <3>4 DEF s
  <2>3. 0 = End(arg.v, 0)
    <3>1. 0 * CHUNK = 0
      BY Sizes
    <3> QED BY <1>3, <3>1 DEF End
  <2>4. 0 < Len(Rust!Pack(arg.v)) /\ 0 + 1 = 1
    BY <1>3, <1>4
  <2> QED BY <1>1, <1>2, <1>3, <2>1, <2>2, <2>3, <2>4 DEF StreamRight, Absorbing, Permuting, Chunks
<1> QED BY <1>6, <1>7, <1>8, <1>9, <1>10 DEF IInv, Right

(* What holds wherever the loop over the chunks can be. *)
LEMMA AbsorbingFacts ==
  ASSUME IInv, pc \in {"absorb", "load"}
  PROVE  /\ arg \in Args /\ arg.fn = "bytes" /\ arg.v \in Messages /\ arg.v \in Bytes
         /\ Rust!Pack(arg.v) \in Seq(Field) /\ Len(Rust!Pack(arg.v)) = Chunked(Len(arg.v)) + 1
         /\ absorbed \in Seq(Field) /\ IsPrefix(absorbed, Rust!Pack(arg.v))
         /\ Len(absorbed) \in Nat /\ Len(arg.v) \in Nat /\ Chunked(Len(arg.v)) \in Nat
         /\ off = End(arg.v, Chunks) /\ state \in States /\ Base \in Vectors
<1>1. /\ arg \in Args /\ arg.fn = "bytes" /\ absorbed \in Seq(Field) /\ state \in States
      /\ IsPrefix(absorbed, Rust!Pack(arg.v)) /\ off = End(arg.v, Chunks)
  BY DEF IInv, Right, TypeOK, StreamRight, Absorbing, States
<1>2. arg.v \in Messages
  BY <1>1, ArgIs
<1>3. /\ Rust!Pack(arg.v) \in Seq(Field) /\ Len(Rust!Pack(arg.v)) = Chunked(Len(arg.v)) + 1
      /\ arg.v \in Bytes /\ Len(arg.v) \in Nat
  BY <1>2, PackIs
<1>4. Base \in Vectors
  <2>1. 0 \in Field
    BY Sizes DEF Field
  <2> QED BY <1>1, <2>1, AbsorbNext DEF Base
<1>5. Chunked(Len(arg.v)) \in Nat
  BY <1>3, ChunkCount
<1> QED BY <1>1, <1>2, <1>3, <1>4, <1>5

(* Adding to slot n of the C state is adding to slot n + 1 of the Rust one. *)
LEMMA AddShifted ==
  ASSUME NEW s \in States, NEW n \in Slot, NEW x \in Field
  PROVE  /\ [s EXCEPT ![n] = fr_add(@, x)] \in States
         /\ Shifted([s EXCEPT ![n] = fr_add(@, x)]) = [Shifted(s) EXCEPT ![n + 1] = (@ + x) % P]
<1> DEFINE t == [s EXCEPT ![n] = fr_add(@, x)]
           y == (s[n] + x) % P
<1>1. y \in Field
  <2> DEFINE z == s[n] + x
  <2>1. z \in Int
    BY Sizes DEF States, Field
  <2> HIDE DEF z
  <2> QED BY <2>1, InField DEF z
<1>2. t = [s EXCEPT ![n] = y]
  BY DEF fr_add
<1>3. Shifted(s)[n + 1] = s[n] /\ Shifted(s) \in Vectors
  BY ShiftedIs
<1> HIDE DEF t
<1>4. [Shifted(s) EXCEPT ![n + 1] = (@ + x) % P] = [Shifted(s) EXCEPT ![n + 1] = y]
  BY <1>3
<1> HIDE DEF y
<1>5. t \in States
  BY <1>1, <1>2 DEF States
<1>6. \A c \in 1 .. WIDTH : c - 1 \in Slot /\ (c - 1 = n <=> c = n + 1)
  BY SlotNumbers DEF Slot
<1>7. \A c \in 1 .. WIDTH : t[c - 1] = IF c = n + 1 THEN y ELSE s[c - 1]
  BY <1>2, <1>6 DEF States
<1>8. Shifted(t) = [Shifted(s) EXCEPT ![n + 1] = y]
  BY <1>7 DEF Shifted
<1> QED BY <1>4, <1>5, <1>8 DEF t

LEMMA AbsorbStep ==
  ASSUME IInv, sponge_absorb
  PROVE  IInv'
<1>1. /\ UNCHANGED <<ARK, MDS, initialized, r, arg, e, off, i, next, out, log>> /\ pc = "absorb"
  BY DEF sponge_absorb, Permute, tables, perm, history
<1>2. /\ arg \in Args /\ arg.fn = "bytes" /\ arg.v \in Messages /\ arg.v \in Bytes
      /\ Rust!Pack(arg.v) \in Seq(Field)
      /\ absorbed \in Seq(Field) /\ IsPrefix(absorbed, Rust!Pack(arg.v))
      /\ Len(absorbed) \in Nat /\ off = End(arg.v, Len(absorbed)) /\ state \in States /\ Base \in Vectors
  BY <1>1, AbsorbingFacts DEF Chunks
<1> DEFINE n == Len(absorbed)
<1>3. \/ Shifted(state) = Base /\ idx = Position(n)
      \/ Shifted(state) = Rust!Permute(Base) /\ idx = 0 /\ Full(n)
  BY <1>1 DEF IInv, Right, SpongeRight
<1>4. n < Len(Rust!Pack(arg.v)) /\ e = Rust!Pack(arg.v)[n + 1] /\ e \in Field /\ idx \in 0 .. RATE
      /\ off <= Len(arg.v)
  BY <1>1 DEF IInv, Right, TypeOK, StreamRight, Absorbing
<1>5. /\ Position(n + 1) = (n % RATE) + 1 /\ n % RATE \in 0 .. RATE - 1
      /\ ~ Full(n) => Position(n) = n % RATE
      /\ Full(n) => Position(n) = RATE /\ n % RATE = 0
  BY <1>2, PositionIs
<1>6. RATE \in Nat \ {0} /\ RATE = WIDTH - 1 /\ TOTAL \in Nat \ {0}
  BY Sizes
<1>7. TablesRight' /\ LogRight'
  <2>1. pc' \in {"ark", "load"}
    BY DEF sponge_absorb, Permute
  <2> QED BY <1>1, <2>1 DEF IInv, Right, TablesRight, LogRight
<1>8. CASE RateFull
  <2>1. /\ pc' = "ark" /\ round' = 0 /\ ret' = "absorb" /\ idx' = 0 /\ UNCHANGED <<state, absorbed>>
    BY <1>8 DEF sponge_absorb, Permute, ResetIdx
  <2>2. idx = RATE
    BY <1>6, <1>8 DEF RateFull
  <2>3. Shifted(state) = Base /\ Full(n)
    BY <1>3, <1>4, <1>5, <1>6, <2>2
  <2>4. After(Base, 0) = Base
    BY <1>2, AfterSteps
  <2>5. TypeOK'
    <3>1. 0 \in 0 .. RATE /\ 0 \in 0 .. TOTAL /\ 0 < TOTAL
      BY <1>6
    <3> QED BY <1>1, <2>1, <3>1 DEF IInv, TypeOK
  <2>6. RoundsRight'
    BY <2>1, <2>3, <2>4 DEF RoundsRight, Base
  <2>7. SpongeRight'
    BY <2>1, <2>3 DEF SpongeRight
  <2>8. StreamRight'
    BY <1>1, <2>1 DEF IInv, Right, StreamRight, Absorbing, Permuting, Chunks
  <2> QED BY <1>7, <2>5, <2>6, <2>7, <2>8 DEF IInv, Right
<1>9. CASE ~ RateFull
  <2>1. /\ state' = [state EXCEPT ![1 + idx] = fr_add(@, e)] /\ idx' = idx + 1 /\ pc' = "load"
        /\ absorbed' = Append(absorbed, e) /\ UNCHANGED <<round, ret>>
    BY <1>9 DEF sponge_absorb, perm
  <2>2. idx # RATE /\ 1 + idx \in Slot /\ (1 + idx) + 1 = idx + 2 /\ idx + 1 \in 0 .. RATE
    BY <1>4, <1>6, <1>9 DEF RateFull, Slot
  <2>3. state' \in States /\ Shifted(state') = [Shifted(state) EXCEPT ![idx + 2] = (@ + e) % P]
    <3> DEFINE c == 1 + idx
    <3>1. c \in Slot /\ state \in States /\ e \in Field /\ c + 1 = idx + 2
      BY <1>2, <1>4, <2>2
    <3>2. state' = [state EXCEPT ![c] = fr_add(@, e)]
      BY <2>1
    <3> HIDE DEF c
    <3>3. /\ [state EXCEPT ![c] = fr_add(@, e)] \in States
          /\ Shifted([state EXCEPT ![c] = fr_add(@, e)]) = [Shifted(state) EXCEPT ![c + 1] = (@ + e) % P]
      BY <3>1, AddShifted
    <3> QED BY <3>1, <3>2, <3>3
  <2>4. Shifted(state') = Rust!Absorbed(absorbed') /\ idx + 1 = Position(n + 1)
    <3>1. CASE Shifted(state) = Base /\ idx = Position(n)
      <4>1. ~ Full(n) /\ idx = n % RATE
        BY <1>5, <2>2, <3>1
      <4>2. Rust!Absorbed(Append(absorbed, e))
              = [Rust!Absorbed(absorbed) EXCEPT ![(n % RATE) + 2] = (@ + e) % P]
        BY <1>2, <1>4, <4>1, AbsorbNext
      <4> QED BY <1>5, <2>1, <2>3, <3>1, <4>1, <4>2 DEF Base
    <3>2. CASE Shifted(state) = Rust!Permute(Base) /\ idx = 0 /\ Full(n)
      <4>1. Rust!Absorbed(Append(absorbed, e))
              = [Rust!Permute(Rust!Absorbed(absorbed)) EXCEPT ![2] = (@ + e) % P]
        BY <1>2, <1>4, <3>2, AbsorbNext
      <4>2. idx + 2 = 2 /\ n % RATE = 0
        BY <1>5, <3>2
      <4> QED BY <1>5, <2>1, <2>3, <3>2, <4>1, <4>2 DEF Base
    <3> QED BY <1>3, <3>1, <3>2
  <2>5. absorbed' \in Seq(Field) /\ Len(absorbed') = n + 1
    BY <1>2, <1>4, <2>1
  <2>6. TypeOK'
    BY <1>1, <1>4, <2>1, <2>2, <2>3 DEF IInv, TypeOK, States
  <2>7. RoundsRight'
    BY <2>1 DEF RoundsRight
  <2>8. SpongeRight'
    BY <1>2, <2>1, <2>4, <2>5 DEF SpongeRight, Base, Permuting
  <2>9. StreamRight'
    <3>1. IsPrefix(absorbed', Rust!Pack(arg.v))
      BY <1>2, <1>4, <2>1, PrefixGrows
    <3>2. Len(absorbed') - 1 = n
      BY <1>2, <2>5
    <3> QED BY <1>1, <1>2, <2>1, <2>5, <3>1, <3>2 DEF StreamRight, Absorbing, Permuting, Chunks
  <2> QED BY <1>7, <2>6, <2>7, <2>8, <2>9 DEF IInv, Right
<1> QED BY <1>8, <1>9

LEMMA LoadChunkStep ==
  ASSUME IInv, LoadChunk
  PROVE  IInv'
<1> DEFINE m == arg.v
           k == Len(absorbed) - 1
           l == ChunkLen(Len(m) - off)
<1>1. /\ UNCHANGED <<ARK, MDS, initialized, r, arg, state, idx, absorbed, round, i, next, ret, out, log>>
      /\ pc = "load" /\ pc' = "absorb" /\ off < Len(m)
      /\ e' = fr_from_be(Buffer(m, off, l)) /\ off' = off + l
  BY DEF LoadChunk, tables, perm, history
<1>2. /\ arg \in Args /\ arg.fn = "bytes" /\ m \in Messages /\ m \in Bytes
      /\ Rust!Pack(m) \in Seq(Field) /\ Len(Rust!Pack(m)) = Chunked(Len(m)) + 1
      /\ absorbed \in Seq(Field) /\ IsPrefix(absorbed, Rust!Pack(m))
      /\ Len(absorbed) \in Nat /\ Len(m) \in Nat /\ Chunked(Len(m)) \in Nat
      /\ off = End(m, k) /\ state \in States
  BY <1>1, AbsorbingFacts DEF Chunks
<1>3. Shifted(state) = Base /\ idx = Position(Len(absorbed)) /\ Len(absorbed) > 0
  BY <1>1 DEF IInv, Right, SpongeRight
<1>4. k \in Nat /\ k + 1 = Len(absorbed)
  BY <1>2, <1>3
<1>5. k * CHUNK < Len(m) /\ off = k * CHUNK
  BY <1>1, <1>2 DEF End
<1>6. /\ k * CHUNK \in Nat /\ l \in 1 .. CHUNK /\ off + l <= Len(m) /\ End(m, k + 1) = off + l
  BY <1>2, <1>4, <1>5, EndIs
<1>7. e' = Rust!FromBytes(ChunkAt(m, k + 1)) /\ e' \in Field
  BY <1>1, <1>2, <1>4, <1>5, NextChunk
<1>8. k + 1 \in 1 .. Chunked(Len(m))
  <2>1. k + 1 \in Nat \ {0} /\ (k + 1) - 1 = k
    BY <1>4
  <2>2. k + 1 <= Chunked(Len(m)) <=> ((k + 1) - 1) * CHUNK < Len(m)
    BY <1>2, <2>1, ChunkCount
  <2> QED BY <1>2, <1>4, <1>5, <2>1, <2>2
<1>9. e' = Rust!Pack(m)[Len(absorbed) + 1] /\ Len(absorbed) < Len(Rust!Pack(m))
  <2>1. Rust!Pack(m)[(k + 1) + 1] = Rust!FromBytes(ChunkAt(m, k + 1))
    BY <1>2, <1>8, PackIs
  <2> QED BY <1>2, <1>4, <1>7, <1>8, <2>1
<1> HIDE DEF k, l
<1>10. TypeOK'
  <2>1. off' \in Nat /\ off' <= Len(m)
    BY <1>1, <1>5, <1>6
  <2> QED BY <1>1, <1>7, <2>1 DEF IInv, TypeOK
<1>11. TablesRight' /\ LogRight'
  BY <1>1 DEF IInv, Right, TablesRight, LogRight
<1>12. RoundsRight' /\ SpongeRight'
  BY <1>1, <1>3 DEF RoundsRight, SpongeRight, Base, Permuting
<1>13. StreamRight'
  <2>1. off' = End(m, Len(absorbed))
    BY <1>1, <1>4, <1>6
  <2> QED BY <1>1, <1>2, <1>9, <2>1 DEF StreamRight, Absorbing, Permuting, Chunks
<1> QED BY <1>10, <1>11, <1>12, <1>13 DEF IInv, Right

(* Nothing is left: the elements are all of pack(data). *)
LEMMA AllAbsorbed ==
  ASSUME IInv, pc = "load", off >= Len(arg.v)
  PROVE  absorbed = ElementsOf(arg)
<1> DEFINE m == arg.v
           k == Len(absorbed) - 1
<1>1. /\ arg \in Args /\ arg.fn = "bytes" /\ m \in Messages
      /\ Rust!Pack(m) \in Seq(Field) /\ Len(Rust!Pack(m)) = Chunked(Len(m)) + 1
      /\ absorbed \in Seq(Field) /\ IsPrefix(absorbed, Rust!Pack(m))
      /\ Len(absorbed) \in Nat /\ Len(m) \in Nat /\ Chunked(Len(m)) \in Nat
      /\ off = End(m, k)
  BY AbsorbingFacts DEF Chunks
<1>2. Len(absorbed) > 0
  BY DEF IInv, Right, SpongeRight
<1>3. k \in Nat /\ k + 1 = Len(absorbed) /\ k + 1 \in Nat \ {0} /\ (k + 1) - 1 = k
  BY <1>1, <1>2
<1>4. ~ (k * CHUNK < Len(m))
  <2>1. k * CHUNK \in Int
    BY <1>3, Sizes
  <2> QED BY <1>1, <2>1 DEF End
<1>5. k + 1 <= Chunked(Len(m)) <=> ((k + 1) - 1) * CHUNK < Len(m)
  BY <1>1, <1>3, ChunkCount
<1>6. Len(absorbed) <= Len(Rust!Pack(m))
  BY <1>1, PrefixIs
<1>7. Len(absorbed) = Len(Rust!Pack(m))
  BY <1>1, <1>3, <1>4, <1>5, <1>6
<1>8. absorbed = Rust!Pack(m)
  BY <1>1, <1>7, WholePrefix
<1> QED BY <1>1, <1>8 DEF ElementsOf

LEMMA LastPermuteStep ==
  ASSUME IInv, LastPermute
  PROVE  IInv'
<1>1. /\ UNCHANGED <<ARK, MDS, initialized, r, arg, state, idx, e, off, absorbed, i, next, out, log>>
      /\ pc = "load" /\ pc' = "ark" /\ round' = 0 /\ ret' = "squeeze" /\ off >= Len(arg.v)
  BY DEF LastPermute, Permute, tables, sponge, history
<1>2. absorbed = ElementsOf(arg)
  BY <1>1, AllAbsorbed
<1>3. Shifted(state) = Base /\ Base \in Vectors /\ absorbed \in Seq(Field)
  BY <1>1, AbsorbingFacts DEF IInv, Right, SpongeRight
<1>4. After(Base, 0) = Base
  BY <1>3, AfterSteps
<1>5. TypeOK'
  <2>1. 0 \in 0 .. TOTAL /\ 0 < TOTAL
    BY Sizes
  <2> QED BY <1>1, <2>1 DEF IInv, TypeOK
<1>6. TablesRight' /\ LogRight'
  BY <1>1 DEF IInv, Right, TablesRight, LogRight
<1>7. RoundsRight' /\ SpongeRight'
  BY <1>1, <1>3, <1>4 DEF RoundsRight, SpongeRight, Base
<1>8. StreamRight'
  BY <1>1, <1>2, <1>3 DEF StreamRight, Absorbing, Permuting, ElementsOf
<1> QED BY <1>5, <1>6, <1>7, <1>8 DEF IInv, Right

LEMMA SqueezeStep ==
  ASSUME IInv, Squeeze
  PROVE  IInv' /\ out' = Rust!Sponge(ElementsOf(arg)) /\ arg \in Args
<1>1. /\ UNCHANGED <<ARK, MDS, initialized, r, state, idx, e, off, absorbed, round, i, next, ret>>
      /\ pc = "squeeze" /\ pc' = "idle" /\ arg' = NoArg /\ out' = state[1]
      /\ log' = log \cup {[arg |-> arg, absorbed |-> absorbed]} /\ arg \in Args /\ state \in States
  BY DEF Squeeze, tables, sponge, perm, IInv, TypeOK, States
<1>2. Shifted(state) = Rust!Permute(Base) /\ absorbed = ElementsOf(arg) /\ absorbed \in Seq(Field)
  BY <1>1 DEF IInv, Right, SpongeRight, StreamRight
<1>3. 1 \in Slot /\ 1 + 1 = 2
  BY Sizes DEF Slot
<1>4. out' = Rust!Permute(Rust!Absorbed(ElementsOf(arg)))[2] /\ out' \in Field
  BY <1>1, <1>2, <1>3, ShiftedIs DEF Base, States
<1>5. TypeOK'
  BY <1>1, <1>4 DEF IInv, TypeOK
<1>6. LogRight'
  BY <1>1, <1>2 DEF IInv, Right, LogRight
<1>7. TablesRight' /\ RoundsRight' /\ SpongeRight' /\ StreamRight'
  BY <1>1, <1>2 DEF IInv, Right, TablesRight, RoundsRight, SpongeRight, StreamRight, Permuting, Absorbing
<1> QED BY <1>1, <1>4, <1>5, <1>6, <1>7 DEF IInv, Right, Rust!Sponge

-----------------------------------------------------------------------------
(* The packing: which messages have the same *)

LEMMA Powers ==
  \A k \in 0 .. CHUNK : BYTE^k \in Nat \ {0}
<1> DEFINE T == {k \in 0 .. CHUNK : BYTE^k \in Nat \ {0}}
<1>1. CHUNK \in Nat /\ BYTE \in Nat \ {0}
  BY Sizes
<1>2. 0 \in T
  BY <1>1, ChunkAssumption
<1>3. ASSUME NEW k \in 0 .. CHUNK - 1, k \in T PROVE k + 1 \in T
  <2> DEFINE x == BYTE^k
             y == BYTE^(k + 1)
  <2>1. x \in Nat \ {0} /\ y = BYTE * x /\ k + 1 \in 0 .. CHUNK
    BY <1>1, <1>3, ChunkAssumption
  <2>2. y \in Nat \ {0}
    <3> HIDE DEF x, y
    <3> QED BY <1>1, <2>1
  <2> QED BY <2>1, <2>2
<1> HIDE DEF T
<1>4. \A k \in 0 .. CHUNK : k \in T
  BY <1>1, <1>2, <1>3, UpTo
<1> QED BY <1>4 DEF T

LEMMA PowersFit ==
  ASSUME NEW j \in 0 .. CHUNK
  PROVE  BYTE^j <= P
<1> DEFINE q == [k \in 0 .. CHUNK |-> BYTE^k]
           T == {k \in 0 .. CHUNK : k < j \/ q[j] <= q[k]}
<1>1. CHUNK \in Nat /\ BYTE \in Nat \ {0} /\ P \in Nat
  BY Sizes
<1>2. q \in [0 .. CHUNK -> Nat \ {0}] /\ q[CHUNK] <= P /\ q[j] = BYTE^j
      /\ \A k \in 0 .. CHUNK - 1 : q[k + 1] = BYTE * q[k]
  <2>1. q \in [0 .. CHUNK -> Nat \ {0}]
    BY Powers
  <2>2. q[CHUNK] = BYTE^CHUNK /\ q[j] = BYTE^j
    BY <1>1
  <2>3. ASSUME NEW k \in 0 .. CHUNK - 1 PROVE q[k + 1] = BYTE * q[k]
    <3>1. k \in 0 .. CHUNK /\ k + 1 \in 0 .. CHUNK
      BY <1>1
    <3>2. q[k] = BYTE^k /\ q[k + 1] = BYTE^(k + 1)
      BY <3>1
    <3> QED BY <3>2, ChunkAssumption
  <2>4. q[CHUNK] <= P
    BY <2>2, ChunkAssumption
  <2> HIDE DEF q
  <2> QED BY <2>1, <2>2, <2>3, <2>4
<1> HIDE DEF q
<1>3. 0 \in T
  BY <1>1, <1>2
<1>4. ASSUME NEW k \in 0 .. CHUNK - 1, k \in T PROVE k + 1 \in T
  <2> DEFINE x == q[k]
             y == q[k + 1]
  <2>1. k \in 0 .. CHUNK /\ k + 1 \in 0 .. CHUNK
    BY <1>1
  <2>2. x \in Nat \ {0} /\ y \in Nat /\ y = BYTE * x /\ q[j] \in Nat
    BY <1>2, <2>1
  <2>3. x <= y
    <3> HIDE DEF x, y
    <3>1. (BYTE - 1) * x >= 0 /\ (BYTE - 1) * x = BYTE * x - x
      BY <1>1, <2>2
    <3> QED BY <1>1, <2>2, <3>1
  <2>4. CASE k < j
    BY <2>1, <2>2, <2>3, <2>4
  <2>5. CASE ~ (k < j)
    <3>1. q[j] <= x
      BY <1>4, <2>5
    <3>2. q[j] <= y
      <4> HIDE DEF x, y
      <4> QED BY <2>2, <2>3, <3>1
    <3> QED BY <2>1, <3>2
  <2> QED BY <2>4, <2>5
<1> HIDE DEF T
<1>5. \A k \in 0 .. CHUNK : k \in T
  BY <1>1, <1>3, <1>4, UpTo
<1>6. CHUNK \in T /\ ~ (CHUNK < j)
  BY <1>1, <1>5
<1>7. q[j] <= q[CHUNK] /\ q[j] \in Nat /\ q[CHUNK] \in Nat
  BY <1>1, <1>2, <1>6 DEF T
<1> QED BY <1>1, <1>2, <1>7

LEMMA NextDigitFits ==
  ASSUME NEW x \in Nat, NEW y \in Nat, x < y, NEW d \in 0 .. BYTE - 1
  PROVE  x * BYTE + d < BYTE * y
<1>0. BYTE \in Nat \ {0}
  BY Sizes
<1>1. (y - 1 - x) * BYTE >= 0
  BY <1>0
<1>2. (y - 1 - x) * BYTE = BYTE * y - BYTE - x * BYTE
  BY <1>0
<1>3. x * BYTE \in Int /\ BYTE * y \in Int
  BY <1>0
<1> QED BY <1>0, <1>1, <1>2, <1>3

(* A chunk needs no reduction. *)
LEMMA ChunkFits ==
  ASSUME NEW s \in Bytes, Len(s) <= CHUNK
  PROVE  Value(s) \in Field /\ Rust!FromBytes(s) = Value(s)
<1> DEFINE n == Len(s)
<1>1. s \in Seq(Nat) /\ n \in Nat /\ n \in 0 .. CHUNK /\ CHUNK \in Nat
      /\ \A k \in 1 .. n : s[k] \in 0 .. BYTE - 1
  BY BytesAreNumbers, Sizes DEF Bytes
<1>2. PICK f : /\ f \in [0 .. Len(s) -> Nat] /\ f[0] = 0
               /\ \A k \in 0 .. Len(s) - 1 : f[k + 1] = f[k] * BYTE + s[k + 1]
               /\ Value(s) = f[Len(s)]
  BY <1>1, ValueFold
<1> DEFINE T == {k \in 0 .. n : f[k] < BYTE^k}
<1> HIDE DEF n
<1>3. 0 \in T
  BY <1>1, <1>2, ChunkAssumption
<1>4. ASSUME NEW k \in 0 .. n - 1, k \in T PROVE k + 1 \in T
  <2> DEFINE x == f[k]
             y == BYTE^k
             d == s[k + 1]
  <2>1. k \in 0 .. CHUNK /\ k \in 0 .. CHUNK - 1 /\ k \in 0 .. n /\ k + 1 \in 1 .. n /\ k + 1 \in 0 .. n
    BY <1>1
  <2>2. x \in Nat /\ x < y /\ d \in 0 .. BYTE - 1
    BY <1>1, <1>2, <1>4, <2>1 DEF n
  <2>3. y \in Nat
    BY <2>1, Powers
  <2>4. f[k + 1] = x * BYTE + d
    BY <1>2 DEF n
  <2>5. BYTE^(k + 1) = BYTE * y
    BY <2>1, ChunkAssumption
  <2>6. x * BYTE + d < BYTE * y
    <3> HIDE DEF x, y, d
    <3> QED BY <2>2, <2>3, NextDigitFits
  <2>7. f[k + 1] < BYTE^(k + 1)
    BY <2>4, <2>5, <2>6
  <2> QED BY <2>1, <2>7
<1> HIDE DEF T
<1>5. \A k \in 0 .. n : k \in T
  BY <1>1, <1>3, <1>4, UpTo
<1>6. f[n] < BYTE^n /\ f[n] \in Nat /\ BYTE^n <= P /\ BYTE^n \in Nat /\ P \in Nat
  <2>1. n \in T /\ n \in 0 .. n
    BY <1>1, <1>5
  <2> QED BY <1>1, <1>2, <2>1, PowersFit, Powers, Sizes DEF T, n
<1>7. Value(s) \in Field
  <2> DEFINE y == BYTE^n
  <2>1. f[n] < y /\ y <= P /\ y \in Nat
    BY <1>6
  <2> HIDE DEF y
  <2>2. f[n] \in 0 .. P - 1
    BY <1>6, <2>1
  <2> QED BY <1>2, <2>2 DEF n, Field
<1> QED BY <1>1, <1>7, SameNumber, OwnRemainder

(* The digits of a number of known length. *)
LEMMA SameDigits ==
  ASSUME NEW s \in Bytes, NEW t \in Bytes, Len(s) = Len(t), Value(s) = Value(t)
  PROVE  \A k \in 1 .. Len(s) : s[k] = t[k]
<1> DEFINE n == Len(s)
<1>1. s \in Seq(Nat) /\ t \in Seq(Nat) /\ n \in Nat /\ Len(t) = n
      /\ \A k \in 1 .. n : s[k] \in 0 .. BYTE - 1 /\ t[k] \in 0 .. BYTE - 1
  <2>1. s \in Seq(Nat) /\ t \in Seq(Nat)
    BY BytesAreNumbers
  <2>2. s \in Seq(0 .. BYTE - 1) /\ t \in Seq(0 .. BYTE - 1) /\ Len(t) = n /\ n \in Nat
    BY DEF Bytes
  <2>3. s \in [1 .. n -> 0 .. BYTE - 1] /\ t \in [1 .. n -> 0 .. BYTE - 1]
    BY <2>2, LenProperties
  <2> HIDE DEF n
  <2> QED BY <2>1, <2>2, <2>3
<1>2. PICK f : /\ f \in [0 .. Len(s) -> Nat] /\ f[0] = 0
               /\ \A k \in 0 .. Len(s) - 1 : f[k + 1] = f[k] * BYTE + s[k + 1]
               /\ Value(s) = f[Len(s)]
  BY <1>1, ValueFold
<1>3. PICK g : /\ g \in [0 .. Len(t) -> Nat] /\ g[0] = 0
               /\ \A k \in 0 .. Len(t) - 1 : g[k + 1] = g[k] * BYTE + t[k + 1]
               /\ Value(t) = g[Len(t)]
  BY <1>1, ValueFold
<1>9. /\ f \in [0 .. n -> Nat] /\ g \in [0 .. n -> Nat] /\ f[n] = g[n]
      /\ \A k \in 0 .. n - 1 : f[k + 1] = f[k] * BYTE + s[k + 1] /\ g[k + 1] = g[k] * BYTE + t[k + 1]
  <2>1. f \in [0 .. n -> Nat] /\ f[n] = Value(s)
    BY <1>2
  <2>2. g \in [0 .. n -> Nat] /\ g[n] = Value(t)
    BY <1>3
  <2>3. \A k \in 0 .. n - 1 : g[k + 1] = g[k] * BYTE + t[k + 1]
    BY <1>3
  <2> QED BY <1>2, <2>1, <2>2, <2>3
<1> HIDE DEF n
<1>4. ASSUME NEW k \in 0 .. n - 1, f[k + 1] = g[k + 1]
      PROVE  f[k] = g[k] /\ s[k + 1] = t[k + 1]
  <2> DEFINE x == f[k]  y == g[k]  a == s[k + 1]  b == t[k + 1]
  <2>1. x \in Int /\ y \in Int /\ a \in 0 .. BYTE - 1 /\ b \in 0 .. BYTE - 1
    <3>1. k \in 0 .. n /\ k + 1 \in 1 .. n
      BY <1>1
    <3>2. f[k] \in Nat /\ g[k] \in Nat
      BY <1>9, <3>1
    <3> QED BY <1>1, <3>1, <3>2
  <2>2. x * BYTE + a = y * BYTE + b
    <3>1. f[k + 1] = x * BYTE + a
      BY <1>9
    <3>2. g[k + 1] = y * BYTE + b
      BY <1>9
    <3> QED BY <1>4, <3>1, <3>2
  <2> HIDE DEF x, y, a, b
  <2> DEFINE z == x * BYTE + a
  <2>3. z \in Int /\ z = x * BYTE + a /\ z = y * BYTE + b /\ BYTE \in Nat \ {0}
    BY <2>1, <2>2, Sizes
  <2> HIDE DEF z
  <2>4. z % BYTE = a /\ z \div BYTE = x
    BY <2>1, <2>3, Divides
  <2>5. z % BYTE = b /\ z \div BYTE = y
    BY <2>1, <2>3, Divides
  <2> QED BY <2>4, <2>5 DEF x, y, a, b
<1> DEFINE T == {k \in 0 .. n : f[n - k] = g[n - k]}
<1>5. 0 \in T
  BY <1>1, <1>9
<1>6. ASSUME NEW k \in 0 .. n - 1, k \in T PROVE k + 1 \in T
  <2> DEFINE j == n - (k + 1)
  <2>1. j \in 0 .. n - 1 /\ j + 1 = n - k /\ k + 1 \in 0 .. n
    BY <1>1
  <2>2. f[n - k] = g[n - k]
    BY <1>6
  <2> HIDE DEF j
  <2>3. f[j] = g[j]
    BY <1>4, <2>1, <2>2
  <2> QED BY <2>1, <2>3 DEF j
<1> HIDE DEF T
<1>7. \A k \in 0 .. n : k \in T
  BY <1>1, <1>5, <1>6, UpTo
<1>8. ASSUME NEW k \in 1 .. n PROVE s[k] = t[k]
  <2> DEFINE j == k - 1
             l == n - k
  <2>1. j \in 0 .. n - 1 /\ j + 1 = k /\ l \in 0 .. n /\ n - l = k
    BY <1>1
  <2> HIDE DEF j, l
  <2>2. f[k] = g[k]
    <3>1. l \in T
      BY <1>7, <2>1
    <3> QED BY <2>1, <3>1 DEF T
  <2>3. s[j + 1] = t[j + 1]
    BY <1>4, <2>1, <2>2
  <2> QED BY <2>1, <2>3
<1> QED BY <1>8 DEF n

(* A byte of a message is a byte of one of its chunks. *)
LEMMA ChunkElements ==
  ASSUME NEW m \in Bytes, NEW n \in Nat, n * CHUNK < Len(m)
  PROVE  LET l == ChunkLen(Len(m) - n * CHUNK)
             s == ChunkAt(m, n + 1)
         IN  /\ s \in Bytes /\ Len(s) = l /\ l \in 1 .. CHUNK
             /\ \A j \in 1 .. l : s[j] = m[n * CHUNK + j]
<1> DEFINE a == n * CHUNK
           l == ChunkLen(Len(m) - a)
           s == ChunkAt(m, n + 1)
<1>1. a \in Nat /\ l \in 1 .. CHUNK /\ a + l <= Len(m) /\ End(m, n + 1) = a + l
  BY EndIs
<1>2. ((n + 1) - 1) * CHUNK = a /\ m \in Seq(0 .. BYTE - 1) /\ Len(m) \in Nat /\ l \in Nat
  BY <1>1, Sizes DEF Bytes
<1> HIDE DEF a, l
<1>3. s = SubSeq(m, a + 1, a + l)
  BY <1>1, <1>2 DEF ChunkAt
<1> HIDE DEF s
<1>6. a + 1 \in Nat /\ a + l \in Nat /\ \A j \in a + 1 .. a + l : j \in 1 .. Len(m)
  BY <1>1, <1>2
<1>7. \A j \in a + 1 .. a + l : m[j] \in 0 .. BYTE - 1
  <2>1. m \in [1 .. Len(m) -> 0 .. BYTE - 1]
    BY <1>2, LenProperties
  <2> DEFINE D == 1 .. Len(m)
  <2>2. \A j \in D : m[j] \in 0 .. BYTE - 1
    BY <2>1
  <2> QED BY <1>6, <2>2
<1>5. Len(s) = l /\ \A j \in 1 .. l : s[j] = m[a + j]
  BY <1>1, <1>2, <1>3, <1>6
<1>8. s = [j \in 1 .. l |-> m[a + j]]
  BY <1>1, <1>2, <1>3, <1>6
<1>9. s \in [1 .. l -> 0 .. BYTE - 1]
  <2>1. \A j \in 1 .. l : a + j \in a + 1 .. a + l
    BY <1>1, <1>2
  <2> QED BY <1>7, <1>8, <2>1
<1>4. s \in Seq(0 .. BYTE - 1) /\ Len(s) = l
  BY <1>2, <1>5, <1>9, SeqDef
<1> QED BY <1>1, <1>4, <1>5 DEF a, l, s, Bytes

(* pack.rs: no two messages have the same packing. *)
LEMMA PackInjective ==
  ASSUME NEW m \in Messages, NEW w \in Messages, Rust!Pack(m) = Rust!Pack(w)
  PROVE  m = w
<1>1. /\ m \in Bytes /\ w \in Bytes /\ Len(m) \in Nat /\ Len(w) = Len(m)
      /\ \A k \in 1 .. Chunked(Len(m)) :
            Rust!FromBytes(ChunkAt(m, k)) = Rust!FromBytes(ChunkAt(w, k))
  BY PackIs
<1> DEFINE n == Len(m)
<1>2. ASSUME NEW k \in 1 .. n PROVE m[k] = w[k]
  <2> DEFINE u == k - 1
             q == u \div CHUNK
             d == u % CHUNK
  <2>0. CHUNK \in Nat \ {0} /\ u \in Nat /\ k = u + 1 /\ u < n /\ n \in Nat
    BY <1>1, Sizes
  <2> HIDE DEF u, n
  <2>1. q \in Nat /\ d \in 0 .. CHUNK - 1 /\ u = q * CHUNK + d
    <3>1. d \in 0 .. CHUNK - 1 /\ u = q * CHUNK + d /\ q \in Int
      BY <2>0, DivMod
    <3>2. q \in Nat
      BY <2>0
    <3> QED BY <3>1, <3>2
  <2> HIDE DEF q, d
  <2> DEFINE a == q * CHUNK
             l == ChunkLen(n - a)
             s == ChunkAt(m, q + 1)
             t == ChunkAt(w, q + 1)
  <2>2. a \in Nat /\ u = a + d /\ a < n /\ k = a + (d + 1)
    <3>1. a \in Nat
      BY <2>0, <2>1
    <3>2. u = a + d
      BY <2>1
    <3> HIDE DEF a
    <3> QED BY <2>0, <2>1, <3>1, <3>2
  <2>3. s \in Bytes /\ Len(s) = l /\ l \in 1 .. CHUNK /\ \A j \in 1 .. l : s[j] = m[a + j]
    <3>1. q * CHUNK < Len(m)
      BY <2>2 DEF n
    <3> QED BY <1>1, <2>1, <3>1, ChunkElements DEF n
  <2>4. t \in Bytes /\ Len(t) = l /\ \A j \in 1 .. l : t[j] = w[a + j]
    <3>1. q * CHUNK < Len(w)
      BY <1>1, <2>2 DEF n
    <3> QED BY <1>1, <2>1, <3>1, ChunkElements DEF n
  <2>5. q + 1 \in 1 .. Chunked(Len(m))
    <3>1. q + 1 \in Nat \ {0} /\ (q + 1) - 1 = q
      BY <2>1
    <3>2. q + 1 <= Chunked(n) <=> ((q + 1) - 1) * CHUNK < n
      BY <2>0, <3>1, ChunkCount
    <3>3. Chunked(n) \in Nat
      BY <2>0, ChunkCount
    <3> QED BY <2>2, <3>1, <3>2, <3>3 DEF n
  <2>6. Rust!FromBytes(s) = Rust!FromBytes(t)
    BY <1>1, <2>5
  <2>7. d + 1 \in 1 .. l
    <3>1. l = IF n - a > CHUNK THEN CHUNK ELSE n - a
      BY DEF ChunkLen
    <3> HIDE DEF a, l
    <3> QED BY <2>0, <2>1, <2>2, <3>1
  <2> HIDE DEF s, t, l, a
  <2>8. l <= CHUNK
    BY <2>0, <2>3
  <2>9. Value(s) = Value(t)
    BY <2>3, <2>4, <2>6, <2>8, ChunkFits
  <2>10. s[d + 1] = t[d + 1]
    BY <2>3, <2>4, <2>7, <2>9, SameDigits
  <2> QED BY <2>2, <2>3, <2>4, <2>7, <2>10
<1>3. m \in [1 .. n -> 0 .. BYTE - 1] /\ w \in [1 .. n -> 0 .. BYTE - 1]
  BY <1>1, LenProperties DEF Bytes
<1> QED BY <1>2, <1>3

-----------------------------------------------------------------------------
(* Theorems *)

LEMMA ArgsAre ==
  /\ \A x \in Elements : [fn |-> "fr", v |-> <<x>>] \in Args
  /\ \A m \in Messages : [fn |-> "bytes", v |-> m] \in Args
BY DEF Args

LEMMA NextStep ==
  ASSUME IInv, [Next]_vars
  PROVE  IInv'
<1>1. CASE UNCHANGED vars
  BY <1>1 DEF IInv, Right, TypeOK, TablesRight, RoundsRight, SpongeRight, StreamRight, LogRight,
              Base, Absorbing, Chunks, vars, tables, sponge, perm, history
<1>2. CASE Run
  BY <1>2, InitArkStep, InitMdsStep, InitializedStep, AddRoundKeysStep, SBoxStep, MixRowStep,
     MixedStep, StartFrStep, StartBytesStep, AbsorbStep, LoadChunkStep, LastPermuteStep,
     SqueezeStep DEF Run
<1>3. ASSUME NEW x \in Elements, poseidon_hash_fr(x) PROVE IInv'
  <2>1. [fn |-> "fr", v |-> <<x>>] \in Args
    BY ArgsAre
  <2> QED BY <1>3, <2>1, CallStep DEF poseidon_hash_fr
<1>4. ASSUME NEW m \in Messages, poseidon_hash_bytes(m) PROVE IInv'
  <2>1. [fn |-> "bytes", v |-> m] \in Args
    BY ArgsAre
  <2> QED BY <1>4, <2>1, CallStep DEF poseidon_hash_bytes
<1> QED BY <1>1, <1>2, <1>3, <1>4 DEF Next

LEMMA Invariance == Spec => []IInv
<1>1. Init => IInv
  BY Initially
<1>2. IInv /\ [Next]_vars => IInv'
  BY NextStep
<1> QED BY <1>1, <1>2, PTL DEF Spec

(* TypeOK for every modulus, table and message: permute, sponge_absorb and *)
(* the chunk loop never index past their arrays, and every slot is reduced. *)
THEOREM TypeCorrect == Spec => []TypeOK
<1>1. IInv => TypeOK
  BY DEF IInv
<1> QED BY <1>1, Invariance, PTL

(* Whatever the rate, the chunk size and the message, the sponge that      *)
(* permutes only when the next element does not fit holds between two      *)
(* chunks what the prover's holds after the same elements.                 *)
THEOREM TracksPack == Spec => []SpongeTracksPack
<1>1. ASSUME IInv PROVE SpongeTracksPack
  <2> SUFFICES ASSUME pc = "load"
               PROVE  /\ IsPrefix(absorbed, ElementsOf(arg))
                      /\ \A c \in Slot : state[c] = Rust!Absorbed(absorbed)[c + 1]
                      /\ off >= Len(arg.v) => absorbed = ElementsOf(arg)
    BY DEF SpongeTracksPack
  <2>1. arg.fn = "bytes" /\ IsPrefix(absorbed, Rust!Pack(arg.v))
    BY <1>1 DEF IInv, Right, StreamRight, Absorbing
  <2>2. Shifted(state) = Rust!Absorbed(absorbed) /\ state \in States
    BY <1>1 DEF IInv, Right, SpongeRight, Base, TypeOK, States
  <2>3. \A c \in Slot : Shifted(state)[c + 1] = state[c]
    BY <2>2, ShiftedIs
  <2>4. off >= Len(arg.v) => absorbed = ElementsOf(arg)
    BY <1>1, AllAbsorbed
  <2> QED BY <2>1, <2>2, <2>3, <2>4 DEF ElementsOf
<1> QED BY <1>1, Invariance, PTL

(* No two different byte strings are ever absorbed as the same elements:   *)
(* the length tells inputs whose padded chunks agree apart, and a chunk is *)
(* below the modulus.                                                      *)
THEOREM Distinct == Spec => []DistinctMessagesAbsorbDifferently
<1>1. ASSUME IInv PROVE DistinctMessagesAbsorbDifferently
  <2> SUFFICES ASSUME NEW c \in log, NEW d \in log, c.arg.fn = "bytes", d.arg.fn = "bytes",
                      c.absorbed = d.absorbed
               PROVE  c.arg = d.arg
    BY DEF DistinctMessagesAbsorbDifferently
  <2>1. c.arg \in Args /\ d.arg \in Args /\ ElementsOf(c.arg) = ElementsOf(d.arg)
    BY <1>1 DEF IInv, Right, LogRight
  <2>2. \A a \in Args : a.fn = "bytes" => a.v \in Messages /\ a = [fn |-> "bytes", v |-> a.v]
    BY DEF Args
  <2>3. Rust!Pack(c.arg.v) = Rust!Pack(d.arg.v) /\ c.arg.v \in Messages /\ d.arg.v \in Messages
    BY <2>1, <2>2 DEF ElementsOf
  <2>4. c.arg.v = d.arg.v
    BY <2>3, PackInjective
  <2> QED BY <2>1, <2>2, <2>4
<1> QED BY <1>1, Invariance, PTL

LEMMA RustHashIs ==
  /\ DOMAIN RustHash = Args
  /\ \A a \in Args : RustHash[a] = Rust!Sponge(ElementsOf(a))
<1>1. \A x \in Elements : <<<<x>>[1]>> = <<x>>
  OBVIOUS
<1>2. ASSUME NEW a \in Args, a.fn = "fr", NEW x \in Elements, a.v = <<x>>
      PROVE  RustHash[a] = Rust!Sponge(ElementsOf(a))
  <2>1. <<a.v[1]>> = a.v
    BY <1>2
  <2>2. RustHash[a] = Rust!Sponge(<<a.v[1]>>)
    BY <1>2 DEF RustHash, Rust!poseidon_hash
  <2> QED BY <1>2, <2>1, <2>2 DEF ElementsOf
<1>3. ASSUME NEW a \in Args, a.fn = "bytes"
      PROVE  RustHash[a] = Rust!Sponge(ElementsOf(a))
  BY <1>3 DEF RustHash, ElementsOf, Rust!poseidon_hash_bytes
<1> QED BY <1>2, <1>3, ArgIs DEF RustHash

(* poseidon_hash_fr and poseidon_hash_bytes return the prover's hash, with *)
(* the tables converted by this call or an earlier one.  ImplementsRustHash *)
(* adds that every call returns.                                           *)
THEOREM HashIsRust == Spec => Abstract!Spec
<1>1. Init => Abstract!Init
  BY DEF Init, Abstract!Init
<1>2. ASSUME IInv, [Next]_vars PROVE [Abstract!Next]_Abstract!vars
  <2>1. ASSUME UNCHANGED <<arg, out>> PROVE [Abstract!Next]_Abstract!vars
    BY <2>1 DEF Abstract!vars
  <2>2. ASSUME NEW x \in Args, Call(x) PROVE Abstract!Next
    <3>1. pc = "idle" /\ arg' = x /\ out' = NoArg
      BY <2>2 DEF Call
    <3>2. arg = NoArg
      BY <1>2, <3>1 DEF IInv, TypeOK
    <3> QED BY <3>1, <3>2, RustHashIs DEF Abstract!Next, Abstract!Call
  <2>3. CASE Squeeze
    <3>1. out' = Rust!Sponge(ElementsOf(arg)) /\ arg \in Args /\ arg' = NoArg
      BY <1>2, <2>3, SqueezeStep DEF Squeeze
    <3>2. arg # NoArg
      BY <3>1, NoArgAssumption
    <3> QED BY <3>1, <3>2, RustHashIs DEF Abstract!Next, Abstract!Return
  <2>4. CASE Run /\ ~ Squeeze
    BY <2>1, <2>4 DEF Run, InitArk, InitMds, Initialized, AddRoundKeys, SBox, MixRow, Mixed, StartFr,
       StartBytes, sponge_absorb, LoadChunk, LastPermute, Permute, history
  <2>5. CASE UNCHANGED vars
    BY <2>1, <2>5 DEF vars, history
  <2>6. ASSUME NEW x \in Elements, poseidon_hash_fr(x) PROVE Abstract!Next
    BY <2>2, <2>6, ArgsAre DEF poseidon_hash_fr
  <2>7. ASSUME NEW m \in Messages, poseidon_hash_bytes(m) PROVE Abstract!Next
    BY <2>2, <2>7, ArgsAre DEF poseidon_hash_bytes
  <2> QED BY <1>2, <2>3, <2>4, <2>5, <2>6, <2>7 DEF Next
<1> QED BY <1>1, <1>2, Invariance, PTL DEF Spec, Abstract!Spec
=============================================================================
