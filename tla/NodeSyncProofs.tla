--------------------------- MODULE NodeSyncProofs ---------------------------
(***************************************************************************)
(* What a sync keeps, for every tree of blocks, every answer an upstream   *)
(* may give and every number of threads: the chain, the snapshot and the   *)
(* rollback points stay in step, the published head never moves back, a    *)
(* reorganisation that the rollback points cover is followed unless a      *)
(* clock hides it, and a node without a snapshot leaves its branch only    *)
(* within the depth it allows.                                             *)
(*                                                                         *)
(* The argument.  A chain is a Piece of a branch: its blocks lie on the    *)
(* branch of its last block, one height after the other.  A walk appends   *)
(* blocks each of which names the one before as its parent, and following  *)
(* parents leads back along one branch (Linked); so a walk makes a longer  *)
(* piece, and cutting a piece anywhere leaves a piece.                     *)
(***************************************************************************)
EXTENDS NodeSync, SequenceTheorems, WellFoundedInduction, TLAPS

\* A chain of consecutive blocks of the branch of its last block.
Piece(c) ==
  /\ c \in Seq(Block) /\ c # <<>>
  /\ \A i \in 1 .. Len(c) : Number(c[i]) = Number(c[1]) + i - 1 /\ OnBranch(c[i], c[Len(c)])

\* Each block of c but the first is in S and late enough after the one before.
Checked(c, S) == \A i \in 2 .. Len(c) : c[i] \in S /\ Cascades(c[i - 1], c[i])

Ascending(points) ==
  \A i, j \in DOMAIN points : i < j => Number(points[i]) < Number(points[j])

\* What an answer holds: at each height a block of that height.
IsAnswer(ans) ==
  \E k \in Nat :
    /\ DOMAIN ans = 1 .. k
    /\ \A n \in 1 .. k : ans[n] \in Block /\ Number(ans[n]) = n

ChainSound ==
  /\ Piece(chain)
  /\ Checked(chain, IF snap = None THEN Sealed ELSE Good)
  /\ snap # None => snap = LastBlock(chain)
  /\ snap = None => rollbacks = <<>> /\ Len(chain) >= MinChain

TipsSound == \A w \in Worker : tip[w] # None => tip[w] > 0

\* The inductive invariant.
NodeInv ==
  /\ TypeOK
  /\ canon \in Honest
  /\ ChainSound
  /\ RollbacksOnChain
  /\ TipsSound
  /\ view.head <= LastNumber(chain)

-----------------------------------------------------------------------------
(* Sets of numbers. *)

\* A set of natural numbers that has a member has a least one.
LEMMA MinExists ==
  ASSUME NEW S \in SUBSET Nat, S # {}
  PROVE  Min(S) \in S /\ \A y \in S : Min(S) <= y
<1> DEFINE R == {ss \in Nat \X Nat : ss[1] < ss[2]}
<1>1. IsWellFoundedOn(R, Nat)
  BY NatLessThanWellFounded DEF OpToRel
<1>2. \E x \in S : \A y \in S : <<y, x>> \notin R
  <2> HIDE DEF R
  <2> QED BY <1>1, WFMin
<1>3. PICK x \in S : \A y \in S : <<y, x>> \notin R
  BY <1>2
<1>4. \A y \in S : x <= y
  <2> TAKE y \in S
  <2>1. <<y, x>> \in Nat \X Nat
    OBVIOUS
  <2>2. ~(y < x)
    BY <1>3, <2>1
  <2> QED BY <2>2
<1> QED BY <1>4 DEF Min

\* A set of natural numbers below n that has a member has a greatest one.
LEMMA MaxExists ==
  ASSUME NEW n \in Nat, NEW S \in SUBSET (0 .. n), S # {}
  PROVE  Max(S) \in S /\ \A y \in S : Max(S) >= y
<1> DEFINE T == {n - x : x \in S}
<1>1. T \in SUBSET Nat /\ T # {}
  <2>1. \A x \in S : n - x \in Nat
    OBVIOUS
  <2> QED BY <2>1
<1>2. Min(T) \in T /\ \A y \in T : Min(T) <= y
  <2> HIDE DEF T
  <2> QED BY <1>1, MinExists
<1>3. PICK x \in S : Min(T) = n - x
  BY <1>2
<1>4. \A y \in S : x >= y
  <2> TAKE y \in S
  <2>1. n - y \in T
    OBVIOUS
  <2>2. n - x <= n - y
    BY <1>2, <1>3, <2>1
  <2> QED BY <2>2
<1> QED BY <1>4 DEF Max

LEMMA MaxOfTwo ==
  ASSUME NEW a \in Int, NEW b \in Int
  PROVE  /\ Max({a, b}) \in {a, b}
         /\ Max({a, b}) >= a
         /\ Max({a, b}) >= b
<1>1. \E x \in {a, b} : \A y \in {a, b} : x >= y
  <2>1. CASE a >= b
    BY <2>1
  <2>2. CASE b >= a
    BY <2>2
  <2> QED BY <2>1, <2>2
<1> QED BY <1>1 DEF Max

LEMMA MinOfTwo ==
  ASSUME NEW a \in Int, NEW b \in Int
  PROVE  /\ Min({a, b}) \in {a, b}
         /\ Min({a, b}) <= a
         /\ Min({a, b}) <= b
<1>1. \E x \in {a, b} : \A y \in {a, b} : x <= y
  <2>1. CASE a <= b
    BY <2>1
  <2>2. CASE b <= a
    BY <2>2
  <2> QED BY <2>1, <2>2
<1> QED BY <1>1 DEF Min

-----------------------------------------------------------------------------
(* Branches. *)

LEMMA ConstantTypes ==
  /\ MaxSync \in Nat /\ Lookback \in Nat /\ MaxReorgDepth \in Nat /\ KEEP \in Nat
  /\ MinChain \in Nat /\ SafeLag \in Nat
  /\ ROLLBACK_EVERY \in Nat \ {0} /\ ROLLBACK_KEEP \in Nat \ {0}
BY NodeConstants

\* A block ends its own branch, and lower blocks of a branch have lower parts of it.
LEMMA PathFacts ==
  ASSUME NEW b \in Block
  PROVE  /\ Number(b) \in Nat \ {0}
         /\ Path[b] \in [1 .. Number(b) -> Block]
         /\ Path[b] \in Seq(Block)
         /\ Path[b][Number(b)] = b
         /\ \A i \in 1 .. Number(b) :
              /\ Path[b][i] \in Block
              /\ Number(Path[b][i]) = i
              /\ \A j \in 1 .. i : Path[Path[b][i]][j] = Path[b][j]
<1>1. Path[b] \in Seq(Block) /\ Path[b] # <<>> /\ Path[b][Number(b)] = b
  BY TreeIsConsistent
<1>2. Number(b) \in Nat \ {0} /\ Path[b] \in [1 .. Number(b) -> Block]
  BY <1>1, EmptySeq, LenProperties DEF Number
<1>3. ASSUME NEW i \in 1 .. Number(b)
      PROVE  /\ Path[b][i] \in Block
             /\ Number(Path[b][i]) = i
             /\ \A j \in 1 .. i : Path[Path[b][i]][j] = Path[b][j]
  <2>1. Path[b][i] \in Block
    BY <1>2
  <2>2. Path[Path[b][i]] = SubSeq(Path[b], 1, i)
    BY TreeIsConsistent
  <2>3. \A j \in 1 .. i : Path[b][j] \in Block
    BY <1>2
  <2>4. /\ Len(SubSeq(Path[b], 1, i)) = i
        /\ \A j \in 1 .. i : SubSeq(Path[b], 1, i)[j] = Path[b][j]
    <3>1. 1 \in Int /\ i \in Int /\ 1 <= i
      BY <1>2
    <3>2. /\ Len(SubSeq(Path[b], 1, i)) = IF 1 <= i THEN i - 1 + 1 ELSE 0
          /\ \A j \in 1 .. i - 1 + 1 : SubSeq(Path[b], 1, i)[j] = Path[b][1 + j - 1]
      BY <2>3, <3>1, SubSeqProperties
    <3> QED BY <3>1, <3>2
  <2> QED BY <2>1, <2>2, <2>4 DEF Number
<1> QED BY <1>1, <1>2, <1>3

LEMMA NumberType ==
  ASSUME NEW b \in Block
  PROVE  Number(b) \in Nat \ {0}
BY PathFacts

LEMMA BranchSelf ==
  ASSUME NEW b \in Block
  PROVE  OnBranch(b, b)
BY PathFacts DEF OnBranch

LEMMA BranchTransitive ==
  ASSUME NEW a \in Block, NEW b \in Block, NEW c \in Block, OnBranch(a, b), OnBranch(b, c)
  PROVE  OnBranch(a, c)
<1>1. Number(a) \in 1 .. Number(b) /\ Number(b) \in 1 .. Number(c)
  BY NumberType DEF OnBranch
<1>2. Path[b][Number(a)] = Path[c][Number(a)]
  BY <1>1, PathFacts DEF OnBranch
<1> QED BY <1>1, <1>2, NumberType DEF OnBranch

\* Of two blocks of one branch, the lower is on the branch of the higher.
LEMMA BranchBelow ==
  ASSUME NEW a \in Block, NEW b \in Block, NEW c \in Block,
         OnBranch(a, c), OnBranch(b, c), Number(a) <= Number(b)
  PROVE  OnBranch(a, b)
<1>1. Number(a) \in 1 .. Number(b) /\ Number(b) \in 1 .. Number(c)
  BY NumberType DEF OnBranch
<1>2. Path[b][Number(a)] = Path[c][Number(a)]
  BY <1>1, PathFacts DEF OnBranch
<1> QED BY <1>2 DEF OnBranch

\* Two blocks of one branch at the same height are one.
LEMMA BranchUnique ==
  ASSUME NEW a \in Block, NEW b \in Block, NEW c \in Block,
         OnBranch(a, c), OnBranch(b, c), Number(a) = Number(b)
  PROVE  a = b
BY DEF OnBranch

LEMMA ParentFacts ==
  ASSUME NEW a \in Block, NEW b \in Block
  PROVE  Parent[b] = a <=> Number(b) = Number(a) + 1 /\ OnBranch(a, b)
<1> DEFINE n == Number(b)
<1>1. n \in Nat \ {0} /\ Number(a) \in Nat \ {0}
  BY NumberType
<1>2. ASSUME Parent[b] = a
      PROVE  Number(b) = Number(a) + 1 /\ OnBranch(a, b)
  <2>1. n # 1 /\ Path[b][n - 1] = a
    BY <1>2, NodeConstants DEF Parent
  <2>2. n - 1 \in 1 .. n
    BY <1>1, <2>1
  <2>3. Number(a) = n - 1
    BY <2>1, <2>2, PathFacts
  <2> QED BY <1>1, <2>1, <2>3 DEF OnBranch
<1>3. ASSUME Number(b) = Number(a) + 1, OnBranch(a, b)
      PROVE  Parent[b] = a
  BY <1>1, <1>3 DEF OnBranch, Parent
<1> QED BY <1>2, <1>3

\* Following parents leads back along one branch.
LEMMA Linked ==
  ASSUME NEW m \in Nat, NEW k \in Nat, NEW s, m <= k,
         \A n \in m .. k : s[n] \in Block,
         \A n \in m + 1 .. k : Parent[s[n]] = s[n - 1]
  PROVE  \A n \in m .. k : OnBranch(s[n], s[k])
<1> DEFINE T == {n \in m .. k : ~OnBranch(s[n], s[k])}
<1> SUFFICES ASSUME T # {} PROVE FALSE
  OBVIOUS
<1>1. T \in SUBSET (0 .. k)
  OBVIOUS
<1>2. Max(T) \in T /\ \A y \in T : Max(T) >= y
  <2> HIDE DEF T
  <2> QED BY <1>1, MaxExists
<1>3. PICK n \in m .. k : ~OnBranch(s[n], s[k]) /\ \A y \in T : n >= y
  BY <1>2
<1>4. n # k
  BY <1>3, BranchSelf
<1>5. n + 1 \in m .. k /\ n + 1 \in m + 1 .. k /\ (n + 1) - 1 = n
  BY <1>4
<1>6. OnBranch(s[n + 1], s[k])
  BY <1>3, <1>5
<1>7. OnBranch(s[n], s[n + 1])
  BY <1>5, ParentFacts
<1>8. s[n] \in Block /\ s[n + 1] \in Block /\ s[k] \in Block
  BY <1>5
<1> QED BY <1>3, <1>6, <1>7, <1>8, BranchTransitive

-----------------------------------------------------------------------------
(* Pieces of a branch. *)

LEMMA PieceFacts ==
  ASSUME NEW c, Piece(c)
  PROVE  /\ c \in Seq(Block)
         /\ Len(c) \in Nat \ {0}
         /\ DOMAIN c = 1 .. Len(c)
         /\ \A i \in 1 .. Len(c) :
              /\ c[i] \in Block
              /\ Number(c[i]) = FirstNumber(c) + i - 1
              /\ OnBranch(c[i], LastBlock(c))
         /\ LastBlock(c) \in Block
         /\ FirstNumber(c) \in Nat \ {0}
         /\ LastNumber(c) \in Nat \ {0}
         /\ LastNumber(c) = FirstNumber(c) + Len(c) - 1
<1>1. c \in Seq(Block) /\ Len(c) \in Nat \ {0} /\ DOMAIN c = 1 .. Len(c)
  BY EmptySeq, LenProperties DEF Piece
<1>2. 1 \in 1 .. Len(c) /\ Len(c) \in 1 .. Len(c)
  BY <1>1
<1>3. \A i \in 1 .. Len(c) : c[i] \in Block
  BY <1>1, ElementOfSeq
<1>4. \A i \in 1 .. Len(c) : Number(c[i]) = FirstNumber(c) + i - 1 /\ OnBranch(c[i], LastBlock(c))
  BY DEF Piece, FirstNumber, LastBlock
<1>5. LastBlock(c) \in Block /\ FirstNumber(c) \in Nat \ {0} /\ LastNumber(c) \in Nat \ {0}
  BY <1>2, <1>3, NumberType DEF LastBlock, FirstNumber, LastNumber
<1>6. LastNumber(c) = FirstNumber(c) + Len(c) - 1
  BY <1>2, <1>4 DEF LastNumber, LastBlock
<1> QED BY <1>1, <1>3, <1>4, <1>5, <1>6

\* What makes a chain a piece.
LEMMA MakePiece ==
  ASSUME NEW c \in Seq(Block), c # <<>>, NEW f \in Nat, NEW b \in Block,
         c[Len(c)] = b,
         \A i \in 1 .. Len(c) : Number(c[i]) = f + i - 1 /\ OnBranch(c[i], b)
  PROVE  Piece(c) /\ LastBlock(c) = b /\ FirstNumber(c) = f /\ LastNumber(c) = f + Len(c) - 1
<1>1. Len(c) \in Nat \ {0}
  BY EmptySeq
<1>2. 1 \in 1 .. Len(c) /\ Len(c) \in 1 .. Len(c)
  BY <1>1
<1>3. Number(c[1]) = f
  BY <1>2
<1> QED BY <1>1, <1>2, <1>3 DEF Piece, LastBlock, FirstNumber, LastNumber

\* A branch is a piece of itself.
LEMMA WholeBranch ==
  ASSUME NEW b \in Block
  PROVE  Piece(Path[b]) /\ LastBlock(Path[b]) = b /\ FirstNumber(Path[b]) = 1 /\ Len(Path[b]) = Number(b)
<1>1. /\ Path[b] \in Seq(Block) /\ Path[b] # <<>>
      /\ Path[b][Len(Path[b])] = b
      /\ Len(Path[b]) = Number(b)
  BY PathFacts, TreeIsConsistent DEF Number
<1>2. \A i \in 1 .. Number(b) : Number(Path[b][i]) = 1 + i - 1 /\ OnBranch(Path[b][i], b)
  BY PathFacts DEF OnBranch
<1> QED BY <1>1, <1>2, MakePiece

\* Cutting a piece leaves a piece.
LEMMA CutPiece ==
  ASSUME NEW c, Piece(c), NEW i \in 1 .. Len(c), NEW j \in i .. Len(c), NEW S, Checked(c, S)
  PROVE  /\ Piece(SubSeq(c, i, j))
         /\ Checked(SubSeq(c, i, j), S)
         /\ Len(SubSeq(c, i, j)) = j - i + 1
         /\ FirstNumber(SubSeq(c, i, j)) = FirstNumber(c) + i - 1
         /\ LastBlock(SubSeq(c, i, j)) = c[j]
<1> DEFINE d == SubSeq(c, i, j)
           n == Len(c)
<1>1. n \in Nat /\ i \in 1 .. n /\ j \in i .. n
  BY PieceFacts
<1>2. \A k \in 1 .. n : c[k] \in Block
  BY PieceFacts
<1>3. \A k \in i .. j : c[k] \in Block
  BY <1>1, <1>2
<1>4. /\ d \in Seq(Block)
      /\ Len(d) = j - i + 1
      /\ \A k \in 1 .. j - i + 1 : d[k] = c[i + k - 1]
  <2> HIDE DEF n
  <2>1. i \in Int /\ j \in Int /\ i <= j
    BY <1>1
  <2> QED BY <1>3, <2>1, SubSeqProperties
<1>5. d # <<>>
  <2> HIDE DEF d
  <2> QED BY <1>1, <1>4, EmptySeq
<1>6. d[Len(d)] = c[j] /\ c[j] \in Block
  BY <1>1, <1>2, <1>4
<1>7. \A k \in 1 .. Len(d) : Number(d[k]) = (FirstNumber(c) + i - 1) + k - 1 /\ OnBranch(d[k], c[j])
  <2> TAKE k \in 1 .. Len(d)
  <2>1. i + k - 1 \in 1 .. n /\ i + k - 1 <= j /\ d[k] = c[i + k - 1] /\ j \in 1 .. n
    <3>1. k \in 1 .. j - i + 1
      BY <1>4
    <3> HIDE DEF d, n
    <3> QED BY <1>1, <1>4, <3>1
  <2>2. /\ Number(d[k]) = FirstNumber(c) + (i + k - 1) - 1 /\ OnBranch(d[k], LastBlock(c))
        /\ Number(c[j]) = FirstNumber(c) + j - 1 /\ OnBranch(c[j], LastBlock(c))
        /\ FirstNumber(c) \in Nat
        /\ d[k] \in Block /\ LastBlock(c) \in Block
    <3> HIDE DEF d
    <3> QED BY <2>1, PieceFacts
  <2>3. Number(d[k]) <= Number(c[j]) /\ Number(d[k]) = (FirstNumber(c) + i - 1) + k - 1
    <3> DEFINE x == Number(d[k])
               y == Number(c[j])
               f == FirstNumber(c)
    <3>1. x = f + (i + k - 1) - 1 /\ y = f + j - 1 /\ f \in Nat
      BY <2>2
    <3>2. i \in Int /\ j \in Int /\ k \in Int /\ i + k - 1 <= j
      <4> HIDE DEF d, n
      <4> QED BY <2>1, <1>1, <1>4
    <3> HIDE DEF x, y, f, d, n
    <3>3. x <= y /\ x = (f + i - 1) + k - 1
      BY <3>1, <3>2
    <3> QED BY <3>3 DEF x, y, f
  <2> QED BY <2>2, <2>3, <1>6, BranchBelow
<1>8. FirstNumber(c) + i - 1 \in Nat
  BY <1>1, PieceFacts
<1>9. Piece(d) /\ LastBlock(d) = c[j] /\ FirstNumber(d) = FirstNumber(c) + i - 1
  <2> HIDE DEF d
  <2> QED BY <1>4, <1>5, <1>6, <1>7, <1>8, MakePiece
<1>10. Checked(d, S)
  <2> SUFFICES ASSUME NEW k \in 2 .. Len(d)
               PROVE  d[k] \in S /\ Cascades(d[k - 1], d[k])
    BY DEF Checked
  <2>1. i + k - 1 \in 2 .. n /\ d[k] = c[i + k - 1] /\ d[k - 1] = c[(i + k - 1) - 1]
    <3> HIDE DEF d, n
    <3>1. k \in 2 .. j - i + 1
      BY <1>4
    <3>2. k - 1 \in 1 .. j - i + 1 /\ k \in 1 .. j - i + 1 /\ i + (k - 1) - 1 = (i + k - 1) - 1
      BY <1>1, <3>1
    <3> QED BY <1>1, <1>4, <3>1, <3>2
  <2> QED BY <2>1 DEF Checked
<1> QED BY <1>4, <1>9, <1>10

\* Two pieces, of which the second starts on top of the first, make one.
LEMMA JoinPieces ==
  ASSUME NEW c, Piece(c), NEW e, Piece(e), NEW S, Checked(c, S), Checked(e, S),
         Parent[e[1]] = LastBlock(c), e[1] \in S, Cascades(LastBlock(c), e[1])
  PROVE  /\ Piece(c \o e)
         /\ Checked(c \o e, S)
         /\ Len(c \o e) = Len(c) + Len(e)
         /\ FirstNumber(c \o e) = FirstNumber(c)
         /\ LastBlock(c \o e) = LastBlock(e)
         /\ OnBranch(LastBlock(c), LastBlock(e))
<1> DEFINE d == c \o e
           m == Len(c)
           n == Len(e)
           b == LastBlock(e)
<1>1. /\ c \in Seq(Block) /\ m \in Nat \ {0} /\ e \in Seq(Block) /\ n \in Nat \ {0}
      /\ 1 \in 1 .. n
  BY PieceFacts
<1>2. /\ d \in Seq(Block) /\ Len(d) = m + n
      /\ \A i \in 1 .. m + n : d[i] = IF i <= m THEN c[i] ELSE e[i - m]
  BY <1>1, ConcatProperties
<1>3. /\ b \in Block /\ LastBlock(c) \in Block /\ e[1] \in Block
      /\ OnBranch(e[1], b)
      /\ Number(e[1]) = LastNumber(c) + 1 /\ OnBranch(LastBlock(c), e[1])
  <2>1. b \in Block /\ LastBlock(c) \in Block /\ e[1] \in Block /\ OnBranch(e[1], b)
    BY <1>1, PieceFacts
  <2> QED BY <2>1, ParentFacts DEF LastNumber
<1>4. OnBranch(LastBlock(c), b)
  BY <1>3, BranchTransitive
<1>5. LastNumber(c) = FirstNumber(c) + m - 1 /\ FirstNumber(c) \in Nat \ {0}
  BY PieceFacts
<1>6. \A i \in 1 .. m + n : Number(d[i]) = FirstNumber(c) + i - 1 /\ OnBranch(d[i], b)
  <2> TAKE i \in 1 .. m + n
  <2>1. CASE i <= m
    <3>1. i \in 1 .. m /\ d[i] = c[i]
      <4> HIDE DEF d, m, n
      <4> QED BY <2>1, <1>1, <1>2
    <3>2. c[i] \in Block /\ Number(c[i]) = FirstNumber(c) + i - 1 /\ OnBranch(c[i], LastBlock(c))
      BY <3>1, PieceFacts
    <3> HIDE DEF d, b
    <3> QED BY <3>1, <3>2, <1>3, <1>4, BranchTransitive
  <2>2. CASE i > m
    <3>1. i - m \in 1 .. n /\ d[i] = e[i - m]
      <4> HIDE DEF d, m, n
      <4> QED BY <2>2, <1>1, <1>2
    <3>2. Number(e[i - m]) = FirstNumber(e) + (i - m) - 1 /\ OnBranch(e[i - m], b)
      BY <3>1, PieceFacts
    <3>3. FirstNumber(e) = LastNumber(c) + 1
      BY <1>3 DEF FirstNumber
    <3> HIDE DEF d, b, m, n
    <3> QED BY <3>1, <3>2, <3>3, <1>1, <1>5
  <2> QED
    <3> HIDE DEF d, b, m, n
    <3> QED BY <2>1, <2>2, <1>1
<1>7. d # <<>> /\ d[Len(d)] = b
  <2>1. m + n \in 1 .. m + n /\ ~(m + n <= m) /\ (m + n) - m = n /\ m + n # 0
    <3> HIDE DEF d, b, m, n
    <3> QED BY <1>1
  <2>2. d[m + n] = e[n]
    <3> HIDE DEF d, b, m, n
    <3> QED BY <2>1, <1>2
  <2>3. d # <<>>
    <3> HIDE DEF d, b, m, n
    <3> QED BY <2>1, <1>2, EmptySeq
  <2> QED BY <2>2, <2>3, <1>2 DEF LastBlock
<1>8. Piece(d) /\ LastBlock(d) = b /\ FirstNumber(d) = FirstNumber(c)
  <2> HIDE DEF d, b, m, n
  <2> QED BY <1>2, <1>3, <1>5, <1>6, <1>7, MakePiece
<1>9. Checked(d, S)
  <2> SUFFICES ASSUME NEW i \in 2 .. m + n
               PROVE  d[i] \in S /\ Cascades(d[i - 1], d[i])
    <3> HIDE DEF d
    <3> QED BY <1>2 DEF Checked
  <2>1. CASE i <= m
    <3>1. i \in 2 .. m /\ d[i] = c[i] /\ d[i - 1] = c[i - 1]
      <4> HIDE DEF d, m, n
      <4> QED BY <2>1, <1>1, <1>2
    <3> HIDE DEF d
    <3> QED BY <3>1 DEF Checked
  <2>2. CASE i = m + 1
    <3>1. d[i] = e[1] /\ d[i - 1] = c[m]
      <4> HIDE DEF d, m, n
      <4>1. i \in 1 .. m + n /\ i - 1 \in 1 .. m + n /\ ~(i <= m) /\ i - 1 = m /\ i - m = 1 /\ i - 1 <= m
        BY <2>2, <1>1
      <4> QED BY <4>1, <1>2
    <3> HIDE DEF d
    <3> QED BY <3>1 DEF LastBlock
  <2>3. CASE i > m + 1
    <3>1. i - m \in 2 .. n /\ d[i] = e[i - m] /\ d[i - 1] = e[(i - m) - 1]
      <4> HIDE DEF d, m, n
      <4>1. /\ i \in 1 .. m + n /\ i - 1 \in 1 .. m + n /\ ~(i <= m) /\ ~(i - 1 <= m)
            /\ i - m \in 2 .. n /\ (i - 1) - m = (i - m) - 1
        BY <2>3, <1>1
      <4> QED BY <4>1, <1>2
    <3> HIDE DEF d
    <3> QED BY <3>1 DEF Checked
  <2> QED
    <3> HIDE DEF d, m, n
    <3> QED BY <2>1, <2>2, <2>3, <1>1
<1> QED BY <1>2, <1>4, <1>8, <1>9

-----------------------------------------------------------------------------
(* Answers and walks. *)

\* Torn or not, an answer holds at each height a block of that height.
LEMMA AnswerFacts ==
  ASSUME NEW b \in Block, NEW ans \in Answers[b]
  PROVE  IsAnswer(ans)
<1>1. CASE ans = <<>>
  <2>1. DOMAIN ans = 1 .. 0
    BY <1>1
  <2>2. 0 \in Nat /\ \A n \in 1 .. 0 : ans[n] \in Block /\ Number(ans[n]) = n
    OBVIOUS
  <2> QED BY <2>1, <2>2 DEF IsAnswer
<1>2. CASE ans # <<>>
  <2>0. PICK old \in Block : \E cut \in 0 .. Min({Number(old), Number(b)}) : ans = Served(old, b, cut)
    BY <1>2 DEF Answers
  <2>1. PICK cut \in 0 .. Min({Number(old), Number(b)}) : ans = Served(old, b, cut)
    BY <2>0
  <2>2. Number(old) \in Nat \ {0} /\ Number(b) \in Nat \ {0}
    BY NumberType
  <2>3. cut \in Nat /\ cut <= Number(old) /\ cut <= Number(b)
    <3> DEFINE least == Min({Number(old), Number(b)})
    <3>0. Number(old) \in Int /\ Number(b) \in Int
      BY <2>2
    <3>1. least \in {Number(old), Number(b)} /\ least <= Number(old) /\ least <= Number(b)
      BY <3>0, MinOfTwo, Zenon
    <3>2. cut \in 0 .. least
      OBVIOUS
    <3> HIDE DEF least
    <3> QED BY <2>2, <3>1, <3>2
  <2>4. DOMAIN ans = 1 .. Number(b)
    BY <2>1 DEF Served
  <2>5. ASSUME NEW n \in 1 .. Number(b)
        PROVE  ans[n] \in Block /\ Number(ans[n]) = n
    <3>1. ans[n] = IF n <= cut THEN Path[old][n] ELSE Path[b][n]
      BY <2>1 DEF Served
    <3>2. n <= cut => n \in 1 .. Number(old)
      BY <2>2, <2>3
    <3> QED BY <3>1, <3>2, PathFacts
  <2> QED BY <2>2, <2>4, <2>5 DEF IsAnswer
<1> QED BY <1>1, <1>2

\* A run of headers that name one another as parents is a piece.
LEMMA RunPiece ==
  ASSUME NEW ans, IsAnswer(ans), NEW m \in Nat \ {0}, NEW k \in Nat, m <= k,
         k \in DOMAIN ans, NEW S,
         \A n \in m + 1 .. k : /\ Parent[ans[n]] = ans[n - 1]
                               /\ ans[n] \in S
                               /\ Cascades(ans[n - 1], ans[n])
  PROVE  /\ Piece(SubSeq(ans, m, k))
         /\ Checked(SubSeq(ans, m, k), S)
         /\ Len(SubSeq(ans, m, k)) = k - m + 1
         /\ SubSeq(ans, m, k)[1] = ans[m]
         /\ FirstNumber(SubSeq(ans, m, k)) = m
         /\ LastBlock(SubSeq(ans, m, k)) = ans[k]
<1> DEFINE d == SubSeq(ans, m, k)
<1>1. \A n \in m .. k : ans[n] \in Block /\ Number(ans[n]) = n
  BY DEF IsAnswer
<1>2. \A n \in m .. k : OnBranch(ans[n], ans[k])
  BY <1>1, Linked
<1>3. /\ d \in Seq(Block) /\ Len(d) = k - m + 1
      /\ \A i \in 1 .. k - m + 1 : d[i] = ans[m + i - 1]
  BY <1>1, SubSeqProperties
<1>4. d # <<>> /\ d[Len(d)] = ans[k] /\ ans[k] \in Block /\ d[1] = ans[m]
  <2>1. d # <<>>
    <3> HIDE DEF d
    <3> QED BY <1>3, EmptySeq
  <2> HIDE DEF d
  <2>2. 1 \in 1 .. k - m + 1 /\ k - m + 1 \in 1 .. k - m + 1 /\ m + (k - m + 1) - 1 = k /\ m + 1 - 1 = m
    OBVIOUS
  <2> QED BY <2>1, <2>2, <1>1, <1>3
<1>5. \A i \in 1 .. Len(d) : Number(d[i]) = m + i - 1 /\ OnBranch(d[i], ans[k])
  <2> HIDE DEF d
  <2> TAKE i \in 1 .. Len(d)
  <2>1. m + i - 1 \in m .. k /\ d[i] = ans[m + i - 1]
    BY <1>3
  <2> QED BY <2>1, <1>1, <1>2
<1>6. Piece(d) /\ LastBlock(d) = ans[k] /\ FirstNumber(d) = m
  <2> HIDE DEF d
  <2> QED BY <1>3, <1>4, <1>5, MakePiece
<1>7. Checked(d, S)
  <2> HIDE DEF d
  <2> SUFFICES ASSUME NEW i \in 2 .. Len(d)
               PROVE  d[i] \in S /\ Cascades(d[i - 1], d[i])
    BY DEF Checked
  <2>1. /\ m + i - 1 \in m + 1 .. k /\ (m + i - 1) - 1 = m + (i - 1) - 1
        /\ i \in 1 .. k - m + 1 /\ i - 1 \in 1 .. k - m + 1
    BY <1>3
  <2>2. d[i] = ans[m + i - 1] /\ d[i - 1] = ans[(m + i - 1) - 1]
    BY <1>3, <2>1
  <2> QED BY <2>1, <2>2
<1> QED BY <1>3, <1>4, <1>6, <1>7

LEMMA StepOk ==
  ASSUME NEW prev, NEW at, NEW b, SnapshotStep(prev, at, b) = "ok"
  PROVE  Cascades(prev, b) /\ b \in Sealed /\ b \in Good /\ Parent[b] = at
BY DEF SnapshotStep

\* The answer's headers above the chain c, up to height k, follow it link by link.
Follows(ans, k, c, S) ==
  /\ LastNumber(c) < k /\ k \in DOMAIN ans
  /\ Parent[ans[LastNumber(c) + 1]] = LastBlock(c)
  /\ Cascades(LastBlock(c), ans[LastNumber(c) + 1])
  /\ ans[LastNumber(c) + 1] \in S
  /\ \A n \in LastNumber(c) + 2 .. k : /\ Parent[ans[n]] = ans[n - 1]
                                       /\ ans[n] \in S
                                       /\ Cascades(ans[n - 1], ans[n])

\* d is the chain c continued to the block of height k.
IsExtension(d, c, ans, k, S) ==
  /\ Piece(d) /\ Checked(d, S)
  /\ Len(d) >= Len(c)
  /\ FirstNumber(d) = FirstNumber(c)
  /\ LastBlock(d) = ans[k]
  /\ LastNumber(d) = k
  /\ OnBranch(LastBlock(c), LastBlock(d))

\* A walk that stops at height k, of which each header was accepted.
LEMMA Extended ==
  ASSUME NEW c, Piece(c), NEW S, Checked(c, S), NEW ans, IsAnswer(ans),
         NEW k \in Nat, Follows(ans, k, c, S)
  PROVE  IsExtension(c \o SubSeq(ans, LastNumber(c) + 1, k), c, ans, k, S)
<1> USE DEF Follows
<1> DEFINE m == LastNumber(c) + 1
           e == SubSeq(ans, m, k)
<1>1. LastNumber(c) \in Nat \ {0} /\ m \in Nat \ {0} /\ m <= k /\ m + 1 = LastNumber(c) + 2
  BY PieceFacts
<1>2. Piece(e) /\ Checked(e, S) /\ Len(e) = k - m + 1 /\ e[1] = ans[m] /\ LastBlock(e) = ans[k]
  <2> HIDE DEF m
  <2> QED BY <1>1, RunPiece
<1>3. /\ Piece(c \o e) /\ Checked(c \o e, S) /\ Len(c \o e) = Len(c) + Len(e)
      /\ FirstNumber(c \o e) = FirstNumber(c)
      /\ LastBlock(c \o e) = LastBlock(e)
      /\ OnBranch(LastBlock(c), LastBlock(e))
  <2> HIDE DEF e
  <2> QED BY <1>2, JoinPieces
<1>4. Number(ans[k]) = k
  BY DEF IsAnswer
<1>5. Len(c) \in Nat /\ Len(e) \in Nat
  <2> HIDE DEF e
  <2> QED BY <1>2, PieceFacts
<1> QED
  <2> HIDE DEF e
  <2>1. LastNumber(c \o e) = k
    BY <1>2, <1>3, <1>4 DEF LastNumber
  <2>2. Len(c \o e) >= Len(c)
    BY <1>3, <1>5
  <2> USE DEF e
  <2> QED BY <1>2, <1>3, <2>1, <2>2 DEF IsExtension

\* What a walk leaves of a piece with the snapshot at its end: a piece with the snapshot
\* at its end, that continues the branch.
Continues(r, c, to) ==
  /\ Piece(r.chain) /\ Checked(r.chain, Good)
  /\ r.snap = LastBlock(r.chain)
  /\ OnBranch(LastBlock(c), LastBlock(r.chain))
  /\ LastNumber(r.chain) >= LastNumber(c)
  /\ r.err = "ok" /\ to > LastNumber(c) => LastNumber(r.chain) = to

\* A walk that accepts the headers up to height k.
LEMMA WalkTo ==
  ASSUME NEW c, Piece(c), Checked(c, Good), NEW ans, IsAnswer(ans), NEW k \in Nat,
         LastNumber(c) <= k, k = LastNumber(c) \/ k \in DOMAIN ans,
         NEW below, below[LastNumber(c) + 1] = LastBlock(c),
         \A n \in LastNumber(c) + 2 .. k + 1 : below[n] = ans[n - 1],
         \A n \in LastNumber(c) + 1 .. k : SnapshotStep(below[n], below[n], ans[n]) = "ok"
  PROVE  LET d == c \o SubSeq(ans, LastNumber(c) + 1, k)
         IN  /\ Piece(d) /\ Checked(d, Good)
             /\ FirstNumber(d) = FirstNumber(c)
             /\ below[k + 1] = LastBlock(d)
             /\ LastNumber(d) = k
             /\ OnBranch(LastBlock(c), LastBlock(d))
<1> DEFINE last == LastNumber(c)
           d == c \o SubSeq(ans, last + 1, k)
<1>1. last \in Nat \ {0} /\ c \in Seq(Block) /\ LastBlock(c) \in Block
  BY PieceFacts
<1>2. CASE k = last
  <2>1. SubSeq(ans, last + 1, k) = <<>>
    <3>1. last + 1 \in Int /\ k \in Int /\ k < last + 1
      BY <1>1, <1>2
    <3> QED BY <3>1, SubSeqEmpty
  <2>2. d = c
    BY <2>1, <1>1, ConcatEmptySeq
  <2>3. OnBranch(LastBlock(c), LastBlock(c))
    BY <1>1, BranchSelf
  <2> QED BY <1>2, <2>2, <2>3
<1>3. CASE k # last
  <2>1. last < k /\ k \in DOMAIN ans /\ last + 1 \in last + 1 .. k
    BY <1>1, <1>3
  <2>2. \A n \in last + 1 .. k : /\ Cascades(below[n], ans[n]) /\ ans[n] \in Good
                                 /\ Parent[ans[n]] = below[n]
    BY StepOk
  <2>3. \A n \in last + 2 .. k : below[n] = ans[n - 1] /\ n \in last + 1 .. k
    BY <1>1
  <2>4. \A n \in last + 2 .. k : /\ Parent[ans[n]] = ans[n - 1]
                                 /\ ans[n] \in Good
                                 /\ Cascades(ans[n - 1], ans[n])
    BY <2>2, <2>3
  <2>5. /\ Parent[ans[last + 1]] = LastBlock(c)
        /\ Cascades(LastBlock(c), ans[last + 1])
        /\ ans[last + 1] \in Good
    BY <2>1, <2>2
  <2>6. /\ Piece(d) /\ Checked(d, Good)
        /\ FirstNumber(d) = FirstNumber(c)
        /\ LastBlock(d) = ans[k]
        /\ LastNumber(d) = k
        /\ OnBranch(LastBlock(c), LastBlock(d))
    <3>1. Follows(ans, k, c, Good)
      BY <2>1, <2>4, <2>5 DEF Follows
    <3>2. IsExtension(d, c, ans, k, Good)
      BY <3>1, Extended
    <3> QED BY <3>2 DEF IsExtension
  <2>7. k + 1 \in last + 2 .. k + 1 /\ (k + 1) - 1 = k
    BY <1>1, <2>1
  <2>8. below[k + 1] = ans[k]
    BY <2>7
  <2> QED BY <2>6, <2>8
<1> QED BY <1>2, <1>3

LEMMA WalkedFacts ==
  ASSUME NEW c, Piece(c), Checked(c, Good), NEW ans, IsAnswer(ans), NEW to \in Nat,
         NEW r, r = Walked(c, LastBlock(c), ans, to)
  PROVE  /\ Continues(r, c, to)
         /\ FirstNumber(r.chain) = FirstNumber(c)
         /\ r = [chain |-> r.chain, snap |-> r.snap, err |-> r.err]
         /\ to <= LastNumber(c) => r.chain = c
<1> DEFINE last == LastNumber(c)
           at == LastBlock(c)
           below(n, base) == IF n = last + 1 THEN base ELSE ans[n - 1]
           step(n) == SnapshotStep(below(n, at), below(n, at), ans[n])
           bad == {n \in last + 1 .. to : step(n) # "ok"}
           k == IF bad = {} THEN to ELSE Min(bad) - 1
<1>1. last \in Nat \ {0} /\ at \in Block
  BY PieceFacts
<1>2. CASE to <= last
  <2>1. r = [chain |-> c, snap |-> at, err |-> "ok"]
    BY <1>2 DEF Walked
  <2>2. OnBranch(at, at) /\ last >= last
    BY <1>1, BranchSelf
  <2> QED BY <1>1, <1>2, <2>1, <2>2 DEF Continues
<1>3. CASE ~(to <= last) /\ ~Reaches(ans, to)
  <2>1. r = [chain |-> c, snap |-> at, err |-> "other"]
    BY <1>3 DEF Walked
  <2>2. OnBranch(at, at) /\ last >= last
    BY <1>1, BranchSelf
  <2> QED BY <1>1, <1>3, <2>1, <2>2 DEF Continues
<1>4. CASE ~(to <= last) /\ Reaches(ans, to)
  <2> DEFINE d == c \o SubSeq(ans, last + 1, k)
             f == [n \in Nat |-> below(n, at)]
  <2>1. r = [chain |-> d, snap |-> below(k + 1, at),
             err |-> IF bad = {} THEN "ok" ELSE step(Min(bad))]
    BY <1>4 DEF Walked
  <2>2. bad # {} => /\ Min(bad) \in bad
                    /\ \A n \in bad : Min(bad) <= n
    <3>1. bad \in SUBSET Nat
      BY <1>1
    <3> HIDE DEF bad
    <3> QED BY <3>1, MinExists
  <2>3. /\ k \in Nat /\ last <= k /\ k <= to
        /\ bad # {} => step(Min(bad)) # "ok"
        /\ bad = {} => k = to
    <3>1. CASE bad = {}
      <4> HIDE DEF bad
      <4> QED BY <1>1, <1>4, <3>1
    <3>2. CASE bad # {}
      <4>1. Min(bad) \in last + 1 .. to /\ step(Min(bad)) # "ok"
        BY <2>2, <3>2
      <4>2. k = Min(bad) - 1
        BY <3>2
      <4> HIDE DEF bad, k, step
      <4> QED BY <1>1, <1>4, <3>2, <4>1, <4>2
    <3> QED BY <3>1, <3>2
  <2>4. \A n \in last + 1 .. k : step(n) = "ok"
    <3> SUFFICES ASSUME NEW n \in last + 1 .. k, step(n) # "ok" PROVE FALSE
      OBVIOUS
    <3>1. n \in last + 1 .. to
      <4> HIDE DEF k
      <4> QED BY <1>1, <2>3
    <3>2. n \in bad
      BY <3>1
    <3>3. bad # {} /\ Min(bad) <= n /\ Min(bad) \in Int
      <4>1. Min(bad) \in last + 1 .. to
        BY <2>2, <3>2
      <4> HIDE DEF bad
      <4> QED BY <2>2, <3>2, <4>1, <1>1
    <3>4. k = Min(bad) - 1 /\ n <= k
      BY <3>3
    <3> HIDE DEF k, bad
    <3> QED BY <3>1, <3>3, <3>4, <1>1
  <2>5. k = last \/ k \in DOMAIN ans
    <3>1. to \in DOMAIN ans
      BY <1>4 DEF Reaches
    <3>2. \A i \in Nat \ {0} : i <= to => i \in DOMAIN ans
      BY <3>1 DEF IsAnswer
    <3> HIDE DEF k
    <3> QED BY <3>2, <2>3, <1>1
  <2>6. /\ f[last + 1] = at
        /\ \A n \in last + 2 .. k + 1 : f[n] = ans[n - 1]
        /\ \A n \in last + 1 .. k : SnapshotStep(f[n], f[n], ans[n]) = "ok"
        /\ below(k + 1, at) = f[k + 1]
    <3>1. \A n \in last + 1 .. k : n \in Nat
      BY <1>1
    <3>2. \A n \in last + 2 .. k + 1 : n \in Nat /\ n # last + 1
      BY <1>1
    <3>3. k + 1 \in Nat /\ last + 1 \in Nat
      <4> HIDE DEF k
      <4> QED BY <1>1, <2>3
    <3> HIDE DEF k
    <3> QED BY <3>1, <3>2, <3>3, <2>4
  <2>7. /\ Piece(d) /\ Checked(d, Good)
        /\ FirstNumber(d) = FirstNumber(c)
        /\ f[k + 1] = LastBlock(d)
        /\ LastNumber(d) = k
        /\ OnBranch(LastBlock(c), LastBlock(d))
    <3> HIDE DEF k, f
    <3> QED BY <2>3, <2>5, <2>6, WalkTo
  <2>8. r.err = "ok" => k = to
    <3> HIDE DEF bad, k, d, step
    <3> QED BY <2>1, <2>3
  <2>9. r.chain = d /\ r.snap = LastBlock(d)
    <3> HIDE DEF bad, k, d, step, f
    <3> QED BY <2>1, <2>6, <2>7
  <2>10. r = [chain |-> r.chain, snap |-> r.snap, err |-> r.err]
    <3> HIDE DEF bad, k, d, step, f
    <3> QED BY <2>1
  <2>11. Continues(r, c, to)
    <3> HIDE DEF bad, k, d, step, f
    <3> QED BY <2>3, <2>7, <2>8, <2>9 DEF Continues
  <2> HIDE DEF bad, k, d, step, f
  <2> QED BY <1>4, <2>7, <2>9, <2>10, <2>11
<1> QED BY <1>2, <1>3, <1>4

LEMMA TrimFacts ==
  ASSUME NEW c, Piece(c), NEW S, Checked(c, S)
  PROVE  /\ Piece(Trim(c)) /\ Checked(Trim(c), S)
         /\ LastBlock(Trim(c)) = LastBlock(c)
         /\ FirstNumber(Trim(c)) >= FirstNumber(c)
         /\ Len(Trim(c)) = IF Len(c) > KEEP THEN KEEP ELSE Len(c)
<1> DEFINE n == Len(c)
<1>1. n \in Nat \ {0} /\ FirstNumber(c) \in Nat /\ KEEP \in Nat \ {0}
  <2>1. KEEP \in Nat \ {0}
    BY NodeConstants
  <2> QED BY <2>1, PieceFacts
<1>2. CASE n > KEEP
  <2>1. n - KEEP + 1 \in 1 .. n /\ n \in n - KEEP + 1 .. n /\ Trim(c) = SubSeq(c, n - KEEP + 1, n)
    BY <1>1, <1>2 DEF Trim
  <2>2. /\ Piece(Trim(c)) /\ Checked(Trim(c), S)
        /\ Len(Trim(c)) = n - (n - KEEP + 1) + 1
        /\ FirstNumber(Trim(c)) = FirstNumber(c) + (n - KEEP + 1) - 1
        /\ LastBlock(Trim(c)) = c[n]
    BY <2>1, CutPiece
  <2> QED
    <3>1. LastBlock(Trim(c)) = LastBlock(c)
      BY <2>2 DEF LastBlock
    <3> HIDE DEF n
    <3>2. FirstNumber(Trim(c)) >= FirstNumber(c) /\ Len(Trim(c)) = KEEP
      BY <1>1, <1>2, <2>2
    <3> USE DEF n
    <3> QED BY <1>2, <2>2, <3>1, <3>2
<1>3. CASE ~(n > KEEP)
  <2>1. Trim(c) = c
    BY <1>3 DEF Trim
  <2> QED BY <1>1, <1>3, <2>1
<1> QED BY <1>2, <1>3

\* What append_new_with_snapshot leaves: a walk that succeeds may drop blocks at the low
\* end, one that fails does not.
LEMMA AppendNewFacts ==
  ASSUME NEW c, Piece(c), Checked(c, Good), NEW ans, IsAnswer(ans), NEW to \in Nat,
         NEW r, r = AppendNew(c, LastBlock(c), ans, to)
  PROVE  /\ Continues(r, c, to)
         /\ FirstNumber(r.chain) >= FirstNumber(c)
         /\ r.err # "ok" => FirstNumber(r.chain) = FirstNumber(c)
         /\ r.err = Walked(c, LastBlock(c), ans, to).err
<1> DEFINE q == Walked(c, LastBlock(c), ans, to)
<1>1. /\ Continues(q, c, to)
      /\ FirstNumber(q.chain) = FirstNumber(c)
      /\ q = [chain |-> q.chain, snap |-> q.snap, err |-> q.err]
  BY WalkedFacts
<1>2. FirstNumber(c) \in Nat
  BY PieceFacts
<1>3. r = [q EXCEPT !.chain = IF q.err = "ok" /\ to > LastNumber(c) THEN Trim(q.chain) ELSE q.chain]
  BY DEF AppendNew
<1> HIDE DEF q
<1>4. /\ r.chain = IF q.err = "ok" /\ to > LastNumber(c) THEN Trim(q.chain) ELSE q.chain
      /\ r.snap = q.snap /\ r.err = q.err
  BY <1>1, <1>3
<1>5. CASE q.err = "ok" /\ to > LastNumber(c)
  <2>1. Piece(q.chain) /\ Checked(q.chain, Good)
    BY <1>1 DEF Continues
  <2>2. /\ Piece(Trim(q.chain)) /\ Checked(Trim(q.chain), Good)
        /\ LastBlock(Trim(q.chain)) = LastBlock(q.chain)
        /\ FirstNumber(Trim(q.chain)) >= FirstNumber(q.chain)
    BY <2>1, TrimFacts
  <2>3. r.chain = Trim(q.chain)
    BY <1>4, <1>5
  <2>4. Continues(r, c, to)
    BY <1>1, <1>4, <2>2, <2>3 DEF Continues, LastNumber
  <2> QED BY <1>1, <1>4, <1>5, <2>2, <2>3, <2>4 DEF q
<1>6. CASE ~(q.err = "ok" /\ to > LastNumber(c))
  <2>1. r.chain = q.chain
    BY <1>4, <1>6
  <2>2. Continues(r, c, to)
    BY <1>1, <1>4, <2>1 DEF Continues
  <2> QED BY <1>1, <1>2, <1>4, <2>1, <2>2 DEF q
<1> QED BY <1>5, <1>6

-----------------------------------------------------------------------------
(* Rollback points. *)

\* The part of a piece up to a block of its branch ends in that block.
LEMMA UpToFacts ==
  ASSUME NEW c, Piece(c), NEW S, Checked(c, S), NEW point \in Block, NEW to,
         Usable(point, c, to), OnBranch(point, LastBlock(c))
  PROVE  /\ Piece(UpTo(c, Number(point))) /\ Checked(UpTo(c, Number(point)), S)
         /\ LastBlock(UpTo(c, Number(point))) = point
         /\ FirstNumber(UpTo(c, Number(point))) = FirstNumber(c)
<1> DEFINE j == Number(point) - FirstNumber(c) + 1
<1>1. /\ FirstNumber(c) \in Nat \ {0} /\ LastNumber(c) = FirstNumber(c) + Len(c) - 1
      /\ Len(c) \in Nat \ {0} /\ Number(point) \in Nat \ {0}
  BY PieceFacts, NumberType
<1>2. 1 \in 1 .. Len(c) /\ j \in 1 .. Len(c)
  BY <1>1 DEF Usable
<1>3. c[j] \in Block /\ Number(c[j]) = FirstNumber(c) + j - 1 /\ OnBranch(c[j], LastBlock(c))
  <2> HIDE DEF j
  <2> QED BY <1>2, PieceFacts
<1>4. c[j] = point
  <2>1. Number(c[j]) = Number(point) /\ LastBlock(c) \in Block
    BY <1>1, <1>3, PieceFacts
  <2> QED BY <1>3, <2>1, BranchUnique
<1>5. UpTo(c, Number(point)) = SubSeq(c, 1, j)
  BY DEF UpTo
<1>6. /\ Piece(SubSeq(c, 1, j)) /\ Checked(SubSeq(c, 1, j), S)
      /\ FirstNumber(SubSeq(c, 1, j)) = FirstNumber(c) + 1 - 1
      /\ LastBlock(SubSeq(c, 1, j)) = c[j]
  <2> HIDE DEF j
  <2> QED BY <1>2, CutPiece
<1>7. FirstNumber(c) + 1 - 1 = FirstNumber(c)
  BY <1>1
<1> QED BY <1>4, <1>5, <1>6, <1>7

\* A walk from a rollback point of the branch continues that branch from the point.
LEMMA RetryFacts ==
  ASSUME NEW c, Piece(c), Checked(c, Good), NEW point \in Block, NEW to \in Nat,
         Usable(point, c, to), OnBranch(point, LastBlock(c)), NEW ans, IsAnswer(ans),
         NEW r, r = Retry(point, c, ans, to)
  PROVE  /\ Piece(r.chain) /\ Checked(r.chain, Good)
         /\ r.snap = LastBlock(r.chain)
         /\ OnBranch(point, LastBlock(r.chain))
         /\ FirstNumber(r.chain) >= FirstNumber(c)
         /\ r.err = "ok" => LastNumber(r.chain) >= to
<1> DEFINE d == UpTo(c, Number(point))
<1>1. Piece(d) /\ Checked(d, Good) /\ LastBlock(d) = point /\ FirstNumber(d) = FirstNumber(c)
  BY UpToFacts
<1>2. r = AppendNew(d, LastBlock(d), ans, to)
  BY <1>1 DEF Retry
<1>3. Continues(r, d, to) /\ FirstNumber(r.chain) >= FirstNumber(d)
  <2> HIDE DEF d
  <2> QED BY <1>1, <1>2, AppendNewFacts
<1>4. Piece(r.chain) /\ LastNumber(r.chain) >= Number(point) /\ Number(point) <= to
  BY <1>1, <1>3 DEF Continues, Usable, LastNumber
<1>5. r.err = "ok" => LastNumber(r.chain) >= to
  <2>1. LastNumber(r.chain) \in Nat /\ Number(point) \in Nat
    BY <1>4, PieceFacts, NumberType
  <2>2. r.err = "ok" /\ to > Number(point) => LastNumber(r.chain) = to
    BY <1>1, <1>3 DEF Continues, LastNumber
  <2> QED BY <1>4, <2>1, <2>2
<1> HIDE DEF d
<1> QED BY <1>1, <1>3, <1>5 DEF Continues

\* The points that are left after a recovery are the lower ones.
LEMMA PopAboveFacts ==
  ASSUME NEW points \in Seq(Block), Ascending(points), NEW point \in Block,
         NEW kept, kept = PopAbove(points, point)
  PROVE  /\ kept \in Seq(Block) /\ Len(kept) <= Len(points)
         /\ Ascending(kept)
         /\ \A i \in DOMAIN kept : /\ i \in DOMAIN points /\ kept[i] = points[i]
                                   /\ Number(kept[i]) <= Number(point)
<1> DEFINE n == Len(points)
           low == {i \in DOMAIN points : Number(points[i]) <= Number(point)}
           top == Max({0} \cup low)
<1>1. n \in Nat /\ DOMAIN points = 1 .. n /\ \A i \in 1 .. n : points[i] \in Block
  BY LenProperties, ElementOfSeq
<1>2. top \in {0} \cup low /\ \A i \in {0} \cup low : top >= i
  <2>1. {0} \cup low \in SUBSET (0 .. n) /\ {0} \cup low # {}
    BY <1>1
  <2> HIDE DEF low, n
  <2> QED BY <1>1, <2>1, MaxExists
<1>3. top \in 0 .. n
  <2> HIDE DEF top
  <2> QED BY <1>1, <1>2
<1>4. kept = SubSeq(points, 1, top)
  BY DEF PopAbove
<1>5. /\ kept \in Seq(Block) /\ Len(kept) = top
      /\ \A i \in 1 .. top : kept[i] = points[i]
  <2> HIDE DEF top, n
  <2>1. \A i \in 1 .. top : points[i] \in Block
    BY <1>1, <1>3
  <2>2. /\ SubSeq(points, 1, top) \in Seq(Block)
        /\ Len(SubSeq(points, 1, top)) = IF 1 <= top THEN top - 1 + 1 ELSE 0
        /\ \A i \in 1 .. top - 1 + 1 : SubSeq(points, 1, top)[i] = points[1 + i - 1]
    BY <1>1, <1>3, <2>1, SubSeqProperties
  <2> QED BY <1>1, <1>3, <1>4, <2>2
<1>6. DOMAIN kept = 1 .. top
  BY <1>5, LenProperties
<1>7. \A i \in 1 .. top : Number(points[i]) <= Number(point)
  <2> TAKE i \in 1 .. top
  <2>1. top # 0 /\ i <= top /\ i \in 1 .. n /\ top \in 1 .. n
    <3> HIDE DEF top, n
    <3> QED BY <1>1, <1>3
  <2>2. Number(points[top]) <= Number(point)
    BY <1>2, <2>1
  <2>3. i = top \/ Number(points[i]) < Number(points[top])
    <3> HIDE DEF top, n
    <3> QED BY <1>1, <2>1 DEF Ascending
  <2>4. Number(points[i]) \in Nat /\ Number(points[top]) \in Nat /\ Number(point) \in Nat
    BY <1>1, <2>1, NumberType
  <2> HIDE DEF top
  <2> QED BY <2>2, <2>3, <2>4
<1>8. \A i \in DOMAIN kept : /\ i \in DOMAIN points /\ kept[i] = points[i]
                             /\ Number(kept[i]) <= Number(point)
  <2> HIDE DEF top, n
  <2> QED BY <1>1, <1>3, <1>5, <1>6, <1>7
<1>9. Ascending(kept)
  BY <1>8 DEF Ascending
<1>10. Len(kept) <= Len(points)
  <2> HIDE DEF top
  <2> QED BY <1>3, <1>5
<1> QED BY <1>5, <1>8, <1>9, <1>10

\* A tail of a list of points.
LEMMA TailOfPoints ==
  ASSUME NEW points \in Seq(Block), Ascending(points), NEW m \in 1 .. Len(points) + 1,
         NEW kept, kept = SubSeq(points, m, Len(points))
  PROVE  /\ kept \in Seq(Block) /\ Len(kept) = Len(points) - m + 1
         /\ Ascending(kept)
         /\ \A i \in DOMAIN kept : m + i - 1 \in DOMAIN points /\ kept[i] = points[m + i - 1]
<1> DEFINE n == Len(points)
<1>1. n \in Nat /\ DOMAIN points = 1 .. n /\ \A i \in 1 .. n : points[i] \in Block
  BY LenProperties, ElementOfSeq
<1>2. m \in Nat \ {0} /\ m <= n + 1
  BY <1>1
<1> HIDE DEF n
<1>3. \A i \in m .. n : points[i] \in Block
  BY <1>1, <1>2
<1>4. /\ kept \in Seq(Block)
      /\ Len(kept) = IF m <= n THEN n - m + 1 ELSE 0
      /\ \A i \in 1 .. n - m + 1 : kept[i] = points[m + i - 1]
  <2>1. kept = SubSeq(points, m, n)
    BY DEF n
  <2> QED BY <1>1, <1>2, <1>3, <2>1, SubSeqProperties
<1>5. Len(kept) = n - m + 1 /\ DOMAIN kept = 1 .. n - m + 1
  BY <1>1, <1>2, <1>4, LenProperties
<1>6. \A i \in DOMAIN kept : m + i - 1 \in 1 .. n /\ kept[i] = points[m + i - 1]
  BY <1>1, <1>2, <1>4, <1>5
<1>7. Ascending(kept)
  <2> SUFFICES ASSUME NEW i \in DOMAIN kept, NEW j \in DOMAIN kept, i < j
               PROVE  Number(kept[i]) < Number(kept[j])
    BY DEF Ascending
  <2>1. m + i - 1 < m + j - 1
    BY <1>1, <1>2, <1>5
  <2> QED BY <1>1, <1>6, <2>1 DEF Ascending
<1> QED BY <1>1, <1>4, <1>5, <1>6, <1>7 DEF n

\* record_rollback keeps a bounded, ascending list of points of one branch, if those that
\* are not below the floor are on it.
LEMMA RecordRollbackFacts ==
  ASSUME NEW points \in Seq(Block), Ascending(points), Len(points) <= ROLLBACK_KEEP,
         NEW at \in Block, NEW floor \in Nat,
         \A i \in DOMAIN points : Number(points[i]) >= floor => OnBranch(points[i], at),
         NEW res, res = RecordRollback(points, at, floor)
  PROVE  /\ res \in Seq(Block) /\ Ascending(res) /\ Len(res) <= ROLLBACK_KEEP
         /\ \A i \in DOMAIN res : OnBranch(res[i], at)
<1> DEFINE n == Len(points)
           high == {i \in DOMAIN points : Number(points[i]) >= floor}
           first == Min({n + 1} \cup high)
           kept == SubSeq(points, first, n)
           due == kept = <<>> \/ Number(at) >= Number(LastBlock(kept)) + ROLLBACK_EVERY
           grown == Append(kept, at)
           from == Max({1, Len(grown) - ROLLBACK_KEEP + 1})
<1>1. n \in Nat /\ DOMAIN points = 1 .. n /\ \A i \in 1 .. n : points[i] \in Block
  BY LenProperties, ElementOfSeq
<1>2. first \in {n + 1} \cup high /\ \A i \in {n + 1} \cup high : first <= i
  <2>1. {n + 1} \cup high \in SUBSET Nat /\ {n + 1} \cup high # {}
    BY <1>1
  <2> HIDE DEF high, n
  <2> QED BY <2>1, MinExists
<1>3. first \in 1 .. n + 1
  <2> HIDE DEF first, n
  <2> QED BY <1>1, <1>2
<1>4. /\ kept \in Seq(Block) /\ Len(kept) = n - first + 1
      /\ Ascending(kept)
      /\ \A i \in DOMAIN kept : first + i - 1 \in 1 .. n /\ kept[i] = points[first + i - 1]
  <2> HIDE DEF first
  <2> QED BY <1>1, <1>3, TailOfPoints
<1>5. \A i \in DOMAIN kept : kept[i] \in Block /\ OnBranch(kept[i], at)
  <2> TAKE i \in DOMAIN kept
  <2>1. first + i - 1 \in 1 .. n /\ kept[i] = points[first + i - 1] /\ i \in Nat \ {0}
    BY <1>4, LenProperties
  <2>2. first \in 1 .. n /\ Number(points[first]) >= floor
    <3>1. first # n + 1
      <4> HIDE DEF first, n, kept
      <4> QED BY <1>1, <1>3, <2>1
    <3> QED BY <1>1, <1>2, <3>1
  <2>3. first = first + i - 1 \/ Number(points[first]) < Number(points[first + i - 1])
    <3> HIDE DEF first, n, kept
    <3>1. first <= first + i - 1
      BY <1>3, <1>1, <2>1
    <3> QED BY <1>1, <1>3, <2>1, <2>2, <3>1 DEF Ascending
  <2>4. Number(points[first + i - 1]) >= floor
    <3>1. Number(points[first]) \in Nat /\ Number(points[first + i - 1]) \in Nat
      BY <1>1, <2>1, <2>2, NumberType
    <3> HIDE DEF first, n, kept
    <3> QED BY <2>2, <2>3, <3>1
  <2> HIDE DEF first, n, kept
  <2> QED BY <1>1, <2>1, <2>4
<1>6. Len(kept) <= ROLLBACK_KEEP
  <2> HIDE DEF first, kept
  <2>1. n <= ROLLBACK_KEEP
    OBVIOUS
  <2> HIDE DEF n
  <2> QED BY <1>1, <1>3, <1>4, <2>1, ConstantTypes
<1>7. CASE ~due
  <2>1. res = kept
    BY <1>7 DEF RecordRollback
  <2> HIDE DEF kept
  <2> QED BY <1>4, <1>5, <1>6, <2>1
<1>8. CASE due
  <2>1. res = SubSeq(grown, from, Len(grown))
    BY <1>8 DEF RecordRollback
  <2> DEFINE k == Len(kept)
  <2>2. /\ k \in Nat /\ DOMAIN kept = 1 .. k
    <3> HIDE DEF kept
    <3> QED BY <1>4, LenProperties
  <2>3. /\ grown \in Seq(Block) /\ Len(grown) = k + 1
        /\ \A i \in 1 .. k : grown[i] = kept[i]
        /\ grown[k + 1] = at
        /\ DOMAIN grown = 1 .. k + 1
    <3>1. kept \in Seq(Block) /\ at \in Block
      BY <1>4
    <3> HIDE DEF kept
    <3>2. grown \in Seq(Block) /\ Len(grown) = Len(kept) + 1
      BY <3>1, AppendProperties
    <3>3. /\ \A i \in 1 .. Len(kept) : grown[i] = kept[i]
          /\ grown[Len(kept) + 1] = at
      BY <3>1, AppendProperties
    <3> HIDE DEF grown
    <3>4. DOMAIN grown = 1 .. Len(grown)
      BY <3>2, LenProperties
    <3> QED BY <3>2, <3>3, <3>4
  <2>4. k # 0 => Number(kept[k]) < Number(at)
    <3> SUFFICES ASSUME k # 0 PROVE Number(kept[k]) < Number(at)
      OBVIOUS
    <3>1. kept # <<>> /\ k \in DOMAIN kept
      <4> HIDE DEF kept
      <4> QED BY <2>2, EmptySeq
    <3>2. Number(at) >= Number(kept[k]) + ROLLBACK_EVERY
      BY <1>8, <3>1 DEF LastBlock
    <3>3. Number(kept[k]) \in Nat /\ Number(at) \in Nat
      <4> HIDE DEF kept, k
      <4> QED BY <1>5, <3>1, NumberType
    <3> HIDE DEF kept, k
    <3> QED BY <3>2, <3>3, ConstantTypes
  <2>5. \A i \in 1 .. k : Number(kept[i]) < Number(at)
    <3> TAKE i \in 1 .. k
    <3>1. i = k \/ Number(kept[i]) < Number(kept[k])
      <4> HIDE DEF kept, k
      <4> QED BY <1>4, <2>2 DEF Ascending
    <3>2. k # 0 /\ k \in DOMAIN kept /\ i \in DOMAIN kept
      <4> HIDE DEF kept, k
      <4> QED BY <2>2
    <3>3. Number(kept[k]) \in Nat /\ Number(kept[i]) \in Nat /\ Number(at) \in Nat
      <4> HIDE DEF kept, k
      <4> QED BY <1>5, <3>2, NumberType
    <3> HIDE DEF kept, k
    <3> QED BY <2>4, <3>1, <3>2, <3>3
  <2>6. Ascending(grown)
    <3> HIDE DEF kept, k, grown
    <3> SUFFICES ASSUME NEW i \in 1 .. k + 1, NEW j \in 1 .. k + 1, i < j
                 PROVE  Number(grown[i]) < Number(grown[j])
      BY <2>3 DEF Ascending
    <3>1. i \in 1 .. k
      BY <2>2
    <3>2. CASE j = k + 1
      BY <2>3, <2>5, <3>1, <3>2
    <3>3. CASE j # k + 1
      <4>1. j \in 1 .. k
        BY <2>2, <3>3
      <4> QED BY <1>4, <2>2, <2>3, <3>1, <4>1 DEF Ascending
    <3> QED BY <3>2, <3>3
  <2>7. \A i \in DOMAIN grown : OnBranch(grown[i], at)
    <3> HIDE DEF kept, k, grown
    <3> TAKE i \in DOMAIN grown
    <3>1. i \in 1 .. k \/ i = k + 1
      BY <2>2, <2>3
    <3> QED BY <1>5, <2>2, <2>3, <3>1, BranchSelf
  <2>8. from \in 1 .. (k + 1) + 1 /\ (k + 1) - from + 1 <= ROLLBACK_KEEP
    <3> HIDE DEF kept, grown
    <3>1. k + 1 <= ROLLBACK_KEEP + 1
      BY <1>6, <2>2, ConstantTypes
    <3> HIDE DEF k
    <3>2. /\ from \in {1, (k + 1) - ROLLBACK_KEEP + 1} /\ from >= 1
          /\ from >= (k + 1) - ROLLBACK_KEEP + 1
      <4> DEFINE low == (k + 1) - ROLLBACK_KEEP + 1
      <4>1. 1 \in Int /\ low \in Int
        BY <2>2, ConstantTypes
      <4>2. from = Max({1, low})
        BY <2>3
      <4> HIDE DEF low, from
      <4>3. Max({1, low}) \in {1, low} /\ Max({1, low}) >= 1 /\ Max({1, low}) >= low
        BY <4>1, MaxOfTwo
      <4>4. from \in {1, low} /\ from >= 1 /\ from >= low
        BY <4>2, <4>3, Zenon
      <4> QED BY <4>4 DEF low
    <3> HIDE DEF from
    <3> QED BY <2>2, <3>1, <3>2, ConstantTypes
  <2>9. /\ res \in Seq(Block) /\ Len(res) = (k + 1) - from + 1
        /\ Ascending(res)
        /\ \A i \in DOMAIN res : from + i - 1 \in DOMAIN grown /\ res[i] = grown[from + i - 1]
    <3> HIDE DEF kept, k, grown, from
    <3>1. from \in 1 .. Len(grown) + 1 /\ Len(grown) = k + 1
      BY <2>3, <2>8, Zenon
    <3>2. /\ res \in Seq(Block) /\ Len(res) = Len(grown) - from + 1
          /\ Ascending(res)
          /\ \A i \in DOMAIN res : from + i - 1 \in DOMAIN grown /\ res[i] = grown[from + i - 1]
      <4>1. grown \in Seq(Block) /\ Ascending(grown) /\ res = SubSeq(grown, from, Len(grown))
        BY <2>1, <2>3, <2>6
      <4> QED BY ONLY <3>1, <4>1, TailOfPoints, ZenonT(60)
    <3> QED BY <2>3, <3>1, <3>2, Zenon
  <2> HIDE DEF kept, k, grown, from
  <2> QED BY <2>7, <2>8, <2>9
<1> QED BY <1>7, <1>8

-----------------------------------------------------------------------------
(* What one sync leaves behind, as facts about its outcome. *)

\* A chain of checked blocks, the snapshot at its end, and rollback points on it.
Sound(c, s, points) ==
  /\ Piece(c) /\ Checked(c, Good) /\ s = LastBlock(c)
  /\ points \in Seq(Block) /\ Len(points) <= ROLLBACK_KEEP /\ Ascending(points)
  /\ \A i \in DOMAIN points :
       Number(points[i]) >= FirstNumber(c) => OnBranch(points[i], LastBlock(c))

\* A walk fails only above the chain.
LEMMA FailsAbove ==
  ASSUME NEW c, Piece(c), NEW ans, NEW to \in Nat,
         Walked(c, LastBlock(c), ans, to).err # "ok"
  PROVE  to > LastNumber(c)
<1>1. LastNumber(c) \in Nat
  BY PieceFacts
<1>2. ASSUME to <= LastNumber(c) PROVE FALSE
  <2>1. Walked(c, LastBlock(c), ans, to) = [chain |-> c, snap |-> LastBlock(c), err |-> "ok"]
    BY <1>2 DEF Walked
  <2> QED BY <2>1
<1> QED BY <1>1, <1>2

\* The rollback points stay on the chain when it grows at its end or loses blocks at its
\* start.
LEMMA SoundAppend ==
  ASSUME NEW c, NEW points, Sound(c, LastBlock(c), points), NEW ans, IsAnswer(ans),
         NEW to \in Nat, NEW r, r = AppendNew(c, LastBlock(c), ans, to)
  PROVE  /\ Sound(r.chain, r.snap, points)
         /\ LastNumber(r.chain) >= LastNumber(c)
         /\ r.err # "ok" => to > LastNumber(c)
<1>1. Piece(c) /\ Checked(c, Good) /\ points \in Seq(Block)
  BY DEF Sound
<1>2. /\ Continues(r, c, to)
      /\ FirstNumber(r.chain) >= FirstNumber(c)
      /\ r.err = Walked(c, LastBlock(c), ans, to).err
  BY <1>1, AppendNewFacts
<1>3. Piece(r.chain) /\ OnBranch(LastBlock(c), LastBlock(r.chain))
  BY <1>2 DEF Continues
<1>4. /\ LastBlock(c) \in Block /\ LastBlock(r.chain) \in Block
      /\ FirstNumber(c) \in Nat /\ FirstNumber(r.chain) \in Nat
  BY <1>1, <1>3, PieceFacts
<1>5. ASSUME NEW i \in DOMAIN points, Number(points[i]) >= FirstNumber(r.chain)
      PROVE  OnBranch(points[i], LastBlock(r.chain))
  <2>1. points[i] \in Block /\ Number(points[i]) \in Nat
    BY <1>1, ElementOfSeq, LenProperties, NumberType
  <2>2. Number(points[i]) >= FirstNumber(c)
    BY <1>2, <1>4, <1>5, <2>1
  <2>3. OnBranch(points[i], LastBlock(c))
    BY <2>2 DEF Sound
  <2> QED BY <1>3, <1>4, <2>1, <2>3, BranchTransitive
<1>6. Sound(r.chain, r.snap, points)
  BY <1>2, <1>5 DEF Sound, Continues
<1>7. r.err # "ok" => to > LastNumber(c)
  BY <1>1, <1>2, FailsAbove
<1> QED BY <1>2, <1>6, <1>7 DEF Continues

\* A walk from a rollback point, with the points above it dropped.
LEMMA SoundRetry ==
  ASSUME NEW c, NEW points, Sound(c, LastBlock(c), points), NEW ans, IsAnswer(ans),
         NEW to \in Nat, NEW i \in DOMAIN points, Usable(points[i], c, to),
         NEW q, q = Retry(points[i], c, ans, to), q.err = "ok"
  PROVE  Sound(q.chain, q.snap, PopAbove(points, points[i])) /\ LastNumber(q.chain) >= to
<1> DEFINE point == points[i]
           kept == PopAbove(points, point)
<1>1. Piece(c) /\ Checked(c, Good) /\ points \in Seq(Block) /\ Ascending(points)
  BY DEF Sound
<1>2. point \in Block /\ FirstNumber(c) \in Nat /\ LastBlock(c) \in Block
  BY <1>1, ElementOfSeq, LenProperties, PieceFacts
<1>3. OnBranch(point, LastBlock(c))
  <2>1. Number(point) \in Nat /\ FirstNumber(c) <= Number(point)
    BY <1>2, NumberType DEF Usable
  <2>2. Number(point) >= FirstNumber(c)
    BY <1>2, <2>1
  <2> QED BY <2>2 DEF Sound
<1>4. /\ Piece(q.chain) /\ Checked(q.chain, Good)
      /\ q.snap = LastBlock(q.chain)
      /\ OnBranch(point, LastBlock(q.chain))
      /\ FirstNumber(q.chain) >= FirstNumber(c)
      /\ LastNumber(q.chain) >= to
  BY <1>1, <1>2, <1>3, RetryFacts
<1>5. /\ kept \in Seq(Block) /\ Len(kept) <= Len(points)
      /\ Ascending(kept)
      /\ \A j \in DOMAIN kept : /\ j \in DOMAIN points /\ kept[j] = points[j]
                                /\ Number(kept[j]) <= Number(point)
  <2> HIDE DEF point
  <2> QED BY <1>1, <1>2, PopAboveFacts
<1>6. Len(kept) <= ROLLBACK_KEEP
  <2>1. Len(points) <= ROLLBACK_KEEP /\ Len(points) \in Nat
    BY <1>1, LenProperties DEF Sound
  <2> HIDE DEF kept
  <2>2. Len(kept) \in Nat
    BY <1>5, LenProperties
  <2> QED BY <1>5, <2>1, <2>2, ConstantTypes
<1> HIDE DEF kept, point
<1>7. ASSUME NEW j \in DOMAIN kept, Number(kept[j]) >= FirstNumber(q.chain)
      PROVE  OnBranch(kept[j], LastBlock(q.chain))
  <2>1. kept[j] \in Block /\ Number(kept[j]) \in Nat
    BY <1>5, ElementOfSeq, LenProperties, NumberType
  <2>2. LastBlock(q.chain) \in Block /\ FirstNumber(q.chain) \in Nat
    BY <1>4, PieceFacts
  <2>3. Number(kept[j]) >= FirstNumber(c)
    BY <1>2, <1>4, <1>7, <2>1, <2>2
  <2>4. OnBranch(kept[j], LastBlock(c))
    BY <1>5, <2>3 DEF Sound
  <2>5. OnBranch(kept[j], point)
    BY <1>2, <1>3, <1>5, <2>1, <2>4, BranchBelow
  <2> QED BY <1>2, <1>4, <2>1, <2>2, <2>5, BranchTransitive
<1>8. Sound(q.chain, q.snap, kept)
  BY <1>4, <1>5, <1>6, <1>7 DEF Sound
<1> QED BY <1>4, <1>8 DEF kept, point

\* The checkpoint of the boot is on the branch of the block the boot ended at.
LEMMA OriginFacts ==
  /\ Start \in Block /\ Origin \in Block
  /\ Number(Origin) \in 1 .. Number(Start)
  /\ Path[Start][Number(Origin)] = Origin
<1>1. Start \in Block
  BY NodeConstants DEF Honest
<1>2. PICK i \in 1 .. Number(Start) : Path[Start][i] = Origin
  BY NodeConstants
<1>3. Path[Start][i] \in Block /\ Number(Path[Start][i]) = i
  BY <1>1, PathFacts
<1> QED BY <1>1, <1>2, <1>3

\* The replay from the checkpoint of the boot.
LEMMA SoundReplay ==
  ASSUME NEW ans, IsAnswer(ans), NEW to \in Nat,
         NEW q, q = Replay(ans, to), q.err = "ok"
  PROVE  Sound(q.chain, q.snap, <<>>) /\ LastNumber(q.chain) >= to
<1> DEFINE c == <<Origin>>
<1>1. Origin \in Block
  BY OriginFacts
<1>2. c \in Seq(Block) /\ c # <<>> /\ Len(c) = 1 /\ c[1] = Origin
  BY <1>1
<1>3. Number(Origin) \in Nat
  BY <1>1, NumberType
<1>4. Piece(c) /\ LastBlock(c) = Origin /\ LastNumber(c) = Number(Origin)
  <2> HIDE DEF c
  <2>1. \A i \in 1 .. Len(c) : i = 1
    BY <1>2
  <2>2. OnBranch(Origin, Origin)
    BY <1>1, BranchSelf
  <2>3. Number(Origin) = Number(Origin) + 1 - 1
    BY <1>3
  <2>4. \A i \in 1 .. Len(c) : Number(c[i]) = Number(c[1]) + i - 1 /\ OnBranch(c[i], c[Len(c)])
    BY <1>2, <2>1, <2>2, <2>3
  <2> QED BY <1>2, <2>4 DEF Piece, LastBlock, LastNumber
<1>5. Checked(c, Good)
  BY <1>2 DEF Checked
<1>6. q = AppendNew(c, LastBlock(c), ans, to)
  BY <1>4 DEF Replay
<1> HIDE DEF c
<1>7. Continues(q, c, to)
  BY <1>4, <1>5, <1>6, AppendNewFacts
<1>8. LastNumber(q.chain) \in Nat /\ LastNumber(c) \in Nat
  BY <1>4, <1>7, PieceFacts DEF Continues
<1>9. LastNumber(q.chain) >= to
  BY <1>7, <1>8 DEF Continues
<1>10. /\ <<>> \in Seq(Block) /\ Len(<<>>) <= ROLLBACK_KEEP
       /\ Ascending(<<>>) /\ DOMAIN <<>> = {}
  BY ConstantTypes DEF Ascending
<1> QED BY <1>7, <1>9, <1>10 DEF Sound, Continues

\* The points after record_rollback.
LEMMA SoundCommit ==
  ASSUME NEW c, NEW s, NEW points, Sound(c, s, points)
  PROVE  Sound(c, s, RecordRollback(points, s, FirstNumber(c)))
<1> DEFINE res == RecordRollback(points, s, FirstNumber(c))
<1>1. Piece(c) /\ s = LastBlock(c)
  BY DEF Sound
<1>2. s \in Block /\ FirstNumber(c) \in Nat
  BY <1>1, PieceFacts
<1>3. \A i \in DOMAIN points : Number(points[i]) >= FirstNumber(c) => OnBranch(points[i], s)
  BY DEF Sound
<1>4. points \in Seq(Block) /\ Ascending(points) /\ Len(points) <= ROLLBACK_KEEP
  BY DEF Sound
<1>5. /\ res \in Seq(Block) /\ Ascending(res) /\ Len(res) <= ROLLBACK_KEEP
      /\ \A i \in DOMAIN res : OnBranch(res[i], s)
  BY <1>2, <1>3, <1>4, RecordRollbackFacts
<1> HIDE DEF res
<1>6. Sound(c, s, res)
  BY <1>1, <1>5 DEF Sound
<1> QED BY <1>6 DEF res

-----------------------------------------------------------------------------
(* Syncs without a snapshot. *)

LEMMA PlainStepOk ==
  ASSUME NEW prev, NEW b, PlainStep(prev, b) = "ok"
  PROVE  b \in Sealed /\ (prev # None => Parent[b] = prev /\ Cascades(prev, b))
BY DEF PlainStep

\* A range that reaches its end, every header of which passed its checks.
IsVerified(res, prev, ans, from, to) ==
  /\ res.chain = SubSeq(ans, from, to)
  /\ to \in DOMAIN ans
  /\ from <= to => PlainStep(prev, ans[from]) = "ok"
  /\ \A n \in from + 1 .. to : PlainStep(ans[n - 1], ans[n]) = "ok"

LEMMA VerifiedRange ==
  ASSUME NEW prev, NEW ans, IsAnswer(ans), NEW from \in Nat \ {0}, NEW to \in Nat,
         NEW res, res = VerifyHeaderChain(prev, ans, from, to), res.err = "ok"
  PROVE  IsVerified(res, prev, ans, from, to)
<1> DEFINE before(n) == IF n = from THEN prev ELSE ans[n - 1]
           bad == {n \in from .. to : PlainStep(before(n), ans[n]) # "ok"}
           last == Min(bad)
<1>1. to \in DOMAIN ans
  <2> SUFFICES ASSUME to \notin DOMAIN ans PROVE FALSE
    OBVIOUS
  <2>1. res = [chain |-> <<>>, err |-> "other"]
    BY DEF VerifyHeaderChain, Reaches
  <2> QED BY <2>1
<1>2. bad = {}
  <2> SUFFICES ASSUME bad # {} PROVE FALSE
    OBVIOUS
  <2>1. res = [chain |-> <<>>, err |-> PlainStep(before(last), ans[last])]
    BY <1>1 DEF VerifyHeaderChain, Reaches
  <2>2. last \in bad
    <3>1. bad \in SUBSET Nat
      OBVIOUS
    <3> HIDE DEF bad
    <3> QED BY <3>1, MinExists
  <2>3. PlainStep(before(last), ans[last]) # "ok"
    <3> HIDE DEF last
    <3> QED BY <2>2
  <2> HIDE DEF last, before
  <2> QED BY <2>1, <2>3
<1>3. res = [chain |-> SubSeq(ans, from, to), err |-> "ok"]
  BY <1>1, <1>2 DEF VerifyHeaderChain, Reaches
<1>4. \A n \in from .. to : PlainStep(before(n), ans[n]) = "ok"
  BY <1>2
<1>5. from <= to => PlainStep(prev, ans[from]) = "ok"
  <2>1. from <= to => from \in from .. to /\ before(from) = prev
    OBVIOUS
  <2> HIDE DEF before
  <2> QED BY <1>4, <2>1
<1>6. ASSUME NEW n \in from + 1 .. to PROVE PlainStep(ans[n - 1], ans[n]) = "ok"
  <2>1. n \in from .. to /\ before(n) = ans[n - 1]
    OBVIOUS
  <2> HIDE DEF before
  <2> QED BY <1>4, <2>1
<1> QED BY <1>1, <1>3, <1>5, <1>6 DEF IsVerified

LEMMA AnswerBlocks ==
  ASSUME NEW ans, IsAnswer(ans), NEW to \in Nat, to \in DOMAIN ans, NEW n \in 1 .. to
  PROVE  n \in DOMAIN ans /\ ans[n] \in Block /\ ans[n] # None /\ Number(ans[n]) = n
<1>1. PICK k \in Nat : DOMAIN ans = 1 .. k /\ \A m \in 1 .. k : ans[m] \in Block /\ Number(ans[m]) = m
  BY DEF IsAnswer
<1>2. n \in 1 .. k
  BY <1>1
<1> QED BY <1>1, <1>2, NodeConstants

\* The steps of a verified range link each header to the one before.
LEMMA VerifiedSteps ==
  ASSUME NEW ans, IsAnswer(ans), NEW from \in Nat \ {0}, NEW to \in Nat, to \in DOMAIN ans,
         \A n \in from + 1 .. to : PlainStep(ans[n - 1], ans[n]) = "ok"
  PROVE  \A n \in from + 1 .. to : /\ Parent[ans[n]] = ans[n - 1]
                                   /\ ans[n] \in Sealed
                                   /\ Cascades(ans[n - 1], ans[n])
<1> TAKE n \in from + 1 .. to
<1>1. n - 1 \in 1 .. to
  OBVIOUS
<1>2. ans[n - 1] # None
  BY <1>1, AnswerBlocks
<1> QED BY <1>2, PlainStepOk

\* A window starts at the root, or Lookback blocks before its end.
LEMMA WindowFacts ==
  ASSUME NEW to \in Nat \ {0}
  PROVE  WindowStart(to) \in 1 .. to /\ (WindowStart(to) = 1 \/ WindowStart(to) = to - Lookback + 1)
<1> DEFINE from == WindowStart(to)
           low == to - Lookback + 1
<1>1. Lookback \in Nat \ {0}
  BY NodeConstants
<1>2. 1 \in Int /\ low \in Int
  BY <1>1
<1>3. from = Max({1, low})
  BY DEF WindowStart
<1>4. low <= to
  BY <1>1
<1> HIDE DEF from, low
<1>5. Max({1, low}) \in {1, low} /\ Max({1, low}) >= 1
  BY <1>2, MaxOfTwo
<1>6. from \in {1, low} /\ from >= 1
  BY <1>3, <1>5, Zenon
<1>7. from \in 1 .. to
  BY <1>2, <1>4, <1>6
<1> QED BY <1>6, <1>7 DEF from, low

\* A fresh window.
LEMMA FreshWindow ==
  ASSUME NEW ans, IsAnswer(ans), NEW to \in Nat \ {0},
         NEW res, res = WalkHeaders(ans, to), res.err = "ok"
  PROVE  /\ Piece(res.chain) /\ Checked(res.chain, Sealed)
         /\ LastNumber(res.chain) = to
         /\ Len(res.chain) = to \/ Len(res.chain) = Lookback
<1> DEFINE from == WindowStart(to)
<1>1. from \in 1 .. to /\ (from = 1 \/ from = to - Lookback + 1)
  BY WindowFacts
<1>2. from \in Nat \ {0} /\ from <= to
  <2> HIDE DEF from
  <2> QED BY <1>1
<1>3. res = VerifyHeaderChain(None, ans, from, to)
  BY DEF WalkHeaders
<1> HIDE DEF from
<1>4. /\ res.chain = SubSeq(ans, from, to)
      /\ to \in DOMAIN ans
      /\ \A n \in from + 1 .. to : PlainStep(ans[n - 1], ans[n]) = "ok"
  <2>1. to \in Nat
    OBVIOUS
  <2>2. IsVerified(res, None, ans, from, to)
    BY <1>2, <1>3, <2>1, VerifiedRange
  <2> QED BY <2>2 DEF IsVerified
<1>5. \A n \in from + 1 .. to : /\ Parent[ans[n]] = ans[n - 1]
                                /\ ans[n] \in Sealed
                                /\ Cascades(ans[n - 1], ans[n])
  BY <1>2, <1>4, VerifiedSteps
<1>6. /\ Piece(res.chain) /\ Checked(res.chain, Sealed)
      /\ Len(res.chain) = to - from + 1
      /\ LastBlock(res.chain) = ans[to]
  <2>1. to \in Nat
    OBVIOUS
  <2> DEFINE e == SubSeq(ans, from, to)
  <2>2. /\ Piece(e) /\ Checked(e, Sealed)
        /\ Len(e) = to - from + 1
        /\ LastBlock(e) = ans[to]
    BY <1>2, <1>4, <1>5, <2>1, RunPiece, ZenonT(60)
  <2> QED BY <1>4, <2>2, Zenon
<1>7. Number(ans[to]) = to
  BY <1>4, AnswerBlocks
<1> QED BY <1>1, <1>6, <1>7, ConstantTypes DEF LastNumber

\* The headers that follow the chain.
LEMMA AppendVerified ==
  ASSUME NEW c, Piece(c), Checked(c, Sealed), NEW ans, IsAnswer(ans), NEW to \in Nat,
         to > LastNumber(c),
         NEW res, res = VerifyHeaderChain(LastBlock(c), ans, LastNumber(c) + 1, to),
         res.err = "ok"
  PROVE  IsExtension(c \o res.chain, c, ans, to, Sealed)
<1> DEFINE from == LastNumber(c) + 1
<1>1. LastNumber(c) \in Nat /\ LastBlock(c) \in Block /\ LastBlock(c) # None
  BY PieceFacts, NodeConstants
<1>2. from \in Nat \ {0} /\ from <= to /\ LastNumber(c) < to
  BY <1>1
<1>3. /\ res.chain = SubSeq(ans, from, to)
      /\ to \in DOMAIN ans
      /\ PlainStep(LastBlock(c), ans[from]) = "ok"
      /\ \A n \in from + 1 .. to : PlainStep(ans[n - 1], ans[n]) = "ok"
  <2> HIDE DEF from
  <2>1. res = VerifyHeaderChain(LastBlock(c), ans, from, to)
    BY DEF from
  <2>2. IsVerified(res, LastBlock(c), ans, from, to)
    BY <1>2, <2>1, VerifiedRange
  <2> QED BY <1>2, <2>2 DEF IsVerified
<1>4. \A n \in from + 1 .. to : /\ Parent[ans[n]] = ans[n - 1]
                                /\ ans[n] \in Sealed
                                /\ Cascades(ans[n - 1], ans[n])
  <2> HIDE DEF from
  <2> QED BY <1>2, <1>3, VerifiedSteps
<1>5. /\ Parent[ans[from]] = LastBlock(c)
      /\ ans[from] \in Sealed
      /\ Cascades(LastBlock(c), ans[from])
  <2> HIDE DEF from
  <2> QED BY <1>1, <1>3, PlainStepOk
<1>6. from + 1 = LastNumber(c) + 2
  BY <1>1
<1>7. \A n \in LastNumber(c) + 2 .. to : /\ Parent[ans[n]] = ans[n - 1]
                                         /\ ans[n] \in Sealed
                                         /\ Cascades(ans[n - 1], ans[n])
  BY <1>4, <1>6
<1>8. c \o res.chain = c \o SubSeq(ans, LastNumber(c) + 1, to)
  BY <1>3
<1> HIDE DEF from
<1>9. /\ Parent[ans[LastNumber(c) + 1]] = LastBlock(c)
      /\ Cascades(LastBlock(c), ans[LastNumber(c) + 1])
      /\ ans[LastNumber(c) + 1] \in Sealed
  BY <1>5 DEF from
<1>10. LastNumber(c) < to /\ to \in DOMAIN ans
  BY <1>2, <1>3
<1>11. Follows(ans, to, c, Sealed)
  BY <1>7, <1>9, <1>10 DEF Follows
<1>12. IsExtension(c \o SubSeq(ans, LastNumber(c) + 1, to), c, ans, to, Sealed)
  BY <1>11, Extended
<1> QED BY <1>8, <1>12

LEMMA VerifiedShape ==
  ASSUME NEW prev, NEW ans, NEW from, NEW to,
         NEW res, res = VerifyHeaderChain(prev, ans, from, to)
  PROVE  res = [chain |-> res.chain, err |-> res.err]
<1> DEFINE before(n) == IF n = from THEN prev ELSE ans[n - 1]
           bad == {n \in from .. to : PlainStep(before(n), ans[n]) # "ok"}
           e == PlainStep(before(Min(bad)), ans[Min(bad)])
<1>1. \/ res = [chain |-> <<>>, err |-> "other"]
      \/ res = [chain |-> SubSeq(ans, from, to), err |-> "ok"]
      \/ res = [chain |-> <<>>, err |-> e]
  BY Zenon DEF VerifyHeaderChain
<1> HIDE DEF e
<1> QED BY <1>1

\* The outcome of a sync without a snapshot: the chain as it was, continued, a window
\* that shares a recent block with it, or a window from more than Lookback blocks above.
Followed(r, to) ==
  \/ r.chain = chain
  \/ OnBranch(LastBlock(chain), LastBlock(r.chain)) /\ LastNumber(chain) < to
  \/ ReorgWithinDepth(chain, r.chain) /\ LastNumber(chain) < to
  \/ to > LastNumber(chain) + Lookback

LEMMA LookbackFacts ==
  ASSUME Piece(chain), Checked(chain, Sealed), Len(chain) >= MinChain,
         NEW ans, IsAnswer(ans), NEW again, IsAnswer(again), NEW to \in Nat \ {0},
         NEW r, r = ResyncLookback(ans, again, to)
  PROVE  /\ Piece(r.chain) /\ Checked(r.chain, Sealed) /\ Len(r.chain) >= MinChain
         /\ r.chain = chain \/ (LastNumber(r.chain) = to /\ to > LastNumber(chain))
         /\ Followed(r, to)
<1> DEFINE last == LastNumber(chain)
           fresh == WalkHeaders(ans, to)
           added == VerifyHeaderChain(LastBlock(chain), ans, last + 1, to)
           anew  == WalkHeaders(again, to)
           grown == chain \o added.chain
<1>1. /\ last \in Nat /\ Len(chain) \in Nat \ {0} /\ last >= Len(chain)
      /\ LastBlock(chain) \in Block /\ to \in Nat
  <2>1. /\ LastNumber(chain) \in Nat /\ Len(chain) \in Nat \ {0} /\ LastBlock(chain) \in Block
        /\ LastNumber(chain) = FirstNumber(chain) + Len(chain) - 1 /\ FirstNumber(chain) \in Nat \ {0}
    BY PieceFacts
  <2> HIDE DEF last
  <2>2. LastNumber(chain) >= Len(chain)
    BY <2>1
  <2> QED BY <2>1, <2>2 DEF last
<1>2. MinChain <= Lookback /\ MinChain <= KEEP
  BY NodeConstants, ConstantTypes
<1>3. ASSUME NEW e, Piece(e), to > last, LastNumber(e) = to, Len(e) = to \/ Len(e) = Lookback
      PROVE  Len(e) >= MinChain
  BY <1>1, <1>2, <1>3, ConstantTypes
<1>4. CASE to > last + Lookback /\ fresh.err = "ok"
  <2>1. r = fresh
    BY <1>4 DEF ResyncLookback
  <2>2. /\ Piece(r.chain) /\ Checked(r.chain, Sealed)
        /\ LastNumber(r.chain) = to
        /\ Len(r.chain) = to \/ Len(r.chain) = Lookback
    <3> HIDE DEF fresh
    <3>1. r = WalkHeaders(ans, to) /\ r.err = "ok"
      BY <1>4, <2>1 DEF fresh
    <3> QED BY <3>1, FreshWindow
  <2>3. to > last
    BY <1>1, <1>4, ConstantTypes
  <2>4. Len(r.chain) >= MinChain
    BY <1>3, <2>2, <2>3
  <2> QED BY <1>4, <2>2, <2>3, <2>4 DEF Followed
<1>5. CASE to > last /\ ~(to > last + Lookback) /\ added.err = "ok"
  <2>1. r = [added EXCEPT !.chain = Trim(chain \o @)]
    <3>1. ~(Len(chain) < MinChain) /\ ~(to <= last)
      BY <1>1, <1>5, ConstantTypes
    <3> HIDE DEF last, fresh, added, anew
    <3> QED BY <1>5, <3>1 DEF ResyncLookback, last, fresh, added, anew
  <2>2. added = [chain |-> added.chain, err |-> added.err]
    BY VerifiedShape
  <2>3. r.chain = Trim(grown)
    <3> HIDE DEF added
    <3> QED BY <2>1, <2>2
  <2>4. /\ Piece(grown) /\ Checked(grown, Sealed)
        /\ Len(grown) >= Len(chain)
        /\ LastNumber(grown) = to
        /\ OnBranch(LastBlock(chain), LastBlock(grown))
    <3> HIDE DEF added
    <3>1. added = VerifyHeaderChain(LastBlock(chain), ans, LastNumber(chain) + 1, to)
      BY DEF added
    <3>2. IsExtension(chain \o added.chain, chain, ans, to, Sealed)
      BY <1>1, <1>5, <3>1, AppendVerified
    <3> QED BY <3>2 DEF IsExtension
  <2> HIDE DEF grown
  <2>5. /\ Piece(Trim(grown)) /\ Checked(Trim(grown), Sealed)
        /\ LastBlock(Trim(grown)) = LastBlock(grown)
        /\ Len(Trim(grown)) = IF Len(grown) > KEEP THEN KEEP ELSE Len(grown)
    BY <2>4, TrimFacts
  <2>6. Len(Trim(grown)) >= MinChain
    <3>1. Len(grown) \in Nat
      BY <2>4, PieceFacts
    <3> QED BY <1>1, <1>2, <2>4, <2>5, <3>1, ConstantTypes
  <2>7. LastNumber(Trim(grown)) = to
    BY <2>4, <2>5 DEF LastNumber
  <2> QED BY <1>5, <2>3, <2>4, <2>5, <2>6, <2>7 DEF Followed
<1>6. CASE /\ to > last /\ ~(to > last + Lookback) /\ added.err # "ok"
           /\ IsLinkErr(added.err) /\ anew.err = "ok" /\ ReorgWithinDepth(chain, anew.chain)
  <2>1. r = anew
    <3>1. ~(Len(chain) < MinChain) /\ ~(to <= last)
      BY <1>1, <1>6, ConstantTypes
    <3> HIDE DEF last, fresh, added, anew
    <3> QED BY <1>6, <3>1 DEF ResyncLookback, last, fresh, added, anew
  <2>2. /\ Piece(r.chain) /\ Checked(r.chain, Sealed)
        /\ LastNumber(r.chain) = to
        /\ Len(r.chain) = to \/ Len(r.chain) = Lookback
    <3> HIDE DEF anew
    <3>1. r = WalkHeaders(again, to) /\ r.err = "ok"
      BY <1>6, <2>1 DEF anew
    <3> QED BY <3>1, FreshWindow
  <2>3. Len(r.chain) >= MinChain
    BY <1>3, <1>6, <2>2
  <2>4. ReorgWithinDepth(chain, r.chain)
    BY <1>6, <2>1
  <2> QED BY <1>6, <2>2, <2>3, <2>4 DEF Followed
<1>7. CASE ~(\/ to > last + Lookback /\ fresh.err = "ok"
             \/ to > last /\ ~(to > last + Lookback) /\ added.err = "ok"
             \/ /\ to > last /\ ~(to > last + Lookback) /\ added.err # "ok"
                /\ IsLinkErr(added.err) /\ anew.err = "ok" /\ ReorgWithinDepth(chain, anew.chain))
  <2>1. r.chain = chain
    <3>1. ~(Len(chain) < MinChain)
      BY <1>1, ConstantTypes
    <3>2. to <= last <=> ~(to > last)
      BY <1>1
    <3> HIDE DEF last, fresh, added, anew
    <3>3. \/ r = [chain |-> chain, err |-> "ok"]
          \/ r = [chain |-> chain, err |-> "other"]
      BY <1>7, <3>1, <3>2 DEF ResyncLookback, last, fresh, added, anew
    <3> QED BY <3>3
  <2> QED BY <2>1 DEF Followed
<1> QED BY <1>4, <1>5, <1>6, <1>7

-----------------------------------------------------------------------------
(* The invariant. *)

\* A branch that passed every check may be cut anywhere.
LEMMA HonestChecked ==
  ASSUME NEW b \in Honest
  PROVE  b \in Block /\ Checked(Path[b], Good)
<1>1. b \in Block
  BY DEF Honest
<1>2. Len(Path[b]) = Number(b) /\ Number(b) \in Nat
  BY <1>1, PathFacts DEF Number
<1>3. ASSUME NEW i \in 2 .. Number(b)
      PROVE  Path[b][i] \in Good /\ Cascades(Path[b][i - 1], Path[b][i])
  <2>1. i \in 1 .. Number(b) /\ i > 1
    BY <1>2
  <2> QED BY <2>1 DEF Honest
<1> QED BY <1>1, <1>2, <1>3 DEF Checked

LEMMA GoodIsSealed ==
  ASSUME NEW c, Checked(c, Good)
  PROVE  Checked(c, Sealed)
BY NodeConstants DEF Checked

\* A published view: the head of the chain it was read from, and a block of that chain.
LEMMA PublishFacts ==
  ASSUME NEW c, Piece(c), NEW old \in [head : Nat, safe : Block], old.head <= LastNumber(c),
         NEW t, NEW ok \in BOOLEAN,
         NEW new, new = IF ok /\ HasSafe(c) THEN Published(c, t) ELSE old
  PROVE  /\ new \in [head : Nat, safe : Block]
         /\ new.head <= LastNumber(c)
         /\ new.head >= old.head
<1>1. LastNumber(c) \in Nat /\ Len(c) \in Nat \ {0} /\ \A i \in 1 .. Len(c) : c[i] \in Block
  BY PieceFacts
<1>2. CASE ok /\ HasSafe(c)
  <2>1. new = [head |-> LastNumber(c), safe |-> c[Len(c) - SafeLag]]
    BY <1>2 DEF Published
  <2>2. Len(c) - SafeLag \in 1 .. Len(c)
    BY <1>1, <1>2, ConstantTypes DEF HasSafe
  <2> QED BY <1>1, <2>1, <2>2
<1>3. CASE ~(ok /\ HasSafe(c))
  <2>1. new = old
    BY <1>3
  <2>2. old.head \in Nat
    OBVIOUS
  <2> QED BY <2>1, <2>2
<1> QED BY <1>2, <1>3

\* The chain of a process that has just started.
LEMMA BootFacts ==
  ASSUME NEW s \in Boots, NEW c, c = BootChain(s)
  PROVE  /\ Piece(c) /\ Checked(c, Good)
         /\ LastBlock(c) = Start
         /\ Len(c) > SafeLag
<1> DEFINE p == Path[Start]
           n == Number(Start)
<1>1. Start \in Block /\ Origin \in Block /\ Number(Origin) \in 1 .. n
  BY OriginFacts
<1>2. Checked(p, Good)
  BY HonestChecked, NodeConstants
<1>3. Piece(p) /\ LastBlock(p) = Start /\ Len(p) = n /\ n \in Nat \ {0} /\ p[n] = Start
  BY <1>1, WholeBranch, PathFacts
<1>4. Len(c) > SafeLag
  BY NodeConstants DEF HasSafe
<1> HIDE DEF p, n
<1>5. CASE s = None
  <2> DEFINE from == WindowStart(n)
  <2>1. from \in 1 .. n
    BY <1>3, WindowFacts
  <2>2. c = SubSeq(p, from, n)
    BY <1>5 DEF BootChain, p, n
  <2> HIDE DEF from
  <2>3. from \in 1 .. Len(p) /\ n \in from .. Len(p)
    BY <1>3, <2>1
  <2>4. Piece(SubSeq(p, from, n)) /\ Checked(SubSeq(p, from, n), Good) /\ LastBlock(SubSeq(p, from, n)) = p[n]
    BY <1>2, <1>3, <2>3, CutPiece
  <2> QED BY <1>3, <1>4, <2>2, <2>4
<1>6. CASE s # None
  <2> DEFINE d == SubSeq(p, Number(Origin), n)
  <2>1. c = Trim(d)
    BY <1>6 DEF BootChain, p, n
  <2>2. Number(Origin) \in 1 .. Len(p) /\ n \in Number(Origin) .. Len(p)
    BY <1>1, <1>3
  <2>3. Piece(d) /\ Checked(d, Good) /\ LastBlock(d) = p[n]
    BY <1>2, <1>3, <2>2, CutPiece
  <2> HIDE DEF d
  <2>4. Piece(Trim(d)) /\ Checked(Trim(d), Good) /\ LastBlock(Trim(d)) = LastBlock(d)
    BY <2>3, TrimFacts
  <2> QED BY <1>3, <1>4, <2>1, <2>3, <2>4
<1> QED BY <1>5, <1>6

LEMMA InitInv == Init => NodeInv
<1> SUFFICES ASSUME Init PROVE NodeInv
  OBVIOUS
<1> USE DEF Init
<1>1. Piece(chain) /\ Checked(chain, Good) /\ LastBlock(chain) = Start /\ Len(chain) > SafeLag
  BY BootFacts
<1>2. /\ chain \in Seq(Block) /\ chain # <<>> /\ Len(chain) \in Nat \ {0} /\ LastNumber(chain) \in Nat
      /\ \A i \in 1 .. Len(chain) : chain[i] \in Block
  BY <1>1, PieceFacts DEF Piece
<1>3. Start \in Block /\ snap \in {Start, None} /\ None \notin Block
  BY OriginFacts, NodeConstants
<1>4. rollbacks \in Seq(Block) /\ Len(rollbacks) <= ROLLBACK_KEEP
  BY <1>3, ConstantTypes
<1>5. view \in [head : Nat, safe : Block] /\ view.head = LastNumber(chain)
  <2>1. Len(chain) - SafeLag \in 1 .. Len(chain)
    BY <1>1, <1>2, ConstantTypes
  <2>2. view = [head |-> LastNumber(chain), safe |-> chain[Len(chain) - SafeLag]]
    BY DEF Published
  <2> QED BY <1>2, <2>1, <2>2
<1>6. TypeOK
  BY <1>2, <1>3, <1>4, <1>5 DEF TypeOK
<1>7. Len(chain) >= MinChain
  BY <1>1, <1>2, NodeConstants, ConstantTypes
<1>8. ChainSound
  <2>1. Checked(chain, Sealed)
    BY <1>1, GoodIsSealed
  <2>2. snap # None => snap = LastBlock(chain)
    BY <1>1, <1>3
  <2> QED BY <1>1, <1>7, <2>1, <2>2 DEF ChainSound
<1>9. RollbacksOnChain
  <2>1. \A i \in DOMAIN rollbacks : i = 1 /\ rollbacks[i] = Start
    BY <1>3
  <2>2. OnBranch(Start, Start)
    BY <1>3, BranchSelf
  <2> QED BY <1>1, <2>1, <2>2 DEF RollbacksOnChain
<1>10. canon \in Honest /\ TipsSound
  BY NodeConstants DEF TipsSound
<1> QED BY <1>2, <1>5, <1>6, <1>8, <1>9, <1>10 DEF NodeInv

\* With a snapshot the invariant says that chain, snapshot and points are sound.
LEMMA InvIsSound ==
  ASSUME NodeInv, snap # None
  PROVE  Sound(chain, snap, rollbacks) /\ snap = LastBlock(chain) /\ LastNumber(chain) \in Nat
<1>1. Piece(chain) /\ Checked(chain, Good) /\ snap = LastBlock(chain)
  BY DEF NodeInv, ChainSound
<1>2. rollbacks \in Seq(Block) /\ Len(rollbacks) <= ROLLBACK_KEEP
  BY DEF NodeInv, TypeOK
<1>3. Ascending(rollbacks)
  BY DEF NodeInv, RollbacksOnChain, Ascending
<1>4. \A i \in DOMAIN rollbacks :
        Number(rollbacks[i]) >= FirstNumber(chain) => OnBranch(rollbacks[i], LastBlock(chain))
  BY DEF NodeInv, RollbacksOnChain
<1> QED BY <1>1, <1>2, <1>3, <1>4, PieceFacts DEF Sound

\* The part of a sync that publishes: the thread is idle again, the head does not fall.
LEMMA PublishStep ==
  ASSUME NodeInv, NEW w \in Worker, NEW c, NEW err, Piece(c),
         LastNumber(c) >= LastNumber(chain), Publish(w, c, err)
  PROVE  /\ view' \in [head : Nat, safe : Block]
         /\ view'.head <= LastNumber(c) /\ view'.head >= view.head
         /\ tip' \in [Worker -> Nat \cup {None}]
         /\ \A v \in Worker : tip'[v] # None => tip'[v] > 0
         /\ canon' = canon
<1>1. /\ view \in [head : Nat, safe : Block] /\ view.head <= LastNumber(chain)
      /\ tip \in [Worker -> Nat \cup {None}]
      /\ \A v \in Worker : tip[v] # None => tip[v] > 0
      /\ Piece(chain)
  BY DEF NodeInv, TypeOK, TipsSound, ChainSound
<1>2. LastNumber(c) \in Nat /\ LastNumber(chain) \in Nat /\ view.head \in Nat
  BY <1>1, PieceFacts
<1>3. view.head <= LastNumber(c)
  BY <1>1, <1>2
<1>4. view' = IF err = "ok" /\ HasSafe(c) THEN Published(c, tip[w]) ELSE view
  BY DEF Publish
<1> DEFINE ok == err = "ok"
<1>5. ok \in BOOLEAN /\ view' = IF ok /\ HasSafe(c) THEN Published(c, tip[w]) ELSE view
  BY <1>4
<1> HIDE DEF ok
<1>6. /\ view' \in [head : Nat, safe : Block]
      /\ view'.head <= LastNumber(c) /\ view'.head >= view.head
  BY <1>1, <1>3, <1>5, PublishFacts
<1>7. tip' = [tip EXCEPT ![w] = None] /\ canon' = canon
  BY DEF Publish
<1> QED BY <1>1, <1>6, <1>7

\* The outcome of a walk is taken over.
LEMMA CommitStep ==
  ASSUME NodeInv, NEW w \in Worker, NEW r, NEW points, Sound(r.chain, r.snap, points),
         LastNumber(r.chain) >= LastNumber(chain), Commit(w, r, points)
  PROVE  NodeInv' /\ view'.head >= view.head
<1>1. /\ chain' = r.chain /\ snap' = r.snap
      /\ rollbacks' = IF r.err = "ok" THEN RecordRollback(points, r.snap, FirstNumber(r.chain))
                      ELSE points
      /\ Publish(w, r.chain, r.err)
  BY DEF Commit
<1>2. Sound(chain', snap', rollbacks')
  <2>1. Sound(r.chain, r.snap, RecordRollback(points, r.snap, FirstNumber(r.chain)))
    BY SoundCommit
  <2> QED BY <1>1, <2>1
<1>3. /\ Piece(chain') /\ Checked(chain', Good) /\ snap' = LastBlock(chain')
      /\ rollbacks' \in Seq(Block) /\ Len(rollbacks') <= ROLLBACK_KEEP /\ Ascending(rollbacks')
      /\ \A i \in DOMAIN rollbacks' :
           Number(rollbacks'[i]) >= FirstNumber(chain') => OnBranch(rollbacks'[i], LastBlock(chain'))
  BY <1>2 DEF Sound
<1>4. /\ view' \in [head : Nat, safe : Block]
      /\ view'.head <= LastNumber(chain') /\ view'.head >= view.head
      /\ tip' \in [Worker -> Nat \cup {None}]
      /\ \A v \in Worker : tip'[v] # None => tip'[v] > 0
      /\ canon' = canon
  BY <1>1, <1>3, PublishStep
<1>5. chain' \in Seq(Block) /\ chain' # <<>> /\ LastBlock(chain') \in Block
  BY <1>3, PieceFacts DEF Piece
<1>6. canon \in Block /\ canon \in Honest /\ None \notin Block
  BY NodeConstants DEF NodeInv, TypeOK
<1>7. TypeOK'
  BY <1>3, <1>4, <1>5, <1>6 DEF TypeOK
<1>8. ChainSound'
  BY <1>3, <1>5, <1>6 DEF ChainSound
<1>9. RollbacksOnChain'
  BY <1>3 DEF RollbacksOnChain, Ascending
<1> QED BY <1>4, <1>6, <1>7, <1>8, <1>9 DEF NodeInv, TipsSound

LEMMA SnapshotStepInv ==
  ASSUME NodeInv, NEW w \in Worker, NEW ans, IsAnswer(ans), NEW again, IsAnswer(again),
         SyncWithSnapshot(w, ans, again)
  PROVE  NodeInv' /\ view'.head >= view.head
<1> DEFINE to == tip[w]
           r == AppendNew(chain, snap, ans, to)
<1>1. snap # None /\ to # None /\ to \in Nat
  BY DEF SyncWithSnapshot, NodeInv, TypeOK
<1>2. Sound(chain, LastBlock(chain), rollbacks) /\ snap = LastBlock(chain) /\ LastNumber(chain) \in Nat
  BY <1>1, InvIsSound
<1>3. IF IsLinkErr(r.err) THEN RecoverFromLinkBreak(w, r, again) ELSE Commit(w, r, rollbacks)
  BY DEF SyncWithSnapshot
<1>4. r = AppendNew(chain, LastBlock(chain), ans, to)
  BY <1>2
<1> HIDE DEF r, to
<1>5. /\ Sound(r.chain, r.snap, rollbacks)
      /\ LastNumber(r.chain) >= LastNumber(chain)
      /\ r.err # "ok" => to > LastNumber(chain)
  BY <1>1, <1>2, <1>4, SoundAppend
<1>6. Sound(r.chain, LastBlock(r.chain), rollbacks) /\ LastNumber(r.chain) \in Nat
  <2>1. r.snap = LastBlock(r.chain) /\ Piece(r.chain)
    BY <1>5 DEF Sound
  <2> QED BY <1>5, <2>1, PieceFacts
<1>7. CASE Commit(w, r, rollbacks)
  BY <1>5, <1>7, CommitStep
<1>8. CASE IsLinkErr(r.err) /\ ~Commit(w, r, rollbacks)
  <2>1. to > LastNumber(chain)
    BY <1>5, <1>8 DEF IsLinkErr
  <2>2. CASE \E point \in SearchEnd(r.chain, again, to) :
               LET q == Retry(point, r.chain, again, to)
               IN  q.err = "ok" /\ Commit(w, q, PopAbove(rollbacks, point))
    <3>1. PICK point \in SearchEnd(r.chain, again, to) :
               LET q == Retry(point, r.chain, again, to)
               IN  q.err = "ok" /\ Commit(w, q, PopAbove(rollbacks, point))
      BY <2>2
    <3>2. \E i \in DOMAIN rollbacks : point = rollbacks[i] /\ Usable(rollbacks[i], r.chain, to)
      BY DEF SearchEnd
    <3>3. PICK i \in DOMAIN rollbacks : point = rollbacks[i] /\ Usable(rollbacks[i], r.chain, to)
      BY <3>2
    <3> DEFINE q == Retry(rollbacks[i], r.chain, again, to)
    <3>4. q.err = "ok" /\ Commit(w, q, PopAbove(rollbacks, rollbacks[i]))
      BY <3>1, <3>3
    <3>5. q = Retry(rollbacks[i], r.chain, again, to)
      OBVIOUS
    <3> HIDE DEF q
    <3>6. Sound(q.chain, q.snap, PopAbove(rollbacks, rollbacks[i])) /\ LastNumber(q.chain) >= to
      BY <1>1, <1>6, <3>3, <3>4, <3>5, SoundRetry
    <3>7. LastNumber(q.chain) \in Nat
      BY <3>6, PieceFacts DEF Sound
    <3>8. LastNumber(q.chain) >= LastNumber(chain)
      BY <1>1, <1>2, <2>1, <3>6, <3>7
    <3> QED BY <3>4, <3>6, <3>8, CommitStep
  <2>3. CASE Replay(again, to).err = "ok" /\ Commit(w, Replay(again, to), <<>>)
    <3> DEFINE q == Replay(again, to)
    <3>1. q = Replay(again, to) /\ q.err = "ok" /\ Commit(w, q, <<>>)
      BY <2>3
    <3> HIDE DEF q
    <3>2. Sound(q.chain, q.snap, <<>>) /\ LastNumber(q.chain) >= to
      BY <1>1, <3>1, SoundReplay
    <3>3. LastNumber(q.chain) \in Nat
      BY <3>2, PieceFacts DEF Sound
    <3>4. LastNumber(q.chain) >= LastNumber(chain)
      BY <1>1, <1>2, <2>1, <3>2, <3>3
    <3> QED BY <3>1, <3>2, <3>4, CommitStep
  <2>4. RecoverFromLinkBreak(w, r, again)
    BY <1>3, <1>8
  <2> QED BY <1>8, <2>2, <2>3, <2>4, Zenon DEF RecoverFromLinkBreak, to
<1> QED BY <1>3, <1>7, <1>8

LEMMA LookbackStepInv ==
  ASSUME NodeInv, NEW w \in Worker, NEW ans, IsAnswer(ans), NEW again, IsAnswer(again),
         SyncLookback(w, ans, again)
  PROVE  /\ NodeInv' /\ view'.head >= view.head
         /\ \E r : chain' = r.chain /\ Followed(r, tip[w])
                   /\ (chain' = chain \/ LastNumber(chain') = tip[w])
<1> DEFINE to == tip[w]
           r == ResyncLookback(ans, again, to)
<1>1. snap = None /\ to # None /\ to \in Nat \ {0}
  BY NodeConstants DEF SyncLookback, NodeInv, TypeOK, TipsSound
<1>2. /\ Piece(chain) /\ Checked(chain, Sealed) /\ Len(chain) >= MinChain /\ rollbacks = <<>>
      /\ LastNumber(chain) \in Nat
  <2>1. Piece(chain) /\ Checked(chain, Sealed) /\ Len(chain) >= MinChain /\ rollbacks = <<>>
    BY <1>1 DEF NodeInv, ChainSound
  <2> QED BY <2>1, PieceFacts
<1>3. chain' = r.chain /\ Publish(w, r.chain, r.err) /\ snap' = snap /\ rollbacks' = rollbacks
  BY DEF SyncLookback
<1>4. r = ResyncLookback(ans, again, to)
  OBVIOUS
<1> HIDE DEF r, to
<1>5. /\ Piece(r.chain) /\ Checked(r.chain, Sealed) /\ Len(r.chain) >= MinChain
      /\ r.chain = chain \/ (LastNumber(r.chain) = to /\ to > LastNumber(chain))
      /\ Followed(r, to)
  BY <1>1, <1>2, <1>4, LookbackFacts
<1>6. LastNumber(r.chain) >= LastNumber(chain)
  <2>1. LastNumber(r.chain) \in Nat
    BY <1>5, PieceFacts
  <2> QED BY <1>1, <1>2, <1>5, <2>1
<1>7. /\ view' \in [head : Nat, safe : Block]
      /\ view'.head <= LastNumber(chain') /\ view'.head >= view.head
      /\ tip' \in [Worker -> Nat \cup {None}]
      /\ \A v \in Worker : tip'[v] # None => tip'[v] > 0
      /\ canon' = canon
  BY <1>3, <1>5, <1>6, PublishStep
<1>8. chain' \in Seq(Block) /\ chain' # <<>>
  BY <1>3, <1>5 DEF Piece
<1>9. TypeOK'
  BY <1>1, <1>3, <1>7, <1>8 DEF TypeOK, NodeInv
<1>10. ChainSound'
  BY <1>1, <1>2, <1>3, <1>5 DEF ChainSound
<1>11. RollbacksOnChain'
  <2>1. DOMAIN rollbacks' = {}
    BY <1>2, <1>3
  <2> QED BY <2>1 DEF RollbacksOnChain
<1>12. NodeInv'
  BY <1>7, <1>9, <1>10, <1>11 DEF NodeInv, TipsSound
<1> QED BY <1>3, <1>5, <1>7, <1>12 DEF to

\* Every answer to either round of requests holds blocks at their heights.
LEMMA RepliesAreAnswers ==
  ASSUME NodeInv, NEW w \in Worker, NEW ans \in Replies(w), NEW again \in Repeated(w, ans)
  PROVE  IsAnswer(ans) /\ IsAnswer(again)
<1>1. canon \in Block
  BY DEF NodeInv, TypeOK
<1>2. ans \in Answers[canon]
  BY DEF Replies
<1>3. again \in Answers[canon]
  <2>1. again \in Answers[canon] \/ again = <<>>
    BY DEF Repeated
  <2>2. <<>> \in Answers[canon]
    BY <1>1 DEF Answers
  <2> QED BY <2>1, <2>2
<1> QED BY <1>1, <1>2, <1>3, AnswerFacts

\* Every step keeps the invariant and the published head.
LEMMA StepInv ==
  ASSUME NodeInv, [Next]_vars
  PROVE  NodeInv' /\ view'.head >= view.head
<1>1. view.head \in Nat /\ tip \in [Worker -> Nat \cup {None}] /\ canon \in Block
  BY DEF NodeInv, TypeOK
<1>2. CASE UNCHANGED vars
  <2>1. NodeInv'
    BY <1>2 DEF vars, NodeInv, TypeOK, ChainSound, RollbacksOnChain, TipsSound
  <2> QED BY <1>1, <1>2, <2>1 DEF vars
<1>3. ASSUME NEW b \in Block, MoveCanon(b) PROVE NodeInv' /\ view'.head >= view.head
  <2>1. UNCHANGED <<chain, snap, rollbacks, tip, view>> /\ canon' \in Honest /\ canon' \in Block
    BY <1>3 DEF MoveCanon
  <2>2. TypeOK'
    BY <2>1 DEF NodeInv, TypeOK
  <2>3. ChainSound' /\ RollbacksOnChain' /\ TipsSound'
    BY <2>1 DEF NodeInv, ChainSound, RollbacksOnChain, TipsSound
  <2> QED BY <1>1, <2>1, <2>2, <2>3 DEF NodeInv
<1>4. ASSUME NEW w \in Worker, UNCHANGED <<canon, chain, snap, rollbacks, view>>,
             NEW h, h = None \/ h \in Nat \ {0}, tip' = [tip EXCEPT ![w] = h]
      PROVE  NodeInv' /\ view'.head >= view.head
  <2>1. tip' \in [Worker -> Nat \cup {None}]
    BY <1>1, <1>4
  <2>2. TypeOK'
    BY <1>4, <2>1 DEF NodeInv, TypeOK
  <2>3. TipsSound'
    BY <1>1, <1>4 DEF NodeInv, TipsSound
  <2>4. ChainSound' /\ RollbacksOnChain'
    BY <1>4 DEF NodeInv, ChainSound, RollbacksOnChain
  <2> QED BY <1>1, <1>4, <2>2, <2>3, <2>4 DEF NodeInv
<1>5. ASSUME NEW w \in Worker, SampleTip(w) PROVE NodeInv' /\ view'.head >= view.head
  <2>1. Number(canon) \in Nat \ {0}
    BY <1>1, NumberType
  <2> QED BY <1>4, <1>5, <2>1 DEF SampleTip
<1>6. ASSUME NEW w \in Worker, SyncTooFar(w) PROVE NodeInv' /\ view'.head >= view.head
  BY <1>4, <1>6 DEF SyncTooFar
<1>7. ASSUME NEW w \in Worker, NEW ans \in Replies(w), NEW again \in Repeated(w, ans),
             SyncWithSnapshot(w, ans, again) \/ SyncLookback(w, ans, again)
      PROVE  NodeInv' /\ view'.head >= view.head
  <2>1. IsAnswer(ans) /\ IsAnswer(again)
    BY RepliesAreAnswers
  <2> QED BY <1>7, <2>1, SnapshotStepInv, LookbackStepInv
<1> QED BY <1>2, <1>3, <1>5, <1>6, <1>7 DEF Next

LEMMA AlwaysInv == Spec => []NodeInv
<1>1. NodeInv /\ [Next]_vars => NodeInv'
  BY StepInv
<1> QED BY <1>1, InitInv, PTL DEF Spec

\* A piece is the part of its last block's branch between its ends.
LEMMA PieceIsPath ==
  ASSUME NEW c, Piece(c)
  PROVE  c = SubSeq(Path[LastBlock(c)], FirstNumber(c), LastNumber(c))
<1> DEFINE b == LastBlock(c)
           f == FirstNumber(c)
           l == LastNumber(c)
           p == Path[b]
           d == SubSeq(p, f, l)
<1>1. /\ c \in Seq(Block) /\ Len(c) \in Nat \ {0} /\ b \in Block
      /\ f \in Nat \ {0} /\ l \in Nat /\ l = f + Len(c) - 1
      /\ \A i \in 1 .. Len(c) : Number(c[i]) = f + i - 1 /\ OnBranch(c[i], b)
  BY PieceFacts
<1>2. p \in Seq(Block) /\ Len(p) = l
  BY <1>1, PathFacts DEF LastNumber, Number
<1> HIDE DEF b, f, l, p
<1>3. f \in 1 .. l + 1 /\ f \in 1 .. Len(p) + 1 /\ l \in f - 1 .. Len(p)
  BY <1>1, <1>2
<1>4. /\ d \in Seq(Block) /\ Len(d) = l - f + 1
      /\ \A i \in 1 .. l - f + 1 : d[i] = p[f + i - 1]
  BY <1>2, <1>3, SubSeqProperties
<1>5. Len(d) = Len(c)
  BY <1>1, <1>4
<1>6. ASSUME NEW i \in 1 .. Len(c) PROVE c[i] = d[i]
  <2>1. p[Number(c[i])] = c[i] /\ Number(c[i]) = f + i - 1
    BY <1>1 DEF OnBranch, p
  <2>2. i \in 1 .. l - f + 1
    BY <1>1, <1>6
  <2> QED BY <1>4, <2>1, <2>2
<1> HIDE DEF d
<1>7. c = d
  BY <1>1, <1>4, <1>5, <1>6, SeqEqual
<1> QED BY <1>7 DEF d, b, f, l, p

\* Whatever the upstream serves, however its chain is reorganised and however many threads
\* sync, the chain, the snapshot and the rollback points stay in step: the chain is an
\* unbroken, checked piece of one branch, the snapshot stands at its end, and every
\* retained snapshot the chain still covers is a block of it (resync_locked,
\* recover_from_link_break, record_rollback).
THEOREM ChainSnapshotInStep == Spec => []InStep
<1>1. NodeInv => InStep
  <2> SUFFICES ASSUME NodeInv PROVE InStep
    OBVIOUS
  <2>1. Piece(chain)
    BY DEF NodeInv, ChainSound
  <2>2. chain = SubSeq(Path[LastBlock(chain)], FirstNumber(chain), LastNumber(chain))
    BY <2>1, PieceIsPath
  <2>3. Aligned
    BY <2>2 DEF Aligned, NodeInv, ChainSound, Checked
  <2> QED BY <2>3 DEF InStep, NodeInv
<1> QED BY <1>1, AlwaysInv, PTL

\* The head that readers see never moves back: each sync publishes the head of the chain it
\* holds the lock of, and no sync, recovery or replay leaves a shorter chain (refresh_now).
THEOREM PublishedHeadMonotone == Spec => HeadNeverRegresses
<1>1. NodeInv /\ [Next]_vars => [view'.head >= view.head]_vars
  BY StepInv
<1> QED BY <1>1, AlwaysInv, PTL DEF Spec, HeadNeverRegresses

-----------------------------------------------------------------------------
(* Which reorganisations are followed. *)

\* The blocks of an honest branch pass their checks, one after the other.
LEMMA HonestBlocks ==
  ASSUME NEW b \in Honest
  PROVE  /\ IsAnswer(Path[b]) /\ DOMAIN Path[b] = 1 .. Number(b) /\ Number(b) \in Nat \ {0}
         /\ \A n \in 1 .. Number(b) :
              /\ Path[b][n] \in Block /\ Path[b][n] \in Good /\ Path[b][n] \in Sealed
              /\ Number(Path[b][n]) = n
         /\ \A n \in 2 .. Number(b) :
              Parent[Path[b][n]] = Path[b][n - 1] /\ Cascades(Path[b][n - 1], Path[b][n])
<1>1. b \in Block /\ Good \subseteq Sealed
  BY NodeConstants DEF Honest
<1>2. /\ Number(b) \in Nat \ {0} /\ Path[b] \in [1 .. Number(b) -> Block]
      /\ \A i \in 1 .. Number(b) :
           /\ Path[b][i] \in Block
           /\ Number(Path[b][i]) = i
           /\ \A j \in 1 .. i : Path[Path[b][i]][j] = Path[b][j]
  BY <1>1, PathFacts
<1>3. DOMAIN Path[b] = 1 .. Number(b)
  BY <1>2
<1>4. IsAnswer(Path[b])
  BY <1>2, <1>3 DEF IsAnswer
<1>5. ASSUME NEW n \in 2 .. Number(b)
      PROVE  Parent[Path[b][n]] = Path[b][n - 1] /\ Cascades(Path[b][n - 1], Path[b][n])
  <2>1. n \in 1 .. Number(b) /\ n > 1 /\ n - 1 \in 1 .. Number(b) /\ n - 1 \in 1 .. n
    BY <1>2
  <2>2. Cascades(Path[b][n - 1], Path[b][n])
    BY <2>1 DEF Honest
  <2>3. /\ Path[b][n] \in Block /\ Path[b][n - 1] \in Block
        /\ Number(Path[b][n]) = n /\ Number(Path[b][n - 1]) = n - 1
        /\ Path[Path[b][n]][n - 1] = Path[b][n - 1]
    BY <1>2, <2>1
  <2>4. Number(Path[b][n]) = Number(Path[b][n - 1]) + 1 /\ OnBranch(Path[b][n - 1], Path[b][n])
    BY <2>1, <2>3 DEF OnBranch
  <2> QED BY <2>2, <2>3, <2>4, ParentFacts
<1>6. \A n \in 1 .. Number(b) : Path[b][n] \in Good
  BY DEF Honest
<1> QED BY <1>1, <1>2, <1>3, <1>4, <1>5, <1>6

\* A walk of an honest branch, untorn and not stopped by the clock, succeeds or breaks the
\* parent link at its first header; it succeeds from every block of the branch.
LEMMA HonestWalk ==
  ASSUME NEW c, Piece(c), Checked(c, Good), NEW b \in Honest,
         LastNumber(c) < Number(b) => Cascades(LastBlock(c), Path[b][LastNumber(c) + 1]),
         NEW r, r = Walked(c, LastBlock(c), Path[b], Number(b))
  PROVE  /\ r.err = "ok" \/ (r.err = "link" /\ r.chain = c)
         /\ OnBranch(LastBlock(c), b) => r.err = "ok"
<1> DEFINE last == LastNumber(c)
           at == LastBlock(c)
           ans == Path[b]
           to == Number(b)
           below(n) == IF n = last + 1 THEN at ELSE ans[n - 1]
           step(n) == SnapshotStep(below(n), below(n), ans[n])
           bad == {n \in last + 1 .. to : step(n) # "ok"}
           upto == IF bad = {} THEN to ELSE Min(bad) - 1
<1>1. last \in Nat \ {0} /\ c \in Seq(Block) /\ at \in Block
  BY PieceFacts
<1>2. /\ DOMAIN ans = 1 .. to /\ to \in Nat \ {0}
      /\ \A n \in 1 .. to : ans[n] \in Block /\ ans[n] \in Good /\ ans[n] \in Sealed /\ Number(ans[n]) = n
      /\ \A n \in 2 .. to : Parent[ans[n]] = ans[n - 1] /\ Cascades(ans[n - 1], ans[n])
  BY HonestBlocks
<1>3. CASE to <= last
  <2>1. r = [chain |-> c, snap |-> at, err |-> "ok"]
    BY <1>3 DEF Walked
  <2> QED BY <2>1
<1>4. CASE last < to
  <2>1. last + 1 \in 1 .. to /\ last + 1 \in last + 1 .. to /\ Cascades(at, ans[last + 1])
    BY <1>1, <1>2, <1>4
  <2>2. ASSUME NEW n \in last + 1 .. to, n # last + 1 PROVE step(n) = "ok"
    <3>1. n \in 1 .. to /\ n \in 2 .. to
      BY <1>1, <1>2, <2>2
    <3>2. below(n) = ans[n - 1]
      BY <2>2
    <3>3. SnapshotStep(ans[n - 1], ans[n - 1], ans[n]) = "ok"
      <4> HIDE DEF ans, to, last
      <4> QED BY <1>2, <3>1 DEF SnapshotStep
    <3> QED BY <3>2, <3>3
  <2>3. step(last + 1) = IF Parent[ans[last + 1]] = at THEN "ok" ELSE "link"
    <3>1. below(last + 1) = at
      OBVIOUS
    <3>2. SnapshotStep(at, at, ans[last + 1]) = IF Parent[ans[last + 1]] = at THEN "ok" ELSE "link"
      <4> HIDE DEF ans, to, last, at
      <4> QED BY <1>2, <2>1 DEF SnapshotStep
    <3> QED BY <3>1, <3>2
  <2>4. ~(to <= last) /\ Reaches(ans, to)
    <3> HIDE DEF ans, to, last
    <3> QED BY <1>1, <1>2, <1>4 DEF Reaches
  <2>5. r = [chain |-> c \o SubSeq(ans, last + 1, upto),
             snap  |-> below(upto + 1),
             err   |-> IF bad = {} THEN "ok" ELSE step(Min(bad))]
    BY <2>4 DEF Walked
  <2>6. CASE Parent[ans[last + 1]] = at
    <3>1. bad = {}
      <4> HIDE DEF step
      <4> QED BY <2>2, <2>3, <2>6
    <3>2. r.err = "ok"
      <4> HIDE DEF bad, upto, below, step
      <4> QED BY <2>5, <3>1
    <3> QED BY <3>2
  <2>7. CASE Parent[ans[last + 1]] # at
    <3>1. bad = {last + 1}
      <4> HIDE DEF step
      <4> QED BY <2>1, <2>2, <2>3, <2>7
    <3>2. Min(bad) = last + 1
      <4>1. bad \in SUBSET Nat /\ bad # {}
        BY <1>1, <3>1, SMTT(30)
      <4>2. Min(bad) \in bad
        <5> HIDE DEF bad
        <5> QED BY <4>1, MinExists
      <4> HIDE DEF bad
      <4> QED BY <3>1, <4>2
    <3>3. upto = last
      <4>1. bad # {}
        BY <3>1
      <4> HIDE DEF bad
      <4>2. upto = (last + 1) - 1
        BY <3>2, <4>1
      <4> HIDE DEF upto
      <4> QED BY <1>1, <4>2
    <3>4. r.err = "link"
      <4>1. step(Min(bad)) = "link"
        <5> HIDE DEF bad, step
        <5> QED BY <2>3, <2>7, <3>2
      <4>2. bad # {}
        BY <3>1
      <4> HIDE DEF bad, upto, below, step
      <4> QED BY <2>5, <4>1, <4>2
    <3>5. r.chain = c
      <4>1. r.chain = c \o SubSeq(ans, last + 1, last)
        <5> HIDE DEF bad, below, step, upto
        <5> DEFINE x == c \o SubSeq(ans, last + 1, upto)
                   y == below(upto + 1)
                   z == IF bad = {} THEN "ok" ELSE step(Min(bad))
        <5>1. r.chain = x
          <6>1. r = [chain |-> x, snap |-> y, err |-> z]
            BY <2>5, Zenon
          <6> HIDE DEF x, y, z
          <6> QED BY <6>1
        <5> QED BY <3>3, <5>1, Zenon
      <4>2. SubSeq(ans, last + 1, last) = <<>>
        <5>1. last + 1 \in Int /\ last \in Int /\ last < last + 1
          BY <1>1
        <5> QED BY <5>1, SubSeqEmpty
      <4> QED BY <1>1, <4>1, <4>2, ConcatEmptySeq
    <3>6. ~OnBranch(at, b)
      <4> SUFFICES ASSUME OnBranch(at, b) PROVE FALSE
        OBVIOUS
      <4>1. ans[last] = at
        BY DEF OnBranch, LastNumber
      <4>2. last + 1 \in 2 .. to /\ (last + 1) - 1 = last
        BY <1>1, <2>1
      <4>3. Parent[ans[last + 1]] = ans[last]
        <5> HIDE DEF ans, last, to
        <5> QED BY <1>2, <4>2
      <4> QED BY <2>7, <4>1, <4>3
    <3> QED BY <3>4, <3>5, <3>6
  <2> QED BY <2>6, <2>7
<1> QED BY <1>1, <1>2, <1>3, <1>4

\* The same of the append, which trims a chain only when the walk succeeded.
LEMMA HonestAppend ==
  ASSUME NEW c, Piece(c), Checked(c, Good), NEW b \in Honest,
         LastNumber(c) < Number(b) => Cascades(LastBlock(c), Path[b][LastNumber(c) + 1]),
         NEW r, r = AppendNew(c, LastBlock(c), Path[b], Number(b))
  PROVE  /\ r.err = "ok" \/ (r.err = "link" /\ r.chain = c)
         /\ OnBranch(LastBlock(c), b) => r.err = "ok"
<1> DEFINE q == Walked(c, LastBlock(c), Path[b], Number(b))
<1>1. IsAnswer(Path[b]) /\ Number(b) \in Nat
  BY HonestBlocks
<1>2. q = [chain |-> q.chain, snap |-> q.snap, err |-> q.err]
  BY <1>1, WalkedFacts
<1>3. /\ q.err = "ok" \/ (q.err = "link" /\ q.chain = c)
      /\ OnBranch(LastBlock(c), b) => q.err = "ok"
  BY HonestWalk
<1>4. r = [q EXCEPT !.chain = IF q.err = "ok" /\ Number(b) > LastNumber(c) THEN Trim(@) ELSE @]
  BY DEF AppendNew
<1> HIDE DEF q
<1>5. r.err = q.err
  BY <1>2, <1>4
<1>6. q.err # "ok" => r.chain = q.chain
  BY <1>2, <1>4
<1> QED BY <1>3, <1>5, <1>6

\* While one retained snapshot in the chain's window is on the upstream's branch, an untorn
\* sync follows that branch, whatever the depth of the reorganisation and whatever earlier
\* syncs left behind, unless a clock hides it (recover_from_link_break).
THEOREM CoveredReorgsRecover == Spec => []ReorgRecoverable
<1>1. NodeInv => ReorgRecoverable
  <2> SUFFICES ASSUME NodeInv, Covered, ~CascadeHides PROVE Recovers
    BY DEF ReorgRecoverable
  <2> DEFINE to == Number(canon)
             r == AppendNew(chain, snap, Settled, to)
             n == Len(rollbacks)
             outcome(i) == Retry(rollbacks[i], chain, Settled, to)
             ends == {i \in DOMAIN rollbacks :
                        Usable(rollbacks[i], chain, to) /\ ~IsLinkErr(outcome(i).err)}
  <2>1. snap # None /\ canon \in Honest /\ Settled = Path[canon] /\ canon \in Block
    BY DEF Covered, NodeInv, Settled, Honest
  <2>2. Sound(chain, LastBlock(chain), rollbacks) /\ snap = LastBlock(chain)
    BY <2>1, InvIsSound
  <2>3. Piece(chain) /\ Checked(chain, Good) /\ rollbacks \in Seq(Block)
    BY <2>2 DEF Sound
  <2>4. to \in Nat
    BY <2>1, NumberType
  <2>5. n \in Nat /\ DOMAIN rollbacks = 1 .. n /\ \A i \in 1 .. n : rollbacks[i] \in Block
    BY <2>3, LenProperties, ElementOfSeq
  <2>6. LastNumber(chain) \in Nat /\ FirstNumber(chain) \in Nat /\ LastBlock(chain) \in Block
    BY <2>3, PieceFacts
  <2>7. r.err = "ok" \/ (r.err = "link" /\ r.chain = chain)
    <3>1. LastNumber(chain) < Number(canon) => Cascades(LastBlock(chain), Path[canon][LastNumber(chain) + 1])
      BY DEF CascadeHides, UnfitAfter, LastNumber
    <3>2. r = AppendNew(chain, LastBlock(chain), Path[canon], Number(canon))
      BY <2>1, <2>2
    <3> HIDE DEF r, to
    <3> QED BY <2>1, <2>3, <3>1, <3>2, HonestAppend
  <2>8. ASSUME NEW i \in DOMAIN rollbacks, Usable(rollbacks[i], chain, to)
        PROVE  /\ outcome(i).err = "ok" \/ outcome(i).err = "link"
               /\ OnBranch(rollbacks[i], canon) => outcome(i).err = "ok"
    <3> DEFINE point == rollbacks[i]
               c == UpTo(chain, Number(point))
               q == outcome(i)
    <3>1. point \in Block /\ Number(point) \in Nat
      BY <2>5, NumberType
    <3>2. OnBranch(point, LastBlock(chain))
      <4>1. Number(point) >= FirstNumber(chain)
        BY <2>6, <2>8, <3>1 DEF Usable
      <4> QED BY <2>2, <4>1 DEF Sound
    <3>3. Piece(c) /\ Checked(c, Good) /\ LastBlock(c) = point
      <4> HIDE DEF point
      <4> QED BY <2>3, <2>8, <3>1, <3>2, UpToFacts DEF point
    <3>4. q = AppendNew(c, LastBlock(c), Path[canon], Number(canon))
      BY <2>1, <3>3 DEF Retry
    <3>5. LastNumber(c) < Number(canon) => Cascades(LastBlock(c), Path[canon][LastNumber(c) + 1])
      <4>1. ~UnfitAfter(point)
        BY <2>8 DEF CascadeHides
      <4> HIDE DEF c, point
      <4> QED BY <3>3, <4>1 DEF UnfitAfter, LastNumber
    <3> HIDE DEF c, q
    <3>6. /\ q.err = "ok" \/ (q.err = "link" /\ q.chain = c)
          /\ OnBranch(LastBlock(c), canon) => q.err = "ok"
      BY <2>1, <3>3, <3>4, <3>5, HonestAppend
    <3> QED BY <3>3, <3>6 DEF q
  <2>9. CASE r.err = "ok"
    BY <2>9 DEF Recovers, IsLinkErr
  <2>10. CASE r.err = "link" /\ r.chain = chain
    <3>1. PICK i \in DOMAIN rollbacks : Usable(rollbacks[i], chain, to) /\ OnBranch(rollbacks[i], canon)
      BY DEF Covered
    <3>2. i \in ends
      BY <2>8, <3>1 DEF IsLinkErr
    <3> DEFINE k == Max(ends)
    <3>3. k \in ends /\ \A j \in ends : j <= k
      <4>1. ends \in SUBSET (0 .. n) /\ ends # {}
        BY <2>5, <3>2
      <4> HIDE DEF ends, n
      <4>2. k \in ends /\ \A j \in ends : k >= j
        BY <2>5, <4>1, MaxExists
      <4>3. \A j \in ends : j \in Int
        BY <2>5, <4>1
      <4> HIDE DEF k
      <4> QED BY <4>2, <4>3
    <3>4. k \in DOMAIN rollbacks /\ Usable(rollbacks[k], chain, to) /\ ~IsLinkErr(outcome(k).err)
      <4> HIDE DEF k
      <4> QED BY <3>3
    <3>5. rollbacks[k] \in SearchEnd(chain, Settled, to)
      <4> HIDE DEF k
      <4>1. k \in {m \in ends : \A j \in ends : j <= m}
        BY <3>3
      <4>2. rollbacks[k] \in {rollbacks[m] : m \in {x \in ends : \A j \in ends : j <= x}}
        BY <4>1
      <4> QED BY <4>2 DEF SearchEnd
    <3>6. outcome(k).err = "ok"
      <4> HIDE DEF k
      <4> QED BY <2>8, <3>4 DEF IsLinkErr
    <3> HIDE DEF k, ends
    <3>7. \E point \in SearchEnd(r.chain, Settled, to) : Retry(point, r.chain, Settled, to).err = "ok"
      BY <2>10, <3>5, <3>6
    <3> QED BY <2>10, <3>7 DEF Recovers, IsLinkErr
  <2> QED BY <2>7, <2>9, <2>10
<1> QED BY <1>1, AlwaysInv, PTL

\* Two branches that share a block agree up to it at least.
LEMMA SharedBlock ==
  ASSUME NEW a \in Block, NEW b \in Block, NEW x \in Block, OnBranch(x, a), OnBranch(x, b)
  PROVE  ForkHeight(a, b) \in Nat /\ ForkHeight(a, b) >= Number(x)
<1> DEFINE m == Min({Number(a), Number(b)})
           S == {0} \cup {n \in 1 .. m : Path[a][n] = Path[b][n]}
<1>1. Number(a) \in Nat /\ Number(b) \in Nat /\ Number(x) \in Nat \ {0}
  BY NumberType
<1>2. m \in {Number(a), Number(b)}
  BY <1>1, MinOfTwo
<1>3. Number(x) <= Number(a) /\ Number(x) <= Number(b) /\ Path[a][Number(x)] = Path[b][Number(x)]
  BY DEF OnBranch
<1> HIDE DEF m
<1>4. m \in Nat /\ Number(x) \in 1 .. m
  BY <1>1, <1>2, <1>3
<1>5. Number(x) \in S /\ S \in SUBSET (0 .. m)
  BY <1>3, <1>4
<1> HIDE DEF S
<1>6. Max(S) \in S /\ Max(S) >= Number(x)
  BY <1>4, <1>5, MaxExists
<1>7. ForkHeight(a, b) = Max(S)
  BY DEF ForkHeight, S, m
<1>8. Max(S) \in 0 .. m
  BY <1>5, <1>6, Zenon
<1>9. Max(S) \in Nat
  BY <1>4, <1>8
<1> QED BY <1>6, <1>7, <1>9, Zenon

\* Without a snapshot a node leaves its branch only for one that forks off within
\* MaxReorgDepth of its tip, as long as it has not fallen a whole window behind
\* (accept_lookback_resync, reorg_within_depth).
THEOREM LeavesWithinDepth == Spec => FollowsWithinDepth
<1> DEFINE Depth == snap = None /\ LastNumber(chain') <= LastNumber(chain) + Lookback => WithinDepth
<1>1. NodeInv /\ [Next]_vars => [Depth]_chain
  <2> SUFFICES ASSUME NodeInv, Next, chain' # chain, snap = None,
                      LastNumber(chain') <= LastNumber(chain) + Lookback
               PROVE  WithinDepth
    BY DEF vars
  <2> DEFINE a == LastBlock(chain)
             b == LastBlock(chain')
             f == ForkHeight(a, b)
  <2>1. PICK w \in Worker : \E ans \in Replies(w) : \E again \in Repeated(w, ans) :
                              SyncLookback(w, ans, again)
    BY DEF Next, MoveCanon, SampleTip, SyncTooFar, SyncWithSnapshot
  <2>2. PICK ans \in Replies(w) : \E again \in Repeated(w, ans) : SyncLookback(w, ans, again)
    BY <2>1
  <2>3. PICK again \in Repeated(w, ans) : SyncLookback(w, ans, again)
    BY <2>2
  <2>4. IsAnswer(ans) /\ IsAnswer(again)
    BY RepliesAreAnswers
  <2>5. /\ NodeInv'
        /\ \E r : chain' = r.chain /\ Followed(r, tip[w])
                  /\ (chain' = chain \/ LastNumber(chain') = tip[w])
    BY <2>3, <2>4, LookbackStepInv
  <2>6. PICK r : chain' = r.chain /\ Followed(r, tip[w])
                 /\ (chain' = chain \/ LastNumber(chain') = tip[w])
    BY <2>5
  <2>7. Piece(chain) /\ Piece(chain')
    BY <2>5 DEF NodeInv, ChainSound
  <2>8. a \in Block /\ b \in Block /\ LastNumber(chain) \in Nat /\ LastNumber(chain') \in Nat
    BY <2>7, PieceFacts
  <2>9. LastNumber(chain') = tip[w]
    BY <2>6
  <2>10. \E x \in Block : /\ OnBranch(x, a) /\ OnBranch(x, b)
                          /\ Number(x) >= LastNumber(chain) - MaxReorgDepth
    <3>1. CASE OnBranch(a, b)
      <4>1. OnBranch(a, a)
        BY <2>8, BranchSelf
      <4>2. Number(a) >= LastNumber(chain) - MaxReorgDepth
        BY <2>8, ConstantTypes DEF LastNumber
      <4> QED BY <2>8, <3>1, <4>1, <4>2
    <3>2. CASE ReorgWithinDepth(chain, chain')
      <4>1. PICK i \in DOMAIN chain : /\ Number(chain[i]) >= LastNumber(chain) - MaxReorgDepth
                                      /\ \E j \in DOMAIN chain' : chain'[j] = chain[i]
        BY <3>2 DEF ReorgWithinDepth
      <4>2. PICK j \in DOMAIN chain' : chain'[j] = chain[i]
        BY <4>1
      <4>3. chain[i] \in Block /\ OnBranch(chain[i], a)
        BY <2>7, PieceFacts
      <4>4. OnBranch(chain'[j], b)
        BY <2>7, PieceFacts
      <4> QED BY <4>1, <4>2, <4>3, <4>4
    <3>3. ~(tip[w] > LastNumber(chain) + Lookback)
      BY <2>8, <2>9, ConstantTypes
    <3>4. OnBranch(a, b) \/ ReorgWithinDepth(chain, chain')
      BY <2>6, <3>3 DEF Followed
    <3> QED BY <3>1, <3>2, <3>4
  <2>11. PICK x \in Block : /\ OnBranch(x, a) /\ OnBranch(x, b)
                            /\ Number(x) >= LastNumber(chain) - MaxReorgDepth
    BY <2>10
  <2>12. f \in Nat /\ f >= Number(x) /\ Number(x) \in Nat
    BY <2>8, <2>11, SharedBlock, NumberType
  <2>13. f >= LastNumber(chain) - MaxReorgDepth
    <3> HIDE DEF f
    <3> QED BY <2>8, <2>11, <2>12, ConstantTypes
  <2> QED BY <2>13 DEF WithinDepth
<1> QED BY <1>1, AlwaysInv, PTL DEF Spec, FollowsWithinDepth
=============================================================================
