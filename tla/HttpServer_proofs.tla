-------------------------- MODULE HttpServer_proofs --------------------------
(***************************************************************************)
(* Proofs about HttpServer, for every roster, every number of connections   *)
(* and every size of the buffers.                                           *)
(***************************************************************************)
EXTENDS HttpServer, WellFoundedInduction, FiniteSetTheorems, SequenceTheorems, TLAPS

-----------------------------------------------------------------------------
(* Induction over the numbers, with a set in the place of an operator.       *)

LEMMA LeastElement ==
  ASSUME NEW S \in SUBSET Nat, S # {}
  PROVE  \E x \in S : \A y \in S : x <= y
<1> DEFINE R == OpToRel(<, Nat)
<1>1. IsWellFoundedOn(R, Nat)
  BY NatLessThanWellFounded
<1>2. \A x, y \in Nat : y < x => <<y, x>> \in R
  BY DEF OpToRel
<1> HIDE DEF R
<1>3. PICK x \in S : \A y \in S : ~ (<<y, x>> \in R)
  BY <1>1, WFMin
<1>4. \A y \in S : ~(y < x)
  BY <1>2, <1>3
<1> QED
  BY <1>4

\* What holds of 0 and passes on to the next number holds up to m.
LEMMA UpTo ==
  ASSUME NEW m \in Nat, NEW S, 0 \in S, \A i \in 0..m-1 : i \in S => i + 1 \in S
  PROVE  \A i \in 0..m : i \in S
<1> SUFFICES ASSUME NEW i \in 0..m, i \notin S PROVE FALSE
  OBVIOUS
<1> DEFINE T == {j \in 0..m : j \notin S}
<1>1. T \in SUBSET Nat /\ T # {}
  OBVIOUS
<1>2. PICK x \in T : \A y \in T : x <= y
  BY <1>1, LeastElement
<1>3. x \in 0..m /\ x \notin S /\ x # 0
  BY <1>2
<1>4. x - 1 \in 0..m-1 /\ x - 1 \notin T
  BY <1>2, <1>3
<1>5. x - 1 \in S
  BY <1>4
<1> QED
  BY <1>3, <1>4, <1>5

-----------------------------------------------------------------------------
(* The sum of a function over a finite set.                                  *)

Chosen(s) == CHOOSE x \in s : TRUE

\* S sums f over every set of up to k elements, taking them out one by one.
SumsUpTo(D, k, f, S) ==
  \A s \in SUBSET D :
    Cardinality(s) <= k => S[s] = IF s = {} THEN 0 ELSE f[Chosen(s)] + S[s \ {Chosen(s)}]

Sums(D, f, S) ==
  S = [s \in SUBSET D |-> IF s = {} THEN 0 ELSE f[Chosen(s)] + S[s \ {Chosen(s)}]]

SumIn(D, S) == S \in [SUBSET D -> Nat]

LEMMA SumIsLastSum ==
  ASSUME NEW D, NEW f, DOMAIN f = D
  PROVE  SumFunction(f) = (CHOOSE S : Sums(D, f, S))[D]
  BY DEF SumFunction, SumFunctionOnSet, FoldFunctionOnSet, MapThenFoldSet, Sums, Chosen

LEMMA SmallerSet ==
  ASSUME NEW D, IsFiniteSet(D), NEW s \in SUBSET D, s # {}
  PROVE  /\ Chosen(s) \in s /\ s \ {Chosen(s)} \in SUBSET D
         /\ Cardinality(s) \in Nat /\ Cardinality(s) <= Cardinality(D)
         /\ Cardinality(s \ {Chosen(s)}) = Cardinality(s) - 1
         /\ Cardinality(s) # 0
<1>1. IsFiniteSet(s) /\ Cardinality(s) <= Cardinality(D)
  BY FS_Subset
<1>2. Cardinality(s) \in Nat /\ Cardinality(s) # 0
  BY <1>1, FS_CardinalityType, FS_EmptySet
<1>3. Chosen(s) \in s
  BY DEF Chosen
<1>4. Cardinality(s \ {Chosen(s)}) = Cardinality(s) - 1
  BY <1>1, <1>3, FS_RemoveElement
<1> QED
  BY <1>1, <1>2, <1>3, <1>4

LEMMA NoneLeft ==
  ASSUME NEW D, IsFiniteSet(D), NEW s \in SUBSET D, Cardinality(s) <= 0
  PROVE  s = {}
<1>1. CASE s # {}
  <2>1. Cardinality(s) \in Nat /\ Cardinality(s) # 0
    BY <1>1, SmallerSet
  <2> QED
    BY <2>1
<1> QED
  BY <1>1

LEMMA SumExists ==
  ASSUME NEW D, IsFiniteSet(D), NEW f \in [D -> Nat]
  PROVE  \E S : SumIn(D, S) /\ Sums(D, f, S)
<1> DEFINE m == Cardinality(D)
           G == {k \in 0..m : \E S : SumIn(D, S) /\ SumsUpTo(D, k, f, S)}
<1>1. m \in Nat
  BY FS_CardinalityType
<1>2. 0 \in G
  <2> DEFINE S == [s \in SUBSET D |-> 0]
  <2>1. SumIn(D, S)
    BY DEF SumIn
  <2>2. ASSUME NEW s \in SUBSET D, Cardinality(s) <= 0 PROVE s = {} /\ S[s] = 0
    BY <2>2, NoneLeft
  <2>3. SumsUpTo(D, 0, f, S)
    BY <2>2 DEF SumsUpTo
  <2> QED
    BY <1>1, <2>1, <2>3
<1>3. ASSUME NEW k \in 0..m-1, k \in G PROVE k + 1 \in G
  <2>1. PICK S : SumIn(D, S) /\ SumsUpTo(D, k, f, S)
    BY <1>3
  <2> DEFINE T == [s \in SUBSET D |-> IF s = {} THEN 0 ELSE f[Chosen(s)] + S[s \ {Chosen(s)}]]
  <2>2. SumIn(D, T)
    <3>1. ASSUME NEW s \in SUBSET D
          PROVE  (IF s = {} THEN 0 ELSE f[Chosen(s)] + S[s \ {Chosen(s)}]) \in Nat
      <4>1. CASE s = {}
        BY <4>1
      <4>2. CASE s # {}
        <5>1. f[Chosen(s)] \in Nat /\ S[s \ {Chosen(s)}] \in Nat
          BY <2>1, <4>2, SmallerSet DEF SumIn
        <5> QED
          BY <4>2, <5>1
      <4> QED
        BY <4>1, <4>2
    <3> QED
      BY <3>1 DEF SumIn
  <2>3. ASSUME NEW s \in SUBSET D, Cardinality(s) <= k + 1, s # {}
        PROVE  T[s \ {Chosen(s)}] = S[s \ {Chosen(s)}]
    <3> DEFINE r == s \ {Chosen(s)}
    <3>1. r \in SUBSET D /\ Cardinality(r) <= k
      BY <2>3, SmallerSet
    <3>2. S[r] = IF r = {} THEN 0 ELSE f[Chosen(r)] + S[r \ {Chosen(r)}]
      BY <2>1, <3>1 DEF SumsUpTo
    <3> HIDE DEF r
    <3>3. T[r] = S[r]
      BY <3>1, <3>2
    <3> QED
      BY <3>3 DEF r
  <2>4. SumsUpTo(D, k + 1, f, T)
    BY <2>3 DEF SumsUpTo
  <2> HIDE DEF T
  <2> QED
    BY <1>1, <2>2, <2>4
<1>4. m \in G
  <2>1. \A i \in 0..m : i \in G
    <3> HIDE DEF G, m
    <3> QED
      BY <1>1, <1>2, <1>3, UpTo
  <2> QED
    BY <1>1, <2>1
<1>5. PICK S : SumIn(D, S) /\ SumsUpTo(D, m, f, S)
  BY <1>4
<1>6. \A s \in SUBSET D : Cardinality(s) <= m
  BY FS_Subset
<1>7. Sums(D, f, S)
  BY <1>5, <1>6 DEF Sums, SumsUpTo, SumIn
<1> QED
  BY <1>5, <1>7

\* The sum of what each set holds, as SumFunction computes it.
LEMMA SumValue ==
  ASSUME NEW D, IsFiniteSet(D), NEW f \in [D -> Nat], NEW S, S = (CHOOSE T : Sums(D, f, T))
  PROVE  SumFunction(f) = S[D] /\ Sums(D, f, S)
<1>1. SumFunction(f) = S[D]
  BY SumIsLastSum
<1>2. Sums(D, f, S)
  BY SumExists
<1> QED
  BY <1>1, <1>2

\* One element's share changes the sum by as much as it changes itself.
LEMMA SumChanges ==
  ASSUME NEW D, IsFiniteSet(D), NEW f \in [D -> Nat], NEW c \in D, NEW n \in Nat
  PROVE  /\ SumFunction(f) \in Nat
         /\ SumFunction([f EXCEPT ![c] = n]) = SumFunction(f) + n - f[c]
<1> DEFINE g == [f EXCEPT ![c] = n]
           S == CHOOSE T : Sums(D, f, T)
           U == CHOOSE T : Sums(D, g, T)
           m == Cardinality(D)
           Share(s) == IF c \in s THEN n - f[c] ELSE 0
           G == {k \in 0..m : \A s \in SUBSET D :
                   Cardinality(s) <= k => S[s] \in Nat /\ U[s] = S[s] + Share(s)}
<1>1. g \in [D -> Nat] /\ m \in Nat
  BY FS_CardinalityType
<1>2. SumFunction(f) = S[D] /\ Sums(D, f, S)
  BY SumValue
<1>3. SumFunction(g) = U[D] /\ Sums(D, g, U)
  <2> HIDE DEF g
  <2> QED
    BY <1>1, SumValue
<1>4. ASSUME NEW s \in SUBSET D
      PROVE  /\ S[s] = IF s = {} THEN 0 ELSE f[Chosen(s)] + S[s \ {Chosen(s)}]
             /\ U[s] = IF s = {} THEN 0 ELSE g[Chosen(s)] + U[s \ {Chosen(s)}]
  <2> HIDE DEF S, U, g
  <2> QED
    BY <1>2, <1>3 DEF Sums
<1> HIDE DEF S, U
<1>5. 0 \in G
  <2>1. ASSUME NEW s \in SUBSET D, Cardinality(s) <= 0 PROVE s = {}
    BY <2>1, NoneLeft
  <2>2. S[{}] = 0 /\ U[{}] = 0
    BY <1>4
  <2> QED
    BY <1>1, <2>1, <2>2
<1>6. ASSUME NEW k \in 0..m-1, k \in G PROVE k + 1 \in G
  <2>1. ASSUME NEW s \in SUBSET D, Cardinality(s) <= k + 1
        PROVE  S[s] \in Nat /\ U[s] = S[s] + Share(s)
    <3>1. CASE s = {}
      BY <1>4, <3>1
    <3>2. CASE s # {}
      <4> DEFINE x == Chosen(s)
                 r == s \ {x}
      <4>1. x \in s /\ r \in SUBSET D /\ Cardinality(r) <= k
        BY <2>1, <3>2, SmallerSet
      <4>2. S[r] \in Nat /\ U[r] = S[r] + Share(r)
        BY <1>6, <4>1
      <4>3. S[s] = f[x] + S[r] /\ U[s] = g[x] + U[r]
        BY <1>4, <3>2
      <4>4. f[x] \in Nat /\ f[c] \in Nat /\ g[x] = IF x = c THEN n ELSE f[x]
        BY <4>1
      <4>5. x = c => Share(r) = 0 /\ Share(s) = n - f[c]
        BY <4>1
      <4>6. x # c => Share(r) = Share(s) /\ Share(s) \in Int
        BY <4>1, <4>4
      <4> HIDE DEF x, r, g, Share
      <4> QED
        BY <4>2, <4>3, <4>4, <4>5, <4>6
    <3> QED
      BY <3>1, <3>2
  <2> QED
    BY <1>1, <2>1
<1>7. m \in G
  <2>1. \A i \in 0..m : i \in G
    <3> HIDE DEF G, m
    <3> QED
      BY <1>1, <1>5, <1>6, UpTo
  <2> QED
    BY <1>1, <2>1
<1>8. S[D] \in Nat /\ U[D] = S[D] + Share(D)
  BY <1>1, <1>7
<1>9. f[c] \in Nat /\ Share(D) = n - f[c]
  OBVIOUS
<1> QED
  BY <1>2, <1>3, <1>8, <1>9

LEMMA SumOfNone ==
  ASSUME NEW D, IsFiniteSet(D)
  PROVE  SumFunction([c \in D |-> 0]) = 0
<1> DEFINE f == [c \in D |-> 0]
           S == CHOOSE T : Sums(D, f, T)
           m == Cardinality(D)
           G == {k \in 0..m : \A s \in SUBSET D : Cardinality(s) <= k => S[s] = 0}
<1>1. f \in [D -> Nat] /\ m \in Nat
  BY FS_CardinalityType
<1>2. SumFunction(f) = S[D] /\ Sums(D, f, S)
  <2> HIDE DEF f
  <2> QED
    BY <1>1, SumValue
<1>3. \A s \in SUBSET D : S[s] = IF s = {} THEN 0 ELSE f[Chosen(s)] + S[s \ {Chosen(s)}]
  <2> HIDE DEF S, f
  <2> QED
    BY <1>2 DEF Sums
<1> HIDE DEF S
<1>4. 0 \in G
  <2>1. \A s \in SUBSET D : Cardinality(s) <= 0 => s = {}
    BY NoneLeft
  <2>2. S[{}] = 0
    BY <1>3
  <2> HIDE DEF f
  <2> QED
    BY <1>1, <2>1, <2>2
<1>5. ASSUME NEW k \in 0..m-1, k \in G PROVE k + 1 \in G
  <2>1. ASSUME NEW s \in SUBSET D, Cardinality(s) <= k + 1, s # {} PROVE S[s] = 0
    <3>1. /\ Chosen(s) \in D /\ s \ {Chosen(s)} \in SUBSET D
          /\ Cardinality(s \ {Chosen(s)}) <= k
      BY <2>1, SmallerSet
    <3>2. S[s \ {Chosen(s)}] = 0 /\ f[Chosen(s)] = 0
      BY <1>5, <3>1
    <3>3. S[s] = f[Chosen(s)] + S[s \ {Chosen(s)}]
      BY <1>3, <2>1
    <3> QED
      BY <3>2, <3>3
  <2>2. S[{}] = 0
    BY <1>3
  <2>3. \A s \in SUBSET D : Cardinality(s) <= k + 1 => S[s] = 0
    BY <2>1, <2>2
  <2>4. k + 1 \in 0..m
    BY <1>1
  <2> QED
    BY <2>3, <2>4
<1>6. m \in G
  <2>1. \A k \in 0..m : k \in G
    <3> HIDE DEF G, m
    <3> QED
      BY <1>1, <1>4, <1>5, UpTo
  <2> QED
    BY <1>1, <2>1
<1> QED
  BY <1>2, <1>6

-----------------------------------------------------------------------------
(* The page.                                                                 *)

LEMMA RosterLength == Len(Roster) \in Nat /\ Len(Roster) # 0
<1>1. Len(Roster) \in Nat
  BY RosterAssumption, LenProperties
<1>2. Len(Roster) # 0
  BY RosterAssumption, EmptySeq
<1> QED
  BY <1>1, <1>2

LEMMA LabelsCount ==
  ASSUME NEW i \in 1..Len(Roster)
  PROVE  LabelWrites(i) \in Nat
<1> DEFINE D == 0..ROSTER_FUNC_MAX
           f == [fn \in D |-> IF fn \in Listed(i) THEN 2 + Roster[i].label[fn] ELSE 0]
<1>1. Roster[i] \in [maxFnNum : Nat, label : [D -> Nat]]
  BY RosterAssumption, ElementOfSeq
<1>2. Roster[i].label \in [D -> Nat]
  BY <1>1
<1>3. f \in [D -> Nat]
  <2>1. ASSUME NEW fn \in D
        PROVE  (IF fn \in Listed(i) THEN 2 + Roster[i].label[fn] ELSE 0) \in Nat
    <3>1. Roster[i].label[fn] \in Nat
      BY <1>2
    <3> QED
      BY <3>1
  <2> HIDE DEF D
  <2> QED
    BY <2>1
<1>4. IsFiniteSet(D) /\ 0 \in D
  <2>1. ROSTER_FUNC_MAX \in Int /\ 0 \in Int /\ 0 \in D
    BY DEF ROSTER_FUNC_MAX
  <2> QED
    BY <2>1, FS_Interval
<1>5. SumFunction(f) \in Nat
  <2>1. 0 \in Nat
    OBVIOUS
  <2> HIDE DEF f, D
  <2> QED
    BY <1>3, <1>4, <2>1, SumChanges
<1> QED
  BY <1>5 DEF LabelWrites

LEMMA PhaseWritesCount ==
  ASSUME NEW i \in 1..Len(Roster), NEW phase \in 0..LastPhase
  PROVE  PhaseWrites(i, phase) \in Nat /\ (phase = 0 => PhaseWrites(i, phase) = 2)
<1>1. phase \in {0, 1, 2, 3, 4}
  BY DEF LastPhase
<1> DEFINE n == LabelWrites(i)
<1>2. n \in Nat
  BY LabelsCount
<1>3. PhaseWrites(i, phase) = <<2, 0, 3, 2 + n, 1>>[phase + 1]
  BY DEF PhaseWrites
<1> HIDE DEF n
<1> QED
  BY <1>1, <1>2, <1>3

LEMMA PiecesAre ==
  ASSUME NEW z
  PROVE  z \in Pieces <=>
           \/ \E n \in 1..HeaderWrites : z = Header(n)
           \/ \E i \in 1..Len(Roster), phase \in 0..LastPhase :
                \E n \in 1..PhaseWrites(i, phase) : z = Piece(i, phase, n)
           \/ z = End
<1>1. \A i, phase : z \in PhasePieces(i, phase) <=>
        \E n \in 1..PhaseWrites(i, phase) : z = Piece(i, phase, n)
  BY DEF PhasePieces
<1>2. \A i : z \in EntryPieces(i) <=> \E phase \in 0..LastPhase : z \in PhasePieces(i, phase)
  BY DEF EntryPieces
<1>3. z \in Pieces <=>
        \/ \E n \in 1..HeaderWrites : z = Header(n)
        \/ \E i \in 1..Len(Roster) : z \in EntryPieces(i)
        \/ z = End
  BY DEF Pieces
<1>4. ASSUME NEW i \in 1..Len(Roster)
      PROVE  z \in EntryPieces(i) <=>
               \E phase \in 0..LastPhase : \E n \in 1..PhaseWrites(i, phase) : z = Piece(i, phase, n)
  BY <1>1, <1>2
<1>5. (\E i \in 1..Len(Roster) : z \in EntryPieces(i)) <=>
        \E i \in 1..Len(Roster), phase \in 0..LastPhase :
          \E n \in 1..PhaseWrites(i, phase) : z = Piece(i, phase, n)
  BY <1>4, Zenon
<1> QED
  BY <1>3, <1>5, Zenon

\* Where the pieces of the page are.
LEMMA PieceShape ==
  ASSUME NEW z \in Pieces
  PROVE  /\ z[1] \in Nat /\ z[2] \in Nat /\ z[3] \in Nat
         /\ z[3] >= 1 /\ z[1] <= Len(Roster) + 1
         /\ z[1] = 0 => z[2] = 0 /\ z[3] <= HeaderWrites
         /\ z[1] \in 1..Len(Roster) => z[2] <= LastPhase /\ z[3] <= PhaseWrites(z[1], z[2])
         /\ z[1] = Len(Roster) + 1 => z = End
<1>0. Len(Roster) \in Nat /\ Len(Roster) # 0 /\ LastPhase = 4 /\ HeaderWrites = 5
  BY RosterLength DEF LastPhase, HeaderWrites
<1>1. CASE z \in {Header(n) : n \in 1..HeaderWrites}
  BY <1>0, <1>1 DEF Header, Piece
<1>2. CASE z = End
  BY <1>0, <1>2 DEF End, Piece
<1>3. ASSUME NEW i \in 1..Len(Roster), NEW phase \in 0..LastPhase,
             NEW n \in 1..PhaseWrites(i, phase), z = Piece(i, phase, n)
      PROVE  /\ z[1] = i /\ z[2] = phase /\ z[3] = n
             /\ n \in Nat /\ n >= 1 /\ n <= PhaseWrites(i, phase)
             /\ i \in Nat /\ phase \in Nat /\ i >= 1 /\ i <= Len(Roster) /\ phase <= LastPhase
  <2>1. PhaseWrites(i, phase) \in Nat
    BY PhaseWritesCount
  <2> QED
    BY <1>0, <1>3, <2>1 DEF Piece
<1>4. CASE \E i \in 1..Len(Roster), phase \in 0..LastPhase :
             \E n \in 1..PhaseWrites(i, phase) : z = Piece(i, phase, n)
  <2>1. PICK i \in 1..Len(Roster), phase \in 0..LastPhase :
             \E n \in 1..PhaseWrites(i, phase) : z = Piece(i, phase, n)
    BY <1>4
  <2>2. PICK n \in 1..PhaseWrites(i, phase) : z = Piece(i, phase, n)
    BY <2>1
  <2>3. /\ z[1] = i /\ z[2] = phase /\ z[3] = n
        /\ n \in Nat /\ n >= 1 /\ n <= PhaseWrites(i, phase)
        /\ i \in Nat /\ phase \in Nat /\ i >= 1 /\ i <= Len(Roster) /\ phase <= LastPhase
    BY <1>3, <2>2
  <2> QED
    BY <1>0, <2>3
<1>5. CASE \E n \in 1..HeaderWrites : z = Header(n)
  BY <1>1, <1>5
<1> QED
  BY <1>2, <1>4, <1>5, PiecesAre

LEMMA PieceIn ==
  ASSUME NEW i \in 1..Len(Roster), NEW phase \in 0..LastPhase, NEW n \in 1..PhaseWrites(i, phase)
  PROVE  Piece(i, phase, n) \in Pieces
  BY PiecesAre

LEMMA HeaderIn ==
  ASSUME NEW n \in 1..HeaderWrites
  PROVE  Header(n) \in Pieces
  BY PiecesAre

LEMMA EndIn == End \in Pieces
  BY PiecesAre

LEMMA PieceSize ==
  ASSUME NEW piece \in Pieces \cup {LineBreak, NotFound}
  PROVE  Size(piece) \in Nat /\ Size(piece) > 0
<1>1. Size(piece) \in Nat \ {0}
  BY HttpSizesAssumption
<1> QED
  BY <1>1

-----------------------------------------------------------------------------
(* The variables keep their types.                                           *)

WrittenPart ==
  /\ pc = "idle" => written = 0
  /\ pc # "idle" => http_conn.pcb \in Conns
  /\ pc = "header" => written < HeaderWrites
  /\ pc = "locos" =>
       \/ written = 0
       \/ http_conn.loco_index < Len(Roster) /\ written <= PhaseWrites(Entry, http_conn.phase)
  /\ pc = "end" => written <= 1

HttpTypes == TypeOK /\ WrittenPart

ConnType ==
  http_conn \in [pcb : Conns \cup {NoConn}, sending : BOOLEAN,
                 loco_index : 0..Len(Roster), phase : 0..LastPhase]

Count == [Conns -> 0..SndBuf]

\* A piece that fits is taken from the heap.
LEMMA HeapTaken ==
  ASSUME unacked \in Count, HeapLeft >= 0, NEW c \in Conns,
         NEW piece \in Pieces \cup {LineBreak, NotFound}, Fits(c, piece), Takes(c, piece)
  PROVE  unacked' \in Count /\ HeapLeft' >= 0
<1> DEFINE size == Size(piece)
           n == unacked[c] + size
<1>0. size \in Nat
  BY PieceSize
<1>1. unacked \in [Conns -> Nat] /\ unacked[c] \in Nat /\ size <= SndBuf - unacked[c]
      /\ size <= HeapLeft /\ SndBuf \in Nat /\ Heap \in Nat
  BY HttpSizesAssumption DEF Count, Fits, Room
<1>2. n \in Nat /\ n \in 0..SndBuf /\ unacked' = [unacked EXCEPT ![c] = n]
  <2>1. unacked' = [unacked EXCEPT ![c] = n]
    BY DEF Takes
  <2> HIDE DEF size
  <2> QED
    BY <1>0, <1>1, <2>1
<1>3. unacked' \in Count
  <2> HIDE DEF n
  <2> QED
    BY <1>2 DEF Count
<1>4. /\ SumFunction(unacked) \in Nat
      /\ SumFunction(unacked') = SumFunction(unacked) + n - unacked[c]
  <2>1. IsFiniteSet(Conns)
    BY HttpSetsAssumption
  <2> HIDE DEF n
  <2> QED
    BY <1>1, <1>2, <2>1, SumChanges
<1>5. HeapLeft = Heap - SumFunction(unacked) /\ HeapLeft' = Heap - SumFunction(unacked')
  BY DEF HeapLeft
<1> HIDE DEF size
<1> QED
  BY <1>0, <1>1, <1>3, <1>4, <1>5

\* What is acknowledged or freed comes back.
LEMMA HeapGiven ==
  ASSUME unacked \in Count, HeapLeft >= 0, NEW c \in Conns, NEW n \in 0..unacked[c],
         unacked' = [unacked EXCEPT ![c] = n]
  PROVE  unacked' \in Count /\ HeapLeft' >= 0
<1>1. unacked \in [Conns -> Nat] /\ unacked[c] \in 0..SndBuf
  BY HttpSizesAssumption DEF Count
<1>2. n \in Nat /\ n \in 0..SndBuf /\ n <= unacked[c]
  BY <1>1, HttpSizesAssumption
<1>3. unacked' \in Count
  BY <1>2 DEF Count
<1>4. /\ SumFunction(unacked) \in Nat
      /\ SumFunction(unacked') = SumFunction(unacked) + n - unacked[c]
  BY <1>1, <1>2, SumChanges, HttpSetsAssumption
<1> QED
  BY <1>1, <1>2, <1>3, <1>4, HttpSizesAssumption DEF HeapLeft

\* The next write of a phase is a piece of the page.
LEMMA NextIsPiece ==
  ASSUME HttpTypes, InPhase
  PROVE  /\ Entry \in 1..Len(Roster) /\ http_conn.phase \in 0..LastPhase /\ written \in Nat
         /\ PhaseWrites(Entry, http_conn.phase) \in Nat
         /\ NextWrite \in Pieces /\ <<Entry, http_conn.phase>> \in Phases
<1>1. ConnType /\ written \in Nat
  BY DEF HttpTypes, TypeOK, ConnType
<1>2. Entry \in 1..Len(Roster) /\ http_conn.phase \in 0..LastPhase
  BY <1>1, RosterLength DEF ConnType, Entry, InPhase
<1>3. PhaseWrites(Entry, http_conn.phase) \in Nat
  BY <1>2, PhaseWritesCount
<1>4. written + 1 \in 1..PhaseWrites(Entry, http_conn.phase)
  BY <1>1, <1>3 DEF InPhase
<1>5. NextWrite \in Pieces
  BY <1>2, <1>4, PieceIn DEF NextWrite
<1>6. <<Entry, http_conn.phase>> \in Phases
  BY <1>2, RosterLength DEF Phases
<1> QED
  BY <1>1, <1>2, <1>3, <1>5, <1>6

LEMMA NextHeader ==
  ASSUME HttpTypes, pc = "header"
  PROVE  Header(written + 1) \in Pieces /\ <<0, 0>> \in Phases
<1>1. written \in Nat /\ written < HeaderWrites /\ HeaderWrites = 5
  BY DEF HttpTypes, TypeOK, WrittenPart, HeaderWrites
<1>2. written + 1 \in 1..HeaderWrites
  BY <1>1
<1>3. Header(written + 1) \in Pieces
  BY <1>2, HeaderIn
<1> QED
  BY <1>3, RosterLength DEF Phases, LastPhase

LEMMA TypesInit == Init => HttpTypes
<1> SUFFICES ASSUME Init PROVE HttpTypes
  OBVIOUS
<1>1. http_conn \in [pcb : Conns \cup {NoConn}, sending : BOOLEAN,
                     loco_index : 0..Len(Roster), phase : 0..LastPhase]
  BY RosterLength DEF Init, Idle, LastPhase
<1>2. unacked \in [Conns -> 0..SndBuf] /\ HeapLeft >= 0
  BY SumOfNone, HttpSetsAssumption, HttpSizesAssumption DEF Init, HeapLeft
<1>3. text \in [Conns -> Seq(Pieces)] /\ refused \in [Conns -> SUBSET Phases]
  <2>1. <<>> \in Seq(Pieces)
    BY EmptySeq
  <2> QED
    BY <2>1 DEF Init
<1> QED
  BY <1>1, <1>2, <1>3 DEF Init, HttpTypes, TypeOK, WrittenPart

LEMMA WritingHasConn ==
  ASSUME HttpTypes, Writing
  PROVE  Client \in Conns
  BY DEF HttpTypes, WrittenPart, Client, Writing, WriteHeader, WriteRefused, WritePiece, InPhase,
         PhaseDone, LocosDone, WriteEnd, CloseAtEnd

LEMMA ConnKeepsType ==
  ASSUME HttpTypes, [Next]_vars
  PROVE  ConnType'
<1>1. ConnType
  BY DEF HttpTypes, TypeOK, ConnType
<1>2. CASE PhaseDone
  <2>1. http_conn.phase \in 0..LastPhase /\ http_conn.loco_index + 1 \in 0..Len(Roster)
    BY <1>1, <1>2, RosterLength DEF ConnType, PhaseDone
  <2>2. 0 \in 0..LastPhase /\ (http_conn.phase # LastPhase => http_conn.phase + 1 \in 0..LastPhase)
    BY <2>1 DEF LastPhase
  <2> QED
    BY <1>1, <1>2, <2>1, <2>2 DEF ConnType, PhaseDone
<1>3. ASSUME NEW c \in Conns, Accept(c) \/ RosterRequest(c)
      PROVE  ConnType'
  <2>1. 0 \in 0..Len(Roster) /\ 0 \in 0..LastPhase
    BY RosterLength DEF LastPhase
  <2>2. \/ http_conn' = http_conn
        \/ http_conn' = [pcb |-> NoConn, sending |-> FALSE, loco_index |-> 0, phase |-> 0]
        \/ http_conn' = [pcb |-> c, sending |-> TRUE, loco_index |-> 0, phase |-> 0]
    BY <1>3 DEF Accept, RosterRequest, Idle
  <2>3. CASE http_conn' = http_conn
    BY <1>1, <2>3 DEF ConnType
  <2>4. CASE http_conn' = [pcb |-> NoConn, sending |-> FALSE, loco_index |-> 0, phase |-> 0]
    BY <2>1, <2>4 DEF ConnType
  <2>5. CASE http_conn' = [pcb |-> c, sending |-> TRUE, loco_index |-> 0, phase |-> 0]
    BY <2>1, <2>5 DEF ConnType
  <2> QED
    BY <2>2, <2>3, <2>4, <2>5
<1>4. ASSUME NEW c \in Conns, PeerCloses(c) \/ Error(c)
      PROVE  ConnType'
  BY <1>1, <1>4 DEF ConnType, PeerCloses, Error
<1>5. CASE UNCHANGED http_conn
  BY <1>1, <1>5 DEF ConnType
<1> QED
  BY <1>2, <1>3, <1>4, <1>5
  DEF Next, Writing, WriteHeader, WriteRefused, WritePiece, LocosDone, WriteEnd, CloseAtEnd,
      Acknowledged, Poll, SecondClient, OtherRequest, Leaves, vars

LEMMA BuffersKeepType ==
  ASSUME HttpTypes, [Next]_vars
  PROVE  unacked' \in Count /\ HeapLeft' >= 0
<1>1. unacked \in Count /\ HeapLeft >= 0
  BY DEF HttpTypes, TypeOK, Count
<1>2. CASE UNCHANGED unacked
  BY <1>1, <1>2 DEF HeapLeft
<1>3. ASSUME NEW c \in Conns, NEW piece \in Pieces \cup {LineBreak, NotFound},
             Fits(c, piece), Takes(c, piece)
      PROVE  unacked' \in Count /\ HeapLeft' >= 0
  BY <1>1, <1>3, HeapTaken
<1>4. ASSUME NEW c \in Conns, Acknowledged(c)
      PROVE  unacked' \in Count /\ HeapLeft' >= 0
  <2>1. unacked[c] \in Nat
    BY <1>1, HttpSizesAssumption DEF Count
  <2>2. PICK n \in 0..unacked[c]-1 : unacked' = [unacked EXCEPT ![c] = n]
    BY <1>4 DEF Acknowledged
  <2>3. n \in 0..unacked[c]
    BY <2>1
  <2> QED
    BY <1>1, <2>2, <2>3, HeapGiven
<1>5. ASSUME NEW c \in Conns, Freed(c)
      PROVE  unacked' \in Count /\ HeapLeft' >= 0
  <2>1. PICK n \in 0..unacked[c] : n = 0
    BY <1>1, HttpSizesAssumption DEF Count
  <2>2. unacked' = [unacked EXCEPT ![c] = n]
    BY <1>5, <2>1 DEF Freed
  <2> QED
    BY <1>1, <2>2, HeapGiven
<1>6. CASE Writing
  <2>1. Client \in Conns
    BY <1>6, WritingHasConn
  <2>2. ASSUME NEW piece \in Pieces, Fits(Client, piece), Sends(piece)
        PROVE  unacked' \in Count /\ HeapLeft' >= 0
    BY <1>3, <2>1, <2>2 DEF Sends
  <2>3. CASE WriteHeader
    <3>1. Header(written + 1) \in Pieces
      BY <2>3, NextHeader DEF WriteHeader
    <3>2. \/ Fits(Client, Header(written + 1)) /\ Sends(Header(written + 1))
          \/ UNCHANGED unacked
      BY <2>3 DEF WriteHeader, Refused
    <3> QED
      BY <1>2, <2>2, <3>1, <3>2
  <2>4. CASE WritePiece
    <3>1. InPhase /\ Fits(Client, NextWrite) /\ Sends(NextWrite)
      BY <2>4 DEF WritePiece
    <3>2. NextWrite \in Pieces
      BY <3>1, NextIsPiece
    <3> QED
      BY <2>2, <3>1, <3>2
  <2>5. CASE WriteEnd
    <3>1. (Fits(Client, End) /\ Sends(End)) \/ UNCHANGED unacked
      BY <2>5 DEF WriteEnd
    <3> QED
      BY <1>2, <2>2, <3>1, EndIn
  <2>6. CASE CloseAtEnd
    <3>1. (Fits(Client, LineBreak) /\ Takes(Client, LineBreak)) \/ UNCHANGED unacked
      BY <2>6 DEF CloseAtEnd
    <3> QED
      BY <1>2, <1>3, <2>1, <3>1
  <2>7. CASE WriteRefused \/ PhaseDone \/ LocosDone
    BY <1>2, <2>7 DEF WriteRefused, PhaseDone, LocosDone, Refused
  <2> QED
    BY <1>6, <2>3, <2>4, <2>5, <2>6, <2>7 DEF Writing
<1>7. ASSUME NEW c \in Conns, OtherRequest(c)
      PROVE  unacked' \in Count /\ HeapLeft' >= 0
  <2>1. (Fits(c, NotFound) /\ Takes(c, NotFound)) \/ UNCHANGED unacked
    BY <1>7 DEF OtherRequest
  <2> QED
    BY <1>2, <1>3, <2>1
<1>8. ASSUME NEW c \in Conns,
             Accept(c) \/ Poll(c) \/ SecondClient(c) \/ RosterRequest(c) \/ PeerCloses(c)
      PROVE  UNCHANGED unacked
  BY <1>8 DEF Accept, Poll, SecondClient, RosterRequest, PeerCloses
<1>9. ASSUME NEW c \in Conns, Error(c) \/ Leaves(c)
      PROVE  Freed(c)
  BY <1>9 DEF Error, Leaves
<1> QED
  BY <1>2, <1>4, <1>5, <1>6, <1>7, <1>8, <1>9 DEF Next, vars

\* What is sent are pieces of the page, what is refused belongs to its phases.
LEMMA TextKeepsType ==
  ASSUME HttpTypes, [Next]_vars
  PROVE  text' \in [Conns -> Seq(Pieces)] /\ refused' \in [Conns -> SUBSET Phases]
<1> DEFINE Good == text' \in [Conns -> Seq(Pieces)] /\ refused' \in [Conns -> SUBSET Phases]
<1>1. text \in [Conns -> Seq(Pieces)] /\ refused \in [Conns -> SUBSET Phases]
  BY DEF HttpTypes, TypeOK
<1>2. CASE UNCHANGED <<text, refused>>
  BY <1>1, <1>2
<1>3. ASSUME NEW c \in Conns, Freed(c) PROVE Good
  <2>1. <<>> \in Seq(Pieces)
    BY EmptySeq
  <2>2. /\ text' = [text EXCEPT ![c] = <<>>]
        /\ refused' = [refused EXCEPT ![c] = {}]
    BY <1>3 DEF Freed
  <2> QED
    BY <1>1, <2>1, <2>2
<1>4. ASSUME NEW piece \in Pieces, Client \in Conns, Sends(piece) PROVE Good
  <2>1. text[Client] \in Seq(Pieces)
    BY <1>1, <1>4
  <2>2. Append(text[Client], piece) \in Seq(Pieces)
    BY <2>1, AppendProperties
  <2>3. text' = [text EXCEPT ![Client] = Append(text[Client], piece)] /\ refused' = refused
    BY <1>4 DEF Sends
  <2> QED
    BY <1>1, <2>2, <2>3
<1>5. ASSUME NEW i, NEW phase, <<i, phase>> \in Phases, Refused(i, phase) PROVE Good
  <2>1. /\ text' = text
        /\ refused' = [refused EXCEPT ![Client] = @ \cup {<<i, phase>>}]
    BY <1>5 DEF Refused
  <2> QED
    BY <1>1, <1>5, <2>1
<1>6. CASE Writing
  <2>1. Client \in Conns
    BY <1>6, WritingHasConn
  <2>2. CASE WriteHeader
    <3>1. Header(written + 1) \in Pieces /\ <<0, 0>> \in Phases
      BY <2>2, NextHeader DEF WriteHeader
    <3>2. Sends(Header(written + 1)) \/ Refused(0, 0)
      BY <2>2 DEF WriteHeader
    <3> QED
      BY <1>4, <1>5, <2>1, <3>1, <3>2
  <2>3. CASE WritePiece
    <3>1. InPhase /\ Sends(NextWrite)
      BY <2>3 DEF WritePiece
    <3> QED
      BY <1>4, <2>1, <3>1, NextIsPiece
  <2>4. CASE WriteRefused
    <3>1. InPhase /\ Refused(Entry, http_conn.phase)
      BY <2>4 DEF WriteRefused
    <3> QED
      BY <1>5, <3>1, NextIsPiece
  <2>5. CASE WriteEnd
    <3>1. Sends(End) \/ UNCHANGED <<text, refused>>
      BY <2>5 DEF WriteEnd
    <3> QED
      BY <1>2, <1>4, <2>1, <3>1, EndIn
  <2>6. CASE PhaseDone \/ LocosDone \/ CloseAtEnd
    BY <1>2, <2>6 DEF PhaseDone, LocosDone, CloseAtEnd
  <2> QED
    BY <1>6, <2>2, <2>3, <2>4, <2>5, <2>6 DEF Writing
<1>7. ASSUME NEW c \in Conns,
             Acknowledged(c) \/ Accept(c) \/ Poll(c) \/ SecondClient(c) \/ RosterRequest(c)
               \/ OtherRequest(c) \/ PeerCloses(c)
      PROVE  UNCHANGED <<text, refused>>
  BY <1>7 DEF Acknowledged, Accept, Poll, SecondClient, RosterRequest, OtherRequest, PeerCloses,
              pageVars
<1>8. ASSUME NEW c \in Conns, Error(c) \/ Leaves(c)
      PROVE  Freed(c)
  BY <1>8 DEF Error, Leaves
<1>9. CASE UNCHANGED vars
  BY <1>2, <1>9 DEF vars, pageVars
<1> QED
  BY <1>2, <1>3, <1>6, <1>7, <1>8, <1>9 DEF Next

LEMMA StatesKeepType ==
  ASSUME HttpTypes, [Next]_vars
  PROVE  /\ tcp' \in [Conns -> {"none", "open", "closing", "leaving", "rejected"}]
         /\ asked' \subseteq Conns
         /\ pc' \in {"idle", "header", "locos", "end"}
<1> DEFINE Good == /\ tcp' \in [Conns -> {"none", "open", "closing", "leaving", "rejected"}]
                   /\ asked' \subseteq Conns
                   /\ pc' \in {"idle", "header", "locos", "end"}
<1>1. /\ tcp \in [Conns -> {"none", "open", "closing", "leaving", "rejected"}]
      /\ asked \subseteq Conns /\ pc \in {"idle", "header", "locos", "end"}
  BY DEF HttpTypes, TypeOK
<1>2. CASE Writing
  BY <1>1, <1>2
  DEF Writing, WriteHeader, WriteRefused, Goes, WritePiece, PhaseDone, LocosDone, WriteEnd, CloseAtEnd
<1>3. ASSUME NEW c \in Conns,
             Acknowledged(c) \/ Accept(c) \/ Poll(c) \/ PeerCloses(c) \/ Error(c) \/ Leaves(c)
      PROVE  Good
  BY <1>1, <1>3 DEF Acknowledged, Accept, Poll, PeerCloses, Error, Leaves, Freed, pageVars
<1>4. ASSUME NEW c \in Conns, SecondClient(c) \/ RosterRequest(c) \/ OtherRequest(c)
      PROVE  Good
  BY <1>1, <1>4 DEF SecondClient, RosterRequest, OtherRequest, Segment, pageVars
<1>5. CASE UNCHANGED vars
  BY <1>1, <1>5 DEF vars, pageVars
<1> QED
  BY <1>2, <1>3, <1>4, <1>5 DEF Next

LEMMA WrittenKept ==
  ASSUME HttpTypes, [Next]_vars
  PROVE  written' \in Nat /\ WrittenPart'
<1>1. written \in Nat
  BY DEF HttpTypes, TypeOK
<1>2. pc \in {"idle", "header", "locos", "end"} /\ WrittenPart /\ ConnType
  BY DEF HttpTypes, TypeOK, ConnType
<1>3. CASE WriteHeader
  <2>1. http_conn' = http_conn /\ pc = "header" /\ HeaderWrites = 5
    BY <1>3 DEF WriteHeader, HeaderWrites
  <2>2. CASE ~Fits(Client, Header(written + 1)) \/ written + 1 = HeaderWrites
    <3>1. written' = 0 /\ pc' = "locos"
      BY <1>3, <2>2 DEF WriteHeader
    <3> QED
      BY <1>1, <1>2, <2>1, <3>1 DEF WrittenPart
  <2>3. CASE ~(~Fits(Client, Header(written + 1)) \/ written + 1 = HeaderWrites)
    <3>1. written' = written + 1 /\ pc' = pc
      BY <1>3, <2>3 DEF WriteHeader
    <3>2. written < HeaderWrites /\ written + 1 < HeaderWrites
      BY <1>1, <1>2, <2>1, <2>3 DEF WrittenPart
    <3> QED
      BY <1>1, <1>2, <2>1, <3>1, <3>2 DEF WrittenPart
  <2> QED
    BY <2>2, <2>3
<1>4. CASE WriteRefused \/ PhaseDone
  <2>1. written' = 0 /\ pc' \in {"idle", "locos"} /\ http_conn'.pcb = http_conn.pcb /\ pc = "locos"
    BY <1>2, <1>4 DEF WriteRefused, InPhase, Goes, PhaseDone, ConnType
  <2> QED
    BY <1>1, <1>2, <2>1 DEF WrittenPart
<1>5. CASE WritePiece
  <2>1. /\ written' = written + 1 /\ pc' = pc /\ http_conn' = http_conn /\ pc = "locos"
        /\ http_conn.loco_index < Len(Roster) /\ written < PhaseWrites(Entry, http_conn.phase)
    BY <1>5 DEF WritePiece, InPhase
  <2>2. PhaseWrites(Entry, http_conn.phase) \in Nat
    BY <1>5, NextIsPiece DEF WritePiece
  <2>3. Entry' = Entry
    BY <2>1 DEF Entry
  <2>4. PhaseWrites(Entry, http_conn.phase)' = PhaseWrites(Entry, http_conn.phase)
    BY <2>1, <2>3 DEF PhaseWrites, LabelWrites, Listed
  <2>5. written + 1 <= PhaseWrites(Entry, http_conn.phase) /\ written + 1 \in Nat
    BY <1>1, <2>1, <2>2
  <2> QED
    BY <1>2, <2>1, <2>4, <2>5 DEF WrittenPart
<1>6. CASE LocosDone
  <2>1. pc = "locos" /\ pc' = "end" /\ written' = written /\ http_conn' = http_conn
    BY <1>6 DEF LocosDone
  <2>2. written = 0
    BY <1>2, <1>6, RosterLength DEF LocosDone, WrittenPart
  <2> QED
    BY <1>1, <1>2, <2>1, <2>2 DEF WrittenPart
<1>7. CASE WriteEnd
  <2>1. /\ pc = "end" /\ written = 0 /\ http_conn' = http_conn
        /\ (written' = 1 /\ pc' = "end") \/ (written' = 0 /\ pc' = "idle")
    BY <1>7 DEF WriteEnd
  <2> QED
    BY <1>1, <1>2, <2>1 DEF WrittenPart
<1>8. CASE CloseAtEnd
  BY <1>1, <1>2, <1>8 DEF CloseAtEnd, WrittenPart
<1>9. ASSUME NEW c \in Conns,
             Acknowledged(c) \/ Accept(c) \/ SecondClient(c) \/ OtherRequest(c) \/ PeerCloses(c)
               \/ Error(c) \/ Leaves(c)
      PROVE  written' \in Nat /\ WrittenPart'
  <2>1. pc = "idle" /\ pc' = pc /\ written' = written
    BY <1>9 DEF Acknowledged, Accept, SecondClient, OtherRequest, PeerCloses, Error, Leaves, Freed,
                Segment, pageVars
  <2> QED
    BY <1>1, <1>2, <2>1 DEF WrittenPart
<1>10. ASSUME NEW c \in Conns, RosterRequest(c)
       PROVE  written' \in Nat /\ WrittenPart'
  <2>1. pc' = "header" /\ written' = 0 /\ http_conn'.pcb = c /\ HeaderWrites = 5
    BY <1>10 DEF RosterRequest, HeaderWrites
  <2> QED
    BY <1>1, <2>1 DEF WrittenPart
<1>11. ASSUME NEW c \in Conns, Poll(c)
       PROVE  written' \in Nat /\ WrittenPart'
  <2>1. /\ pc = "idle" /\ pc' = "locos" /\ UNCHANGED <<written, http_conn>>
        /\ http_conn.pcb = c
    BY <1>11 DEF Poll
  <2> QED
    BY <1>1, <1>2, <2>1 DEF WrittenPart
<1>12. CASE UNCHANGED vars
  <2>1. pc' = pc /\ written' = written /\ http_conn' = http_conn
    BY <1>12 DEF vars, pageVars
  <2>2. Entry' = Entry
    BY <2>1 DEF Entry
  <2>3. PhaseWrites(Entry, http_conn.phase)' = PhaseWrites(Entry, http_conn.phase)
    BY <2>1, <2>2 DEF PhaseWrites, LabelWrites, Listed
  <2> QED
    BY <1>1, <1>2, <2>1, <2>3 DEF WrittenPart
<1> QED
  BY <1>3, <1>4, <1>5, <1>6, <1>7, <1>8, <1>9, <1>10, <1>11, <1>12 DEF Next, Writing

LEMMA TypesStep == HttpTypes /\ [Next]_vars => HttpTypes'
<1> SUFFICES ASSUME HttpTypes, [Next]_vars PROVE HttpTypes'
  OBVIOUS
<1>1. ConnType'
  BY ConnKeepsType
<1>2. unacked' \in Count /\ HeapLeft' >= 0
  BY BuffersKeepType
<1>3. written' \in Nat /\ WrittenPart'
  BY WrittenKept
<1>4. TypeOK'
  BY <1>1, <1>2, <1>3, StatesKeepType, TextKeepsType DEF TypeOK, ConnType, Count
<1> QED
  BY <1>3, <1>4 DEF HttpTypes

LEMMA TypesInvariant == Spec => []HttpTypes
  BY TypesInit, TypesStep, PTL DEF Spec

(***************************************************************************)
(* The variables keep their types, whatever the clients do: the buffers and *)
(* the heap are never overdrawn, and a callback never believes to have      *)
(* written more than the page has (http_server.c:76-252).                   *)
(***************************************************************************)
THEOREM TypeCorrect == Spec => []TypeOK
<1>1. HttpTypes => TypeOK
  BY DEF HttpTypes
<1> QED
  BY <1>1, TypesInvariant, PTL

-----------------------------------------------------------------------------
(* The page comes in its order, unless a client asks twice or another         *)
(* connection fails.                                                         *)

Undisturbed == {"one_segment", "own_errors"} \subseteq Assumed

\* The phase of x starts again, or the entries start behind the header.
StartsAgain(ref, x, y) ==
  /\ <<x[1], x[2]>> \in ref
  /\ y = IF x[1] = 0 THEN Piece(1, 0, 1) ELSE Piece(x[1], x[2], 1)

\* y may come behind what was sent: the page is begun, goes on, or a phase
\* starts again of which a write was refused.
MayCome(sent, ref, y) ==
  IF sent = <<>>
    THEN y = Header(1) \/ (y = Piece(1, 0, 1) /\ <<0, 0>> \in ref)
    ELSE Follows(Last(sent), y) \/ StartsAgain(ref, Last(sent), y)

\* What was sent is in order.
Ordered(sent, ref) ==
  /\ \A n \in 1..Len(sent)-1 : \/ Follows(sent[n], sent[n + 1])
                                \/ StartsAgain(ref, sent[n], sent[n + 1])
  /\ sent # <<>> => \/ sent[1] = Header(1)
                    \/ sent[1] = Piece(1, 0, 1) /\ <<0, 0>> \in ref

MayFollow(c, y) == MayCome(text[c], refused[c], y)
Orderly(c) == Ordered(text[c], refused[c])

\* A connection has been sent nothing before it asks, and the one that is
\* served has asked.
AskedPart ==
  /\ http_conn.sending <=> http_conn.pcb # NoConn
  /\ http_conn.pcb # NoConn =>
       http_conn.pcb \in asked /\ tcp[http_conn.pcb] \in {"open", "closing"}
  /\ \A c \in Conns : /\ c \notin asked => text[c] = <<>>
                      /\ tcp[c] = "none" => c \notin asked

\* What the callback writes next may come next.
Stands(c) ==
  /\ pc = "header" =>
       /\ tcp[c] = "open" /\ http_conn.loco_index = 0 /\ http_conn.phase = 0
       /\ MayFollow(c, Header(written + 1))
  /\ tcp[c] = "open" /\ (pc \in {"idle", "locos"} \/ (pc = "end" /\ written = 0)) =>
       MayFollow(c, NextWrite)
  /\ http_conn.loco_index = Len(Roster) => http_conn.phase = 0
  /\ pc = "end" => http_conn.loco_index = Len(Roster)
  /\ pc = "end" /\ written = 1 => tcp[c] = "open" /\ text[c] # <<>> /\ Last(text[c]) = End
  /\ tcp[c] = "closing" => http_conn.loco_index = Len(Roster) /\ pc # "header"

StandsPart == \A c \in Conns : http_conn.pcb = c => Stands(c)

OrderPart == \A c \in Conns : Orderly(c)

\* A page is closed behind its end, and one at a time is under way.
ClosePart ==
  \A c \in Conns :
    /\ tcp[c] = "closing" /\ text[c] # <<>> => Last(text[c]) = End
    /\ tcp[c] = "open" /\ text[c] # <<>> => http_conn.pcb = c

PageInv == AskedPart /\ StandsPart /\ OrderPart /\ ClosePart

LEMMA PageInvOrders == PageInv => PageInOrder
<1> SUFFICES ASSUME PageInv PROVE PageInOrder
  OBVIOUS
<1>1. ASSUME NEW c \in Conns, NEW x, NEW y PROVE StartsAgain(refused[c], x, y) = BegunAgain(c, x, y)
  BY DEF StartsAgain, BegunAgain
<1>2. \A c \in Conns : Ordered(text[c], refused[c])
  BY DEF PageInv, OrderPart, Orderly
<1>3. ClosePart
  BY DEF PageInv
<1> QED
  BY <1>1, <1>2, <1>3 DEF Ordered, ClosePart, PageInOrder

LEMMA PageInit == Init => PageInv
<1> SUFFICES ASSUME Init PROVE PageInv
  OBVIOUS
<1>1. AskedPart /\ StandsPart /\ ClosePart
  BY HttpSetsAssumption DEF Init, AskedPart, StandsPart, ClosePart, Idle
<1>2. ASSUME NEW c \in Conns PROVE Orderly(c)
  <2>1. text[c] = <<>> /\ Len(<<>>) = 0
    BY EmptySeq DEF Init
  <2> QED
    BY <2>1 DEF Orderly, Ordered
<1> QED
  BY <1>1, <1>2 DEF PageInv, OrderPart

-----------------------------------------------------------------------------
(* The order of the pieces.                                                  *)

\* A piece that may come keeps the order.
LEMMA OrderGoesOn ==
  ASSUME NEW sent \in Seq(Pieces), NEW ref, NEW piece \in Pieces,
         Ordered(sent, ref), MayCome(sent, ref, piece)
  PROVE  /\ Ordered(Append(sent, piece), ref)
         /\ Append(sent, piece) # <<>> /\ Last(Append(sent, piece)) = piece
<1> DEFINE t == Append(sent, piece)
           k == Len(sent)
<1>1. k \in Nat /\ Len(t) = k + 1 /\ t[k + 1] = piece /\ \A n \in 1..k : t[n] = sent[n]
  BY AppendProperties, LenProperties
<1>2. (sent = <<>> <=> k = 0) /\ Len(<<>>) = 0
  BY EmptySeq
<1> HIDE DEF t, k
<1>3. t # <<>> /\ Last(t) = piece
  BY <1>1, <1>2 DEF Last
<1>4. ASSUME NEW n \in 1..Len(t)-1
      PROVE  Follows(t[n], t[n + 1]) \/ StartsAgain(ref, t[n], t[n + 1])
  <2>1. CASE n = k
    <3>1. sent # <<>> /\ t[n] = Last(sent) /\ t[n + 1] = piece
      BY <1>1, <1>2, <2>1 DEF Last, k
    <3> QED
      BY <3>1 DEF MayCome
  <2>2. CASE n # k
    <3>1. n \in 1..k-1 /\ t[n] = sent[n] /\ t[n + 1] = sent[n + 1]
      BY <1>1, <2>2
    <3> QED
      BY <3>1 DEF Ordered, k
  <2> QED
    BY <2>1, <2>2
<1>5. t[1] = Header(1) \/ (t[1] = Piece(1, 0, 1) /\ <<0, 0>> \in ref)
  <2>1. CASE sent = <<>>
    <3>1. k + 1 = 1
      BY <1>2, <2>1
    <3>2. t[1] = piece
      BY <1>1, <3>1
    <3> QED
      BY <2>1, <3>2 DEF MayCome
  <2>2. CASE sent # <<>>
    <3>1. 1 \in 1..k
      BY <1>1, <1>2, <2>2
    <3>2. t[1] = sent[1]
      BY <1>1, <3>1
    <3> QED
      BY <2>2, <3>2 DEF Ordered
  <2> QED
    BY <2>1, <2>2
<1> QED
  BY <1>3, <1>4, <1>5 DEF Ordered, t

\* Nothing is out of order that was not before.
LEMMA OrderKept ==
  ASSUME NEW sent, NEW ref, NEW more, ref \subseteq more
  PROVE  /\ Ordered(sent, ref) => Ordered(sent, more)
         /\ \A y : MayCome(sent, ref, y) => MayCome(sent, more, y)
<1>1. \A x, y : StartsAgain(ref, x, y) => StartsAgain(more, x, y)
  BY DEF StartsAgain
<1>2. ASSUME Ordered(sent, ref) PROVE Ordered(sent, more)
  BY <1>1, <1>2 DEF Ordered
<1>3. ASSUME NEW y, MayCome(sent, ref, y) PROVE MayCome(sent, more, y)
  BY <1>1, <1>3 DEF MayCome
<1> QED
  BY <1>2, <1>3

\* The next piece of a phase, and of the header, follows the last.
LEMMA StepInPhase ==
  ASSUME NEW i \in Nat, NEW phase \in Nat, NEW n \in Nat
  PROVE  Follows(Piece(i, phase, n), Piece(i, phase, n + 1))
<1> DEFINE x == Piece(i, phase, n)
           y == Piece(i, phase, n + 1)
<1>1. Before(x, y)
  BY DEF Before, Piece
<1>2. ASSUME NEW z \in Pieces, Before(x, z), Before(z, y) PROVE FALSE
  <2>1. z[1] \in Nat /\ z[2] \in Nat /\ z[3] \in Nat
    BY PieceShape
  <2> QED
    BY <1>2, <2>1 DEF Before, Piece
<1> QED
  BY <1>1, <1>2 DEF Follows

LEMMA HeaderOver == Follows(Header(HeaderWrites), Piece(1, 0, 1))
<1> DEFINE x == Header(HeaderWrites)
           y == Piece(1, 0, 1)
<1>1. Before(x, y)
  BY DEF Before, Piece, Header
<1>2. ASSUME NEW z \in Pieces, Before(x, z), Before(z, y) PROVE FALSE
  <2>1. /\ z[1] \in Nat /\ z[2] \in Nat /\ z[3] \in Nat /\ z[3] >= 1
        /\ z[1] = 0 => z[2] = 0 /\ z[3] <= HeaderWrites
    BY PieceShape
  <2>2. HeaderWrites = 5
    BY DEF HeaderWrites
  <2>3. z[1] = 0
    BY <1>2, <2>1 DEF Before, Piece
  <2> QED
    BY <1>2, <2>1, <2>2, <2>3 DEF Before, Piece, Header
<1> QED
  BY <1>1, <1>2 DEF Follows

\* What may come behind the last piece of a phase may come in the next.
LEMMA PhaseOver ==
  ASSUME NEW sent \in Seq(Pieces), NEW ref,
         NEW i \in 1..Len(Roster), NEW phase \in 0..LastPhase,
         MayCome(sent, ref, Piece(i, phase, PhaseWrites(i, phase) + 1))
  PROVE  MayCome(sent, ref, IF phase = LastPhase THEN Piece(i + 1, 0, 1) ELSE Piece(i, phase + 1, 1))
<1> DEFINE w == PhaseWrites(i, phase)
           x == Last(sent)
           y == Piece(i, phase, w + 1)
           next == IF phase = LastPhase THEN Piece(i + 1, 0, 1) ELSE Piece(i, phase + 1, 1)
<1>1. w \in Nat /\ (phase = 0 => w = 2)
  BY PhaseWritesCount
<1>2. i \in Nat /\ i >= 1 /\ i <= Len(Roster) /\ phase \in Nat /\ phase <= LastPhase
      /\ LastPhase = 4 /\ Len(Roster) \in Nat
  BY RosterLength DEF LastPhase
<1>3. y = <<i, phase, w + 1>> /\ y[1] = i /\ y[2] = phase /\ y[3] = w + 1
  BY DEF Piece
<1>4. /\ next[1] = IF phase = LastPhase THEN i + 1 ELSE i
      /\ next[2] = IF phase = LastPhase THEN 0 ELSE phase + 1
      /\ next[3] = 1
  BY DEF Piece
<1> HIDE DEF w, y, next
<1>5. sent # <<>>
  <2>1. SUFFICES ASSUME sent = <<>> PROVE FALSE
    OBVIOUS
  <2>2. y = Header(1) \/ y = Piece(1, 0, 1)
    BY <2>1 DEF MayCome, y, w
  <2>3. y[1] = 0 \/ (y[2] = 0 /\ y[3] = 1)
    BY <2>2 DEF Header, Piece
  <2> QED
    BY <1>1, <1>2, <1>3, <2>3
<1>6. x \in Pieces
  BY <1>5, EmptySeq, ElementOfSeq, LenProperties DEF Last
<1>7. /\ x[1] \in Nat /\ x[2] \in Nat /\ x[3] \in Nat /\ x[3] >= 1
      /\ x[1] = i /\ x[2] = phase => x[3] <= w
  <2>1. x[1] = i => i \in 1..Len(Roster)
    OBVIOUS
  <2> QED
    BY <1>6, <2>1, PieceShape DEF w
<1>8. ~StartsAgain(ref, x, y)
  <2>1. SUFFICES ASSUME StartsAgain(ref, x, y) PROVE FALSE
    OBVIOUS
  <2>2. CASE x[1] = 0
    <3>1. y = Piece(1, 0, 1)
      BY <2>1, <2>2 DEF StartsAgain
    <3>2. y[2] = 0 /\ y[3] = 1
      BY <3>1 DEF Piece
    <3> QED
      BY <1>1, <1>3, <3>2
  <2>3. CASE x[1] # 0
    <3>1. y = Piece(x[1], x[2], 1)
      BY <2>1, <2>3 DEF StartsAgain
    <3>2. y[1] = x[1] /\ y[2] = x[2] /\ y[3] = 1
      BY <3>1 DEF Piece
    <3> QED
      BY <1>1, <1>3, <1>7, <3>2
  <2> QED
    BY <2>2, <2>3
<1>9. Follows(x, y)
  BY <1>5, <1>8 DEF MayCome, y, w
<1>10. Before(x, next)
  BY <1>1, <1>2, <1>3, <1>4, <1>7, <1>9 DEF Follows, Before
<1>11. ASSUME NEW z \in Pieces, Before(x, z), Before(z, next) PROVE FALSE
  <2>1. /\ z[1] \in Nat /\ z[2] \in Nat /\ z[3] \in Nat /\ z[3] >= 1
        /\ z[1] \in 1..Len(Roster) => z[2] <= LastPhase /\ z[3] <= PhaseWrites(z[1], z[2])
    BY PieceShape
  <2>2. z[1] = i => z[2] <= LastPhase /\ (z[2] = phase => z[3] <= w)
    BY <2>1 DEF w
  <2>3. ~Before(z, y)
    BY <1>9, <1>11 DEF Follows
  <2>4. z[1] > i \/ (z[1] = i /\ z[2] > phase)
    <3>1. z[1] >= i
      BY <1>2, <1>3, <2>1, <2>3 DEF Before
    <3>2. z[1] = i => z[2] >= phase
      BY <1>2, <1>3, <2>1, <2>3 DEF Before
    <3>3. ~(z[1] = i /\ z[2] = phase)
      BY <1>1, <1>3, <2>1, <2>2, <2>3 DEF Before
    <3> QED
      BY <1>2, <2>1, <3>1, <3>2, <3>3
  <2>5. CASE phase = LastPhase
    <3>1. next[1] = i + 1 /\ next[2] = 0 /\ next[3] = 1
      BY <1>4, <2>5
    <3>2. z[1] < i + 1
      BY <1>2, <1>11, <2>1, <3>1 DEF Before
    <3> QED
      BY <1>2, <2>1, <2>2, <2>4, <2>5, <3>2
  <2>6. CASE phase # LastPhase
    <3>1. next[1] = i /\ next[2] = phase + 1 /\ next[3] = 1
      BY <1>4, <2>6
    <3>2. z[1] = i /\ z[2] < phase + 1
      BY <1>2, <1>11, <2>1, <2>4, <3>1 DEF Before
    <3> QED
      BY <1>2, <2>1, <2>4, <3>2
  <2> QED
    BY <2>5, <2>6
<1>12. Follows(x, next)
  BY <1>10, <1>11 DEF Follows
<1> QED
  BY <1>5, <1>12 DEF MayCome, next

\* The last piece sent, when one of this phase comes next that is not its first.
LEMMA LastOfPhase ==
  ASSUME NEW sent \in Seq(Pieces), NEW ref, NEW i \in Nat, NEW phase \in Nat,
         NEW n \in Nat, n > 0, Piece(i, phase, n) \in Pieces, MayCome(sent, ref, Piece(i, phase, n + 1))
  PROVE  sent # <<>> /\ Last(sent)[1] = i /\ Last(sent)[2] = phase
<1> DEFINE x == Last(sent)
           y == Piece(i, phase, n + 1)
           z == Piece(i, phase, n)
<1>1. y[1] = i /\ y[2] = phase /\ y[3] = n + 1 /\ z[1] = i /\ z[2] = phase /\ z[3] = n
  BY DEF Piece
<1>2. y[3] # 1
  BY <1>1
<1> HIDE DEF y, z
<1>3. y # Header(1) /\ \A j, k : y # Piece(j, k, 1)
  BY <1>2 DEF Header, Piece
<1>4. sent # <<>>
  BY <1>3 DEF MayCome, y
<1>5. ~StartsAgain(ref, x, y)
  BY <1>3 DEF StartsAgain
<1>6. Follows(x, y)
  BY <1>4, <1>5 DEF MayCome, y
<1>7. x \in Pieces
  BY <1>4, EmptySeq, ElementOfSeq, LenProperties DEF Last
<1>8. x[1] \in Nat /\ x[2] \in Nat /\ x[3] \in Nat
  BY <1>7, PieceShape
<1>9. Before(x, y) /\ ~(Before(x, z) /\ Before(z, y))
  BY <1>6 DEF Follows, z
<1>10. Before(z, y)
  BY <1>1 DEF Before
<1> QED
  BY <1>1, <1>4, <1>8, <1>9, <1>10 DEF Before

\* Nothing comes before the header, and nothing behind it leads to its start.
LEMMA NothingYet ==
  ASSUME NEW sent \in Seq(Pieces), NEW ref, MayCome(sent, ref, Header(1))
  PROVE  sent = <<>>
<1> SUFFICES ASSUME sent # <<>> PROVE FALSE
  OBVIOUS
<1> DEFINE x == Last(sent)
           y == Header(1)
<1>1. x \in Pieces
  BY EmptySeq, ElementOfSeq, LenProperties DEF Last
<1>2. /\ x[1] \in Nat /\ x[2] \in Nat /\ x[3] \in Nat /\ x[3] >= 1
  BY <1>1, PieceShape
<1>3. y[1] = 0 /\ y[2] = 0 /\ y[3] = 1
  BY DEF Header, Piece
<1>4. ~Follows(x, y)
  BY <1>2, <1>3 DEF Follows, Before
<1>5. ~StartsAgain(ref, x, y)
  <2>1. CASE x[1] = 0
    <3>1. y # Piece(1, 0, 1)
      BY <1>3 DEF Piece
    <3> QED
      BY <2>1, <3>1 DEF StartsAgain
  <2>2. CASE x[1] # 0
    <3>1. y # Piece(x[1], x[2], 1)
      BY <1>3, <2>2 DEF Piece
    <3> QED
      BY <2>2, <3>1 DEF StartsAgain
  <2> QED
    BY <2>1, <2>2
<1> QED
  BY <1>4, <1>5 DEF MayCome

-----------------------------------------------------------------------------
(* The steps of a callback.                                                  *)

TextTypes ==
  text \in [Conns -> Seq(Pieces)] /\ refused \in [Conns -> SUBSET Phases]

\* Any other connection is as it was.
OthersKept(c) ==
  \A d \in Conns : d # c => text'[d] = text[d] /\ refused'[d] = refused[d] /\ tcp'[d] = tcp[d]

LEMMA OthersInOrder ==
  ASSUME PageInv, NEW c \in Conns, OthersKept(c), Orderly(c)'
  PROVE  OrderPart'
<1>1. ASSUME NEW d \in Conns, d # c PROVE Orderly(d)'
  <2>1. text'[d] = text[d] /\ refused'[d] = refused[d] /\ Orderly(d)
    BY <1>1 DEF OthersKept, PageInv, OrderPart
  <2> QED
    BY <2>1 DEF Orderly
<1> QED
  BY <1>1 DEF OrderPart

\* A piece goes to the client that is served.
LEMMA PieceSent ==
  ASSUME HttpTypes, PageInv, NEW c \in Conns, http_conn.pcb = c, tcp[c] = "open",
         NEW piece \in Pieces, Sends(piece), MayFollow(c, piece),
         UNCHANGED <<http_conn, tcp, asked>>
  PROVE  /\ AskedPart' /\ OrderPart' /\ ClosePart'
         /\ text'[c] = Append(text[c], piece) /\ refused'[c] = refused[c]
         /\ text'[c] # <<>> /\ Last(text'[c]) = piece
<1>1. TextTypes /\ text[c] \in Seq(Pieces)
  BY DEF HttpTypes, TypeOK, TextTypes
<1>2. text' = [text EXCEPT ![c] = Append(@, piece)] /\ refused' = refused
  BY DEF Sends, Client
<1>3. text'[c] = Append(text[c], piece) /\ OthersKept(c)
  BY <1>1, <1>2 DEF TextTypes, OthersKept
<1>4. Ordered(text[c], refused[c]) /\ MayCome(text[c], refused[c], piece)
  BY DEF PageInv, OrderPart, Orderly, MayFollow
<1>5. /\ Ordered(text'[c], refused[c])
      /\ text'[c] # <<>> /\ Last(text'[c]) = piece
  BY <1>1, <1>3, <1>4, OrderGoesOn
<1>6. OrderPart'
  <2>1. Orderly(c)'
    BY <1>2, <1>5 DEF Orderly
  <2> QED
    BY <1>3, <2>1, OthersInOrder
<1>7. AskedPart'
  <2>1. c \in asked
    BY HttpSetsAssumption DEF PageInv, AskedPart
  <2>2. \A d \in Conns : d \notin asked => text'[d] = text[d]
    BY <1>3, <2>1 DEF OthersKept
  <2> QED
    BY <2>2 DEF PageInv, AskedPart
<1>8. ClosePart'
  <2>1. ASSUME NEW d \in Conns
        PROVE  /\ tcp'[d] = "closing" /\ text'[d] # <<>> => Last(text'[d]) = End
               /\ tcp'[d] = "open" /\ text'[d] # <<>> => http_conn'.pcb = d
    <3>1. CASE d = c
      BY <3>1
    <3>2. CASE d # c
      BY <1>3, <3>2 DEF OthersKept, PageInv, ClosePart
    <3> QED
      BY <3>1, <3>2
  <2> QED
    BY <2>1 DEF ClosePart
<1> QED
  BY <1>2, <1>3, <1>5, <1>6, <1>7, <1>8

\* A piece is refused to the client that is served.
LEMMA PieceRefused ==
  ASSUME HttpTypes, PageInv, NEW c \in Conns, http_conn.pcb = c,
         NEW i, NEW phase, Refused(i, phase), UNCHANGED <<http_conn, tcp, asked>>
  PROVE  /\ AskedPart' /\ OrderPart' /\ ClosePart'
         /\ text' = text /\ refused'[c] = refused[c] \cup {<<i, phase>>}
<1>1. TextTypes
  BY DEF HttpTypes, TypeOK, TextTypes
<1>2. text' = text /\ refused' = [refused EXCEPT ![c] = @ \cup {<<i, phase>>}]
  BY DEF Refused, Client
<1>3. refused'[c] = refused[c] \cup {<<i, phase>>} /\ OthersKept(c)
  BY <1>1, <1>2 DEF TextTypes, OthersKept
<1>4. Ordered(text[c], refused[c]) /\ refused[c] \subseteq refused'[c]
  BY <1>3 DEF PageInv, OrderPart, Orderly
<1>5. Ordered(text[c], refused'[c])
  BY <1>4, OrderKept
<1>6. Orderly(c)'
  BY <1>2, <1>5 DEF Orderly
<1>7. AskedPart' /\ ClosePart'
  BY <1>2 DEF PageInv, AskedPart, ClosePart
<1> QED
  BY <1>2, <1>3, <1>6, <1>7, OthersInOrder

\* A step that sends nothing and closes nothing.
LEMMA NothingSent ==
  ASSUME PageInv, UNCHANGED <<tcp, asked, text, refused>>,
         http_conn'.pcb = http_conn.pcb, http_conn'.sending = http_conn.sending
  PROVE  AskedPart' /\ OrderPart' /\ ClosePart'
<1>1. AskedPart' /\ ClosePart'
  BY DEF PageInv, AskedPart, ClosePart
<1>2. OrderPart'
  BY DEF PageInv, OrderPart, Orderly
<1> QED
  BY <1>1, <1>2

\* The client that is served stands where the callback is.
LEMMA ClientStands ==
  ASSUME HttpTypes, PageInv, pc # "idle", NEW c \in Conns, http_conn.pcb = c
  PROVE  /\ Stands(c) /\ c # NoConn /\ Client = c /\ tcp[c] \in {"open", "closing"}
         /\ text[c] \in Seq(Pieces) /\ written \in Nat
         /\ ConnType /\ WrittenPart
  BY HttpSetsAssumption
  DEF HttpTypes, TypeOK, ConnType, PageInv, StandsPart, Client, AskedPart

LEMMA HeaderStep ==
  ASSUME HttpTypes, PageInv, WriteHeader
  PROVE  PageInv'
<1>1. pc = "header" /\ UNCHANGED <<http_conn, tcp, asked>>
  BY DEF WriteHeader
<1>2. PICK c \in Conns : http_conn.pcb = c
  BY <1>1 DEF HttpTypes, WrittenPart
<1>3. /\ Stands(c) /\ Client = c /\ text[c] \in Seq(Pieces) /\ written \in Nat /\ WrittenPart
  BY <1>1, <1>2, ClientStands
<1>4. /\ tcp[c] = "open" /\ http_conn.loco_index = 0 /\ http_conn.phase = 0
      /\ MayFollow(c, Header(written + 1))
  BY <1>1, <1>3 DEF Stands
<1>5. written < HeaderWrites /\ HeaderWrites = 5 /\ Len(Roster) # 0
  BY <1>1, <1>3, RosterLength DEF WrittenPart, HeaderWrites
<1>6. Header(written + 1) \in Pieces
  BY <1>1, NextHeader
\* Behind the header come the entries.
<1>7. ASSUME AskedPart', OrderPart', ClosePart', pc' = "locos", written' = 0,
             MayFollow(c, Piece(1, 0, 1))'
      PROVE  PageInv'
  <2>1. NextWrite' = Piece(1, 0, 1)
    <3>1. Entry' = 1 /\ http_conn'.phase = 0 /\ written' + 1 = 1
      BY <1>1, <1>4, <1>7 DEF Entry
    <3> QED
      BY <3>1 DEF NextWrite
  <2>2. MayFollow(c, NextWrite)'
    BY <1>7, <2>1
  <2>3. Stands(c)'
    BY <1>1, <1>4, <1>5, <1>7, <2>2 DEF Stands
  <2>4. StandsPart'
    BY <1>1, <1>2, <2>3 DEF StandsPart
  <2> QED
    BY <1>7, <2>4 DEF PageInv
<1>8. CASE ~Fits(Client, Header(written + 1))
  <2>1. Refused(0, 0) /\ pc' = "locos" /\ written' = 0
    BY <1>8 DEF WriteHeader
  <2>2. /\ AskedPart' /\ OrderPart' /\ ClosePart'
        /\ text' = text /\ refused'[c] = refused[c] \cup {<<0, 0>>}
    BY <1>1, <1>2, <2>1, PieceRefused
  <2>3. MayCome(text[c], refused'[c], Piece(1, 0, 1))
    <3>1. CASE written = 0
      <4>1. MayCome(text[c], refused[c], Header(1))
        BY <1>4, <3>1 DEF MayFollow
      <4>2. text[c] = <<>>
        BY <1>3, <4>1, NothingYet
      <4> QED
        BY <2>2, <4>2 DEF MayCome
    <3>2. CASE written # 0
      <4>1. written > 0 /\ written \in 1..HeaderWrites
        BY <1>3, <1>5, <3>2
      <4>2. Piece(0, 0, written) \in Pieces
        BY <4>1, HeaderIn DEF Header
      <4>3. MayCome(text[c], refused[c], Piece(0, 0, written + 1))
        BY <1>4 DEF MayFollow, Header
      <4>4. text[c] # <<>> /\ Last(text[c])[1] = 0 /\ Last(text[c])[2] = 0
        <5>1. 0 \in Nat
          OBVIOUS
        <5> QED
          BY <1>3, <4>1, <4>2, <4>3, <5>1, LastOfPhase
      <4> QED
        BY <2>2, <4>4 DEF MayCome, StartsAgain
    <3> QED
      BY <3>1, <3>2
  <2>4. MayFollow(c, Piece(1, 0, 1))'
    BY <2>2, <2>3 DEF MayFollow
  <2> QED
    BY <1>7, <2>1, <2>2, <2>4
<1>9. CASE Fits(Client, Header(written + 1))
  <2>1. Sends(Header(written + 1))
    BY <1>9 DEF WriteHeader
  <2>2. /\ AskedPart' /\ OrderPart' /\ ClosePart'
        /\ text'[c] # <<>> /\ Last(text'[c]) = Header(written + 1)
    BY <1>1, <1>2, <1>4, <1>6, <2>1, PieceSent
  <2>3. CASE written + 1 = HeaderWrites
    <3>1. pc' = "locos" /\ written' = 0
      BY <2>3 DEF WriteHeader
    <3>2. MayFollow(c, Piece(1, 0, 1))'
      BY <2>2, <2>3, HeaderOver DEF MayFollow, MayCome
    <3> QED
      BY <1>7, <2>2, <3>1, <3>2
  <2>4. CASE written + 1 # HeaderWrites
    <3>1. pc' = "header" /\ written' = written + 1
      BY <1>1, <1>9, <2>4 DEF WriteHeader
    <3>2. Follows(Header(written + 1), Header(written + 2))
      <4>1. 0 \in Nat /\ written + 1 \in Nat /\ (written + 1) + 1 = written + 2
        BY <1>3
      <4>2. Follows(Piece(0, 0, written + 1), Piece(0, 0, (written + 1) + 1))
        BY <4>1, StepInPhase
      <4> QED
        BY <4>1, <4>2 DEF Header
    <3>3. written' + 1 = written + 2
      BY <1>3, <3>1
    <3>4. MayFollow(c, Header(written + 1))'
      BY <2>2, <3>2, <3>3 DEF MayFollow, MayCome
    <3>5. Stands(c)'
      BY <1>1, <1>4, <1>5, <3>1, <3>4 DEF Stands
    <3>6. StandsPart'
      BY <1>1, <1>2, <3>5 DEF StandsPart
    <3> QED
      BY <2>2, <3>6 DEF PageInv
  <2> QED
    BY <2>3, <2>4
<1> QED
  BY <1>8, <1>9

\* An open connection's page stands in the phase that is written.
LEMMA PhaseUnderWay ==
  ASSUME HttpTypes, PageInv, pc = "locos", http_conn.loco_index < Len(Roster),
         NEW c \in Conns, http_conn.pcb = c
  PROVE  /\ tcp[c] = "open" /\ Client = c /\ text[c] \in Seq(Pieces) /\ written \in Nat
         /\ MayFollow(c, NextWrite) /\ Stands(c)
         /\ Entry \in 1..Len(Roster) /\ Entry = http_conn.loco_index + 1
         /\ http_conn.phase \in 0..LastPhase
         /\ http_conn.loco_index \in Nat /\ Len(Roster) \in Nat
<1>1. /\ Stands(c) /\ Client = c /\ tcp[c] \in {"open", "closing"}
      /\ text[c] \in Seq(Pieces) /\ written \in Nat /\ ConnType
  BY ClientStands
<1>2. /\ http_conn.loco_index \in Nat /\ http_conn.phase \in 0..LastPhase
      /\ Entry \in 1..Len(Roster) /\ Len(Roster) \in Nat
  BY <1>1, RosterLength DEF ConnType, Entry
<1>3. tcp[c] = "open"
  BY <1>1, <1>2 DEF Stands
<1> QED
  BY <1>1, <1>2, <1>3 DEF Stands, Entry

LEMMA RefusedStep ==
  ASSUME HttpTypes, PageInv, WriteRefused
  PROVE  PageInv'
<1> DEFINE i == Entry
           p == http_conn.phase
<1>1. /\ InPhase /\ pc = "locos" /\ http_conn.loco_index < Len(Roster)
      /\ written' = 0 /\ pc' \in {"idle", "locos"} /\ Refused(i, p)
      /\ UNCHANGED <<http_conn, tcp, asked>>
  BY DEF WriteRefused, InPhase, Goes
<1>2. PICK c \in Conns : http_conn.pcb = c
  BY <1>1 DEF HttpTypes, WrittenPart
<1>3. /\ tcp[c] = "open" /\ Client = c /\ text[c] \in Seq(Pieces) /\ written \in Nat
      /\ MayFollow(c, NextWrite) /\ Stands(c)
      /\ i \in 1..Len(Roster) /\ i = http_conn.loco_index + 1 /\ p \in 0..LastPhase
      /\ http_conn.loco_index \in Nat /\ Len(Roster) \in Nat
  BY <1>1, <1>2, PhaseUnderWay
<1>4. /\ AskedPart' /\ OrderPart' /\ ClosePart'
      /\ text' = text /\ refused'[c] = refused[c] \cup {<<i, p>>}
  BY <1>1, <1>2, PieceRefused
<1>5. MayCome(text[c], refused[c], Piece(i, p, written + 1))
  BY <1>3 DEF MayFollow, NextWrite
<1>6. i \in Nat /\ i # 0 /\ p \in Nat /\ PhaseWrites(i, p) \in Nat
  <2> HIDE DEF i, p
  <2>1. PhaseWrites(i, p) \in Nat
    BY <1>3, PhaseWritesCount
  <2> QED
    BY <1>3, <2>1 DEF LastPhase
<1>7. MayCome(text[c], refused'[c], Piece(i, p, 1))
  <2>1. CASE written = 0
    <3>1. MayCome(text[c], refused[c], Piece(i, p, 1))
      BY <1>5, <2>1
    <3> QED
      BY <1>4, <3>1, OrderKept
  <2>2. CASE written # 0
    <3>1. written > 0 /\ written \in 1..PhaseWrites(i, p)
      BY <1>1, <1>3, <1>6, <2>2 DEF InPhase
    <3>2. Piece(i, p, written) \in Pieces
      BY <1>3, <3>1, PieceIn
    <3>3. text[c] # <<>> /\ Last(text[c])[1] = i /\ Last(text[c])[2] = p
      <4> HIDE DEF i, p
      <4> QED
        BY <1>3, <1>5, <1>6, <3>1, <3>2, LastOfPhase
    <3> QED
      BY <1>4, <1>6, <3>3 DEF MayCome, StartsAgain
  <2> QED
    BY <2>1, <2>2
<1>8. NextWrite' = Piece(i, p, 1)
  <2>1. Entry' = i /\ http_conn'.phase = p /\ written' + 1 = 1
    BY <1>1 DEF Entry
  <2> QED
    BY <2>1 DEF NextWrite
<1>9. MayFollow(c, NextWrite)'
  BY <1>4, <1>7, <1>8 DEF MayFollow
<1>10. Stands(c)'
  BY <1>1, <1>3, <1>9 DEF Stands
<1>11. StandsPart'
  BY <1>1, <1>2, <1>10 DEF StandsPart
<1> QED
  BY <1>4, <1>11 DEF PageInv

LEMMA PieceStep ==
  ASSUME HttpTypes, PageInv, WritePiece
  PROVE  PageInv'
<1> DEFINE i == Entry
           p == http_conn.phase
<1>1. /\ InPhase /\ pc = "locos" /\ http_conn.loco_index < Len(Roster)
      /\ pc' = pc /\ written' = written + 1 /\ Sends(NextWrite)
      /\ UNCHANGED <<http_conn, tcp, asked>>
  BY DEF WritePiece, InPhase
<1>2. PICK c \in Conns : http_conn.pcb = c
  BY <1>1 DEF HttpTypes, WrittenPart
<1>3. /\ tcp[c] = "open" /\ text[c] \in Seq(Pieces) /\ written \in Nat
      /\ MayFollow(c, NextWrite) /\ Stands(c)
      /\ i \in 1..Len(Roster) /\ p \in 0..LastPhase
      /\ http_conn.loco_index \in Nat /\ Len(Roster) \in Nat
  BY <1>1, <1>2, PhaseUnderWay
<1>4. NextWrite \in Pieces
  BY <1>1, NextIsPiece
<1>5. /\ AskedPart' /\ OrderPart' /\ ClosePart'
      /\ text'[c] # <<>> /\ Last(text'[c]) = NextWrite
  BY <1>1, <1>2, <1>3, <1>4, PieceSent
<1>6. Follows(Piece(i, p, written + 1), Piece(i, p, (written + 1) + 1))
  <2>1. i \in Nat /\ p \in Nat /\ written + 1 \in Nat
    BY <1>3 DEF LastPhase
  <2> HIDE DEF i, p
  <2> QED
    BY <2>1, StepInPhase
<1>7. NextWrite = Piece(i, p, written + 1) /\ NextWrite' = Piece(i, p, (written + 1) + 1)
  <2>1. Entry' = i /\ http_conn'.phase = p
    BY <1>1 DEF Entry
  <2> QED
    BY <1>1, <2>1 DEF NextWrite
<1>8. MayFollow(c, NextWrite)'
  BY <1>5, <1>6, <1>7 DEF MayFollow, MayCome
<1>9. Stands(c)'
  BY <1>1, <1>3, <1>8 DEF Stands
<1>10. StandsPart'
  BY <1>1, <1>2, <1>9 DEF StandsPart
<1> QED
  BY <1>5, <1>10 DEF PageInv

LEMMA PhaseStep ==
  ASSUME HttpTypes, PageInv, PhaseDone
  PROVE  PageInv'
<1> DEFINE i == Entry
           p == http_conn.phase
           next == IF p = LastPhase THEN Piece(i + 1, 0, 1) ELSE Piece(i, p + 1, 1)
<1>1. /\ pc = "locos" /\ http_conn.loco_index < Len(Roster) /\ written = PhaseWrites(i, p)
      /\ pc' \in {"idle", "locos"} /\ written' = 0 /\ UNCHANGED <<tcp, asked, text, refused>>
      /\ http_conn' = IF p = LastPhase
                        THEN [http_conn EXCEPT !.loco_index = @ + 1, !.phase = 0]
                        ELSE [http_conn EXCEPT !.phase = @ + 1]
  BY DEF PhaseDone, Goes
<1>2. PICK c \in Conns : http_conn.pcb = c
  BY <1>1 DEF HttpTypes, WrittenPart
<1>3. /\ tcp[c] = "open" /\ text[c] \in Seq(Pieces) /\ written \in Nat
      /\ MayFollow(c, NextWrite) /\ Stands(c)
      /\ i \in 1..Len(Roster) /\ i = http_conn.loco_index + 1 /\ p \in 0..LastPhase
      /\ http_conn.loco_index \in Nat /\ Len(Roster) \in Nat
  BY <1>1, <1>2, PhaseUnderWay
<1>4. ConnType
  BY DEF HttpTypes, TypeOK, ConnType
<1>5. /\ http_conn'.pcb = c /\ http_conn'.sending = http_conn.sending
      /\ http_conn'.loco_index = IF p = LastPhase THEN i ELSE http_conn.loco_index
      /\ http_conn'.phase = IF p = LastPhase THEN 0 ELSE p + 1
  BY <1>1, <1>2, <1>3, <1>4 DEF ConnType
<1>6. AskedPart' /\ OrderPart' /\ ClosePart'
  BY <1>1, <1>2, <1>5, NothingSent
<1>7. MayCome(text[c], refused[c], Piece(i, p, PhaseWrites(i, p) + 1))
  BY <1>1, <1>3 DEF MayFollow, NextWrite
<1>8. MayCome(text[c], refused[c], next)
  <2> HIDE DEF i, p
  <2> QED
    BY <1>3, <1>7, PhaseOver
<1>9. NextWrite' = next
  <2>1. Entry' = (IF p = LastPhase THEN i + 1 ELSE i) /\ written' + 1 = 1
    BY <1>1, <1>3, <1>5 DEF Entry
  <2> QED
    BY <1>5, <2>1 DEF NextWrite
<1>10. MayFollow(c, NextWrite)'
  BY <1>1, <1>8, <1>9 DEF MayFollow
<1>11. Stands(c)'
  <2>1. http_conn'.loco_index = Len(Roster) => http_conn'.phase = 0
    BY <1>1, <1>3, <1>5
  <2> QED
    BY <1>1, <1>3, <1>10, <2>1 DEF Stands
<1>12. StandsPart'
  BY <1>5, <1>11 DEF StandsPart
<1> QED
  BY <1>6, <1>12 DEF PageInv

\* Behind the entries comes the end.
LEMMA EndIsNext ==
  ASSUME http_conn.loco_index = Len(Roster), http_conn.phase = 0, written = 0
  PROVE  NextWrite = End
  BY DEF NextWrite, End, Entry

LEMMA LocosStep ==
  ASSUME HttpTypes, PageInv, LocosDone
  PROVE  PageInv'
<1>1. /\ pc = "locos" /\ pc' = "end" /\ http_conn.loco_index = Len(Roster)
      /\ UNCHANGED <<http_conn, tcp, asked, written, text, refused>>
  BY DEF LocosDone
<1>2. PICK c \in Conns : http_conn.pcb = c
  BY <1>1 DEF HttpTypes, WrittenPart
<1>3. Stands(c) /\ WrittenPart
  BY <1>1, <1>2, ClientStands
<1>4. AskedPart' /\ OrderPart' /\ ClosePart'
  BY <1>1, NothingSent
<1>5. written = 0
  BY <1>1, <1>3, RosterLength DEF WrittenPart
<1>6. MayFollow(c, NextWrite) => MayFollow(c, NextWrite)'
  BY <1>1 DEF MayFollow, NextWrite, Entry
<1>7. Stands(c)'
  BY <1>1, <1>3, <1>5, <1>6 DEF Stands
<1>8. StandsPart'
  BY <1>1, <1>2, <1>7 DEF StandsPart
<1> QED
  BY <1>4, <1>8 DEF PageInv

LEMMA EndStep ==
  ASSUME HttpTypes, PageInv, WriteEnd
  PROVE  PageInv'
<1>1. pc = "end" /\ written = 0 /\ UNCHANGED <<http_conn, tcp, asked>>
  BY DEF WriteEnd
<1>2. PICK c \in Conns : http_conn.pcb = c
  BY <1>1 DEF HttpTypes, WrittenPart
<1>3. Stands(c) /\ Client = c
  BY <1>1, <1>2, ClientStands
<1>4. http_conn.loco_index = Len(Roster) /\ http_conn.phase = 0 /\ NextWrite = End
  BY <1>1, <1>3, EndIsNext DEF Stands
<1>5. CASE Fits(Client, End)
  <2>1. Sends(End) /\ written' = 1 /\ pc' = "end" /\ tcp[c] = "open"
    BY <1>1, <1>3, <1>5 DEF WriteEnd, Fits
  <2>2. MayFollow(c, End)
    BY <1>1, <1>3, <1>4, <2>1 DEF Stands
  <2>3. /\ AskedPart' /\ OrderPart' /\ ClosePart'
        /\ text'[c] # <<>> /\ Last(text'[c]) = End
    BY <1>1, <1>2, <2>1, <2>2, EndIn, PieceSent
  <2>4. Stands(c)'
    BY <1>1, <1>4, <2>1, <2>3 DEF Stands
  <2>5. StandsPart'
    BY <1>1, <1>2, <2>4 DEF StandsPart
  <2> QED
    BY <2>3, <2>5 DEF PageInv
<1>6. CASE ~Fits(Client, End)
  <2>1. pc' = "idle" /\ UNCHANGED <<written, text, refused>>
    BY <1>6 DEF WriteEnd
  <2>2. AskedPart' /\ OrderPart' /\ ClosePart'
    BY <1>1, <2>1, NothingSent
  <2>3. MayFollow(c, NextWrite) => MayFollow(c, NextWrite)'
    BY <1>1, <2>1 DEF MayFollow, NextWrite, Entry
  <2>4. Stands(c)'
    BY <1>1, <1>3, <2>1, <2>3 DEF Stands
  <2>5. StandsPart'
    BY <1>1, <1>2, <2>4 DEF StandsPart
  <2> QED
    BY <2>2, <2>5 DEF PageInv
<1> QED
  BY <1>5, <1>6

LEMMA CloseStep ==
  ASSUME HttpTypes, PageInv, CloseAtEnd
  PROVE  PageInv'
<1>1. /\ pc = "end" /\ written = 1 /\ pc' = "idle" /\ written' = 0
      /\ tcp' = [tcp EXCEPT ![Client] = "closing"] /\ UNCHANGED <<http_conn, asked, text, refused>>
  BY DEF CloseAtEnd
<1>2. PICK c \in Conns : http_conn.pcb = c
  BY <1>1 DEF HttpTypes, WrittenPart
<1>3. Stands(c) /\ Client = c
  BY <1>1, <1>2, ClientStands
<1>4. /\ http_conn.loco_index = Len(Roster) /\ http_conn.phase = 0
      /\ text[c] # <<>> /\ Last(text[c]) = End
  BY <1>1, <1>3 DEF Stands
<1>5. tcp'[c] = "closing" /\ \A d \in Conns : d # c => tcp'[d] = tcp[d]
  BY <1>1, <1>3 DEF HttpTypes, TypeOK
<1>6. AskedPart'
  BY <1>1, <1>2, <1>5 DEF PageInv, AskedPart
<1>7. OrderPart'
  BY <1>1 DEF PageInv, OrderPart, Orderly
<1>8. ClosePart'
  <2>1. ASSUME NEW d \in Conns
        PROVE  /\ tcp'[d] = "closing" /\ text'[d] # <<>> => Last(text'[d]) = End
               /\ tcp'[d] = "open" /\ text'[d] # <<>> => http_conn'.pcb = d
    <3>1. CASE d = c
      BY <1>1, <1>4, <1>5, <3>1
    <3>2. CASE d # c
      BY <1>1, <1>5, <3>2 DEF PageInv, ClosePart
    <3> QED
      BY <3>1, <3>2
  <2> QED
    BY <2>1 DEF ClosePart
<1>9. Stands(c)'
  BY <1>1, <1>4, <1>5 DEF Stands
<1>10. StandsPart'
  BY <1>1, <1>2, <1>9 DEF StandsPart
<1> QED
  BY <1>6, <1>7, <1>8, <1>10 DEF PageInv

-----------------------------------------------------------------------------
(* The callbacks that begin and end a page.                                  *)

TcpStates == {"none", "open", "closing", "leaving", "rejected"}

\* Between two callbacks, what is served stays as it is.
LEMMA ServedKept ==
  ASSUME PageInv, pc = "idle", pc' = "idle", written' = written, http_conn' = http_conn,
         \A c \in Conns : http_conn.pcb = c =>
           text'[c] = text[c] /\ refused'[c] = refused[c] /\ tcp'[c] = tcp[c]
  PROVE  StandsPart'
<1> SUFFICES ASSUME NEW c \in Conns, http_conn'.pcb = c PROVE Stands(c)'
  BY DEF StandsPart
<1>1. Stands(c) /\ text'[c] = text[c] /\ refused'[c] = refused[c] /\ tcp'[c] = tcp[c]
  BY DEF PageInv, StandsPart
<1>2. MayFollow(c, NextWrite) => MayFollow(c, NextWrite)'
  BY <1>1 DEF MayFollow, NextWrite, Entry
<1> QED
  BY <1>1, <1>2 DEF Stands

LEMMA NoneServed ==
  ASSUME http_conn'.pcb = NoConn
  PROVE  StandsPart'
  BY HttpSetsAssumption DEF StandsPart

\* Nothing is sent between two callbacks.
LEMMA OrderStays ==
  ASSUME PageInv, text' = text, refused' = refused
  PROVE  OrderPart'
  BY DEF PageInv, OrderPart, Orderly

LEMMA AckStep ==
  ASSUME PageInv, NEW c \in Conns, Acknowledged(c)
  PROVE  PageInv'
<1>1. pc = "idle" /\ UNCHANGED <<pc, written, http_conn, tcp, asked, text, refused>>
  BY DEF Acknowledged, pageVars
<1>2. AskedPart' /\ OrderPart' /\ ClosePart'
  BY <1>1, NothingSent
<1>3. StandsPart'
  BY <1>1, ServedKept
<1> QED
  BY <1>2, <1>3 DEF PageInv

LEMMA AcceptStep ==
  ASSUME HttpTypes, PageInv, NEW c \in Conns, Accept(c)
  PROVE  PageInv'
<1>1. /\ pc = "idle" /\ tcp[c] = "none"
      /\ UNCHANGED <<pc, written, asked, text, refused>>
  BY DEF Accept, pageVars
<1>2. tcp \in [Conns -> TcpStates]
  BY DEF HttpTypes, TypeOK, TcpStates
<1>3. /\ \A d \in Conns : d # c => tcp'[d] = tcp[d]
      /\ tcp'[c] \in {"open", "rejected"}
  BY <1>2 DEF Accept
<1>4. text[c] = <<>> /\ c \notin asked
  BY <1>1 DEF PageInv, AskedPart
<1>5. /\ http_conn'.pcb = http_conn.pcb /\ (http_conn.pcb # NoConn => http_conn' = http_conn)
      /\ http_conn'.sending <=> http_conn'.pcb # NoConn
      /\ http_conn.pcb # NoConn => http_conn.pcb \in asked /\ http_conn.pcb \in Conns
  BY DEF Accept, Idle, PageInv, AskedPart, HttpTypes, TypeOK
<1>6. AskedPart'
  BY <1>1, <1>3, <1>4, <1>5 DEF PageInv, AskedPart
<1>7. ClosePart'
  BY <1>1, <1>3, <1>4, <1>5 DEF PageInv, ClosePart
<1>8. StandsPart'
  <2>1. CASE http_conn.pcb = NoConn
    BY <1>5, <2>1, NoneServed
  <2>2. CASE http_conn.pcb # NoConn
    <3>1. http_conn.pcb # c
      BY <1>4, <1>5, <2>2
    <3> QED
      BY <1>1, <1>3, <1>5, <2>2, <3>1, ServedKept
  <2> QED
    BY <2>1, <2>2
<1> QED
  BY <1>1, <1>6, <1>7, <1>8, OrderStays DEF PageInv

LEMMA PollStep ==
  ASSUME HttpTypes, PageInv, NEW c \in Conns, Poll(c)
  PROVE  PageInv'
<1>1. /\ pc = "idle" /\ pc' = "locos" /\ http_conn.pcb = c
      /\ UNCHANGED <<http_conn, tcp, asked, written, text, refused>>
  BY DEF Poll
<1>2. AskedPart' /\ OrderPart' /\ ClosePart'
  BY <1>1, NothingSent
<1>3. Stands(c)
  BY <1>1 DEF PageInv, StandsPart
<1>4. MayFollow(c, NextWrite) => MayFollow(c, NextWrite)'
  BY <1>1 DEF MayFollow, NextWrite, Entry
<1>5. Stands(c)'
  BY <1>1, <1>3, <1>4 DEF Stands
<1>6. StandsPart'
  BY <1>1, <1>5 DEF StandsPart
<1> QED
  BY <1>2, <1>6 DEF PageInv

\* A first segment comes from a connection that has been sent nothing.
LEMMA FirstSegment ==
  ASSUME Undisturbed, PageInv, NEW c \in Conns, Segment(c)
  PROVE  /\ pc = "idle" /\ tcp[c] = "open" /\ c \notin asked /\ asked' = asked \cup {c}
         /\ text[c] = <<>> /\ http_conn.pcb # c /\ c # NoConn
<1>1. pc = "idle" /\ tcp[c] = "open" /\ c \notin asked /\ asked' = asked \cup {c}
  BY DEF Segment, Undisturbed
<1> QED
  BY <1>1, HttpSetsAssumption DEF PageInv, AskedPart

\* It is answered by less than a page, and closed.
LEMMA OtherStep ==
  ASSUME Undisturbed, HttpTypes, PageInv, NEW c \in Conns, SecondClient(c) \/ OtherRequest(c)
  PROVE  PageInv'
<1>1. /\ Segment(c) /\ tcp' = [tcp EXCEPT ![c] = "closing"]
      /\ UNCHANGED <<http_conn, pc, written, text, refused>>
  BY DEF SecondClient, OtherRequest, pageVars
<1>2. /\ pc = "idle" /\ tcp[c] = "open" /\ c \notin asked /\ asked' = asked \cup {c}
      /\ text[c] = <<>> /\ http_conn.pcb # c
  BY <1>1, FirstSegment
<1>3. tcp'[c] = "closing" /\ \A d \in Conns : d # c => tcp'[d] = tcp[d]
  BY <1>1 DEF HttpTypes, TypeOK
<1>4. http_conn.pcb # NoConn => http_conn.pcb \in Conns
  BY DEF HttpTypes, TypeOK
<1>5. AskedPart'
  BY <1>1, <1>2, <1>3, <1>4 DEF PageInv, AskedPart
<1>6. ClosePart'
  BY <1>1, <1>2, <1>3 DEF PageInv, ClosePart
<1>7. StandsPart'
  BY <1>1, <1>2, <1>3, ServedKept
<1> QED
  BY <1>1, <1>5, <1>6, <1>7, OrderStays DEF PageInv

LEMMA RequestStep ==
  ASSUME Undisturbed, HttpTypes, PageInv, NEW c \in Conns, RosterRequest(c)
  PROVE  PageInv'
<1>1. /\ Segment(c) /\ http_conn.pcb \in {NoConn, c}
      /\ http_conn' = [pcb |-> c, sending |-> TRUE, loco_index |-> 0, phase |-> 0]
      /\ pc' = "header" /\ written' = 0 /\ UNCHANGED <<tcp, text, refused>>
  BY DEF RosterRequest
<1>2. /\ tcp[c] = "open" /\ c \notin asked /\ asked' = asked \cup {c}
      /\ text[c] = <<>> /\ http_conn.pcb = NoConn /\ c # NoConn
  BY <1>1, FirstSegment
<1>3. http_conn'.pcb = c /\ http_conn'.sending /\ http_conn'.loco_index = 0 /\ http_conn'.phase = 0
  BY <1>1
<1>4. AskedPart'
  BY <1>1, <1>2, <1>3 DEF PageInv, AskedPart
<1>5. ClosePart'
  <2>1. \A d \in Conns : tcp[d] = "open" => text[d] = <<>>
    BY <1>2, HttpSetsAssumption DEF PageInv, ClosePart
  <2> QED
    BY <1>1, <2>1 DEF PageInv, ClosePart
<1>6. MayFollow(c, Header(written + 1))'
  <2>1. written' + 1 = 1
    BY <1>1
  <2> QED
    BY <1>1, <1>2, <2>1 DEF MayFollow, MayCome
<1>7. Stands(c)'
  BY <1>1, <1>2, <1>3, <1>6, RosterLength DEF Stands
<1>8. StandsPart'
  BY <1>3, <1>7 DEF StandsPart
<1> QED
  BY <1>1, <1>4, <1>5, <1>8, OrderStays DEF PageInv

LEMMA PeerStep ==
  ASSUME HttpTypes, PageInv, NEW c \in Conns, PeerCloses(c)
  PROVE  PageInv'
<1>1. /\ pc = "idle" /\ UNCHANGED <<pc, written, asked, text, refused>>
      /\ tcp' = [tcp EXCEPT ![c] = "leaving"] /\ tcp[c] \in {"open", "closing"}
  BY DEF PeerCloses, pageVars
<1>2. tcp'[c] = "leaving" /\ \A d \in Conns : d # c => tcp'[d] = tcp[d]
  BY <1>1 DEF HttpTypes, TypeOK
<1>3. http_conn.pcb # NoConn => http_conn.pcb \in Conns
  BY DEF HttpTypes, TypeOK
<1>4. CASE http_conn.pcb = c
  <2>1. http_conn'.pcb = NoConn /\ ~http_conn'.sending
    BY <1>4 DEF PeerCloses, HttpTypes, TypeOK
  <2>2. AskedPart'
    BY <1>1, <1>2, <2>1 DEF PageInv, AskedPart
  <2>3. ClosePart'
    <3>1. \A d \in Conns : d # c /\ tcp[d] = "open" => text[d] = <<>>
      BY <1>4 DEF PageInv, ClosePart
    <3> QED
      BY <1>1, <1>2, <3>1 DEF PageInv, ClosePart
  <2> QED
    BY <1>1, <2>1, <2>2, <2>3, OrderStays, NoneServed DEF PageInv
<1>5. CASE http_conn.pcb # c
  <2>1. http_conn' = http_conn
    BY <1>5 DEF PeerCloses
  <2>2. AskedPart'
    BY <1>1, <1>2, <1>3, <1>5, <2>1 DEF PageInv, AskedPart
  <2>3. ClosePart'
    BY <1>1, <1>2, <2>1 DEF PageInv, ClosePart
  <2>4. StandsPart'
    BY <1>1, <1>2, <1>5, <2>1, ServedKept
  <2> QED
    BY <1>1, <2>2, <2>3, <2>4, OrderStays DEF PageInv
<1> QED
  BY <1>4, <1>5

\* Nothing of a connection is left, and another's is as it was.
LEMMA FreedParts ==
  ASSUME HttpTypes, PageInv, NEW c \in Conns, Freed(c)
  PROVE  /\ tcp'[c] = "none" /\ c \notin asked' /\ text'[c] = <<>>
         /\ \A d \in Conns : d # c => (d \in asked' <=> d \in asked)
         /\ OthersKept(c) /\ pc' = pc /\ written' = written /\ OrderPart'
<1>1. tcp \in [Conns -> TcpStates] /\ TextTypes
  BY DEF HttpTypes, TypeOK, TcpStates, TextTypes
<1>2. /\ tcp'[c] = "none" /\ c \notin asked' /\ text'[c] = <<>>
      /\ \A d \in Conns : d # c => (d \in asked' <=> d \in asked)
      /\ OthersKept(c) /\ pc' = pc /\ written' = written
  BY <1>1 DEF Freed, TextTypes, OthersKept
<1>3. Orderly(c)'
  <2>1. Len(<<>>) = 0
    BY EmptySeq
  <2>2. Ordered(<<>>, refused'[c])
    BY <2>1 DEF Ordered
  <2> QED
    BY <1>2, <2>2 DEF Orderly
<1> QED
  BY <1>2, <1>3, OthersInOrder

LEMMA ErrorStep ==
  ASSUME Undisturbed, HttpTypes, PageInv, NEW c \in Conns, Error(c)
  PROVE  PageInv'
<1>1. pc = "idle" /\ http_conn.pcb \in {c, NoConn} /\ Freed(c)
  BY DEF Error, Undisturbed
<1>2. /\ tcp'[c] = "none" /\ c \notin asked' /\ text'[c] = <<>>
      /\ \A d \in Conns : d # c => (d \in asked' <=> d \in asked)
      /\ OthersKept(c) /\ OrderPart'
  BY <1>1, FreedParts
<1>3. http_conn'.pcb = NoConn /\ ~http_conn'.sending
  BY DEF Error, HttpTypes, TypeOK
<1>4. AskedPart'
  BY <1>2, <1>3 DEF PageInv, AskedPart, OthersKept
<1>5. ClosePart'
  <2>1. ASSUME NEW d \in Conns
        PROVE  /\ tcp'[d] = "closing" /\ text'[d] # <<>> => Last(text'[d]) = End
               /\ tcp'[d] = "open" /\ text'[d] # <<>> => http_conn'.pcb = d
    <3>1. CASE d = c
      BY <1>2, <3>1
    <3>2. CASE d # c
      BY <1>1, <1>2, <3>2, HttpSetsAssumption DEF PageInv, ClosePart, OthersKept
    <3> QED
      BY <3>1, <3>2
  <2> QED
    BY <2>1 DEF ClosePart
<1> QED
  BY <1>2, <1>3, <1>4, <1>5, NoneServed DEF PageInv

LEMMA LeavesStep ==
  ASSUME HttpTypes, PageInv, NEW c \in Conns, Leaves(c)
  PROVE  PageInv'
<1>1. pc = "idle" /\ tcp[c] \in {"leaving", "rejected"} /\ Freed(c) /\ http_conn' = http_conn
  BY DEF Leaves
<1>2. /\ tcp'[c] = "none" /\ c \notin asked' /\ text'[c] = <<>>
      /\ \A d \in Conns : d # c => (d \in asked' <=> d \in asked)
      /\ OthersKept(c) /\ pc' = pc /\ written' = written /\ OrderPart'
  BY <1>1, FreedParts
<1>3. http_conn.pcb # NoConn => http_conn.pcb \in Conns /\ http_conn.pcb # c
  BY <1>1 DEF HttpTypes, TypeOK, PageInv, AskedPart
<1>4. AskedPart'
  BY <1>1, <1>2, <1>3 DEF PageInv, AskedPart, OthersKept
<1>5. ClosePart'
  <2>1. ASSUME NEW d \in Conns
        PROVE  /\ tcp'[d] = "closing" /\ text'[d] # <<>> => Last(text'[d]) = End
               /\ tcp'[d] = "open" /\ text'[d] # <<>> => http_conn'.pcb = d
    <3>1. CASE d = c
      BY <1>2, <3>1
    <3>2. CASE d # c
      BY <1>1, <1>2, <3>2 DEF PageInv, ClosePart, OthersKept
    <3> QED
      BY <3>1, <3>2
  <2> QED
    BY <2>1 DEF ClosePart
<1>6. StandsPart'
  <2>1. \A d \in Conns : http_conn.pcb = d => d # c
    BY <1>3, HttpSetsAssumption
  <2> QED
    BY <1>1, <1>2, <2>1, ServedKept DEF OthersKept
<1> QED
  BY <1>2, <1>4, <1>5, <1>6 DEF PageInv

LEMMA PageStep == Undisturbed /\ HttpTypes /\ PageInv /\ [Next]_vars => PageInv'
<1> SUFFICES ASSUME Undisturbed, HttpTypes, PageInv, [Next]_vars PROVE PageInv'
  OBVIOUS
<1>1. CASE Writing
  BY <1>1, HeaderStep, RefusedStep, PieceStep, PhaseStep, LocosStep, EndStep, CloseStep DEF Writing
<1>2. ASSUME NEW c \in Conns, Acknowledged(c) \/ Accept(c) \/ Poll(c)
      PROVE  PageInv'
  BY <1>2, AckStep, AcceptStep, PollStep
<1>3. ASSUME NEW c \in Conns, SecondClient(c) \/ RosterRequest(c) \/ OtherRequest(c)
      PROVE  PageInv'
  BY <1>3, OtherStep, RequestStep
<1>4. ASSUME NEW c \in Conns, PeerCloses(c) \/ Error(c) \/ Leaves(c)
      PROVE  PageInv'
  BY <1>4, PeerStep, ErrorStep, LeavesStep
<1>5. CASE UNCHANGED vars
  <2>1. UNCHANGED <<http_conn, tcp, asked, pc, written, text, refused>>
    BY <1>5 DEF vars, pageVars
  <2>2. AskedPart' /\ OrderPart' /\ ClosePart'
    BY <2>1, NothingSent
  <2>3. ASSUME NEW c \in Conns, http_conn'.pcb = c PROVE Stands(c)'
    <3>1. Stands(c)
      BY <2>1, <2>3 DEF PageInv, StandsPart
    <3>2. \A y : MayFollow(c, y) => MayFollow(c, y)'
      BY <2>1 DEF MayFollow
    <3>3. NextWrite' = NextWrite
      BY <2>1 DEF NextWrite, Entry
    <3> QED
      BY <2>1, <3>1, <3>2, <3>3 DEF Stands
  <2> QED
    BY <2>2, <2>3 DEF PageInv, StandsPart
<1> QED
  BY <1>1, <1>2, <1>3, <1>4, <1>5 DEF Next

(***************************************************************************)
(* What a client is sent is the page in its order and without a gap, but    *)
(* that a phase of which a write was refused comes again from its first     *)
(* piece, behind what was sent of it, and that a header of which one was    *)
(* refused is left at that; the server closes a connection it began a page  *)
(* on only behind the end of the page, and an open connection with a page   *)
(* under way is the one it serves (http_server.c:76-252, 311-317).  Needed: *)
(* a client asks once, in one segment, and no other connection fails        *)
(* meanwhile.  How long the pieces are, why a write is refused and how soon *)
(* anything is acknowledged does not matter.                                *)
(***************************************************************************)
THEOREM PageComesInOrder == Undisturbed => (Spec => []PageInOrder)
<1> SUFFICES ASSUME Undisturbed PROVE Spec => []PageInOrder
  OBVIOUS
<1>1. Init => PageInv
  BY PageInit
<1>2. HttpTypes /\ PageInv /\ [Next]_vars => PageInv'
  BY PageStep
<1>3. PageInv => PageInOrder
  BY PageInvOrders
<1> QED
  BY <1>1, <1>2, <1>3, TypesInvariant, PTL DEF Spec

-----------------------------------------------------------------------------
(* The loop that does not end.                                               *)

\* Only a refused write can happen when the callback is caught, and it leaves
\* everything as it is but for its note that it was refused.
LEMMA CaughtStep == HttpTypes /\ Caught /\ [Next]_vars => Caught'
<1> SUFFICES ASSUME HttpTypes, Caught, [Next]_vars PROVE Caught'
  OBVIOUS
<1>1. /\ pc = "locos" /\ http_conn.loco_index < Len(Roster) /\ written = 0
      /\ written < PhaseWrites(Entry, http_conn.phase)
      /\ ~Fits(Client, NextWrite) /\ Room(Client) # 0
  BY DEF Caught, InPhase
<1>2. Len(Roster) \in Nat /\ http_conn.loco_index # Len(Roster)
  BY <1>1, RosterLength
\* What it depends on stays.
<1>3. ASSUME UNCHANGED <<http_conn, tcp, unacked, pc, written>>
      PROVE  Caught'
  <2>1. Client' = Client /\ Entry' = Entry /\ NextWrite' = NextWrite
    BY <1>3 DEF Client, Entry, NextWrite
  <2>2. Fits(Client, NextWrite)' = Fits(Client, NextWrite) /\ Room(Client)' = Room(Client)
    BY <1>3, <2>1 DEF Fits, Room, HeapLeft
  <2>3. PhaseWrites(Entry, http_conn.phase)' = PhaseWrites(Entry, http_conn.phase)
    BY <1>3, <2>1 DEF PhaseWrites, LabelWrites, Listed
  <2> QED
    BY <1>1, <1>3, <2>2, <2>3 DEF Caught, InPhase
<1>4. CASE WriteRefused
  BY <1>1, <1>3, <1>4 DEF WriteRefused, Goes, Refused
<1>5. ASSUME WriteHeader \/ WritePiece \/ PhaseDone \/ LocosDone \/ WriteEnd \/ CloseAtEnd
      PROVE  FALSE
  BY <1>1, <1>2, <1>5 DEF WriteHeader, WritePiece, PhaseDone, LocosDone, WriteEnd, CloseAtEnd
<1>6. ASSUME NEW c \in Conns,
             Acknowledged(c) \/ Accept(c) \/ Poll(c) \/ SecondClient(c) \/ RosterRequest(c)
               \/ OtherRequest(c) \/ PeerCloses(c) \/ Error(c) \/ Leaves(c)
      PROVE  FALSE
  BY <1>1, <1>6 DEF Acknowledged, Accept, Poll, SecondClient, RosterRequest, OtherRequest, Segment,
                    PeerCloses, Error, Leaves
<1>7. CASE UNCHANGED vars
  BY <1>3, <1>7 DEF vars, pageVars
<1> QED
  BY <1>4, <1>5, <1>6, <1>7 DEF Next, Writing

(***************************************************************************)
(* A callback that is caught never returns: once the first write of a phase *)
(* is refused while there is room left in the send buffer, it is tried      *)
(* again in the same callback, and as nothing is acknowledged or given back *)
(* meanwhile, it is refused for ever, for every roster and every size of    *)
(* the buffers (http_server.c:237-252, against its comment "stop and retry  *)
(* on next poll").  No connection is served, accepted or closed after that. *)
(***************************************************************************)
THEOREM CaughtForEver == Spec => [](Caught => []Caught)
<1>1. HttpTypes /\ Caught /\ [Next]_vars => Caught'
  BY CaughtStep
<1> QED
  BY <1>1, TypesInvariant, PTL DEF Spec
=============================================================================
