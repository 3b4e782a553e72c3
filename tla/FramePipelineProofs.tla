---- MODULE FramePipelineProofs ----
(***************************************************************************)
(* Proofs about the way from universes to words, for any number and length *)
(* of strands, any size of a universe and any configurations.              *)
(***************************************************************************)
EXTENDS FramePipeline, FiniteSetTheorems, WellFoundedInduction, TLAPS

(* A finite set of natural numbers has a greatest element: of the sets of  *)
(* its elements at least x, one is smallest under inclusion.               *)
LEMMA Greatest ==
  ASSUME NEW S \in SUBSET Nat, IsFiniteSet(S), S # {}
  PROVE  \E x \in S : \A y \in S : y <= x
<1> DEFINE AtLeast(x) == {y \in S : x <= y}
           T == {AtLeast(x) : x \in S}
<1>1. T \subseteq FiniteSubsetsOf(S) /\ T # {}
  <2>1. \A x \in S : AtLeast(x) \subseteq S /\ IsFiniteSet(AtLeast(x))
    BY FS_Subset
  <2>2. QED
    BY <2>1 DEF FiniteSubsetsOf
<1>2. PICK U \in T : \A V \in T : <<V, U>> \notin StrictSubsetOrdering(S)
  <2> HIDE DEF T
  <2>1. IsWellFoundedOn(StrictSubsetOrdering(S), FiniteSubsetsOf(S))
    BY FS_StrictSubsetOrderingWellFounded
  <2>2. QED
    BY <2>1, <1>1, WFMin
<1>3. PICK x \in S : U = AtLeast(x)
  BY <1>2
<1>4. ASSUME NEW y \in S, ~ (y <= x) PROVE FALSE
  <2>1. x \in Nat /\ y \in Nat /\ x < y /\ x <= x /\ ~ (y <= x)
    BY <1>4
  <2>2. \A z \in S : y <= z => x <= z
    <3>1. \A z \in S : z \in Nat
      OBVIOUS
    <3>2. QED
      BY <2>1, <3>1
  <2>3. AtLeast(y) \subseteq AtLeast(x) /\ x \in AtLeast(x) /\ x \notin AtLeast(y)
    BY <2>1, <2>2
  <2>4. <<AtLeast(y), AtLeast(x)>> \in StrictSubsetOrdering(S)
    BY <2>3 DEF StrictSubsetOrdering
  <2>5. QED
    BY <2>4, <1>2, <1>3
<1>5. QED
  BY <1>4

LEMMA Product ==
  ASSUME NEW a \in Nat, NEW b \in Nat, NEW c \in Nat
  PROVE  a * c \in Nat /\ (a < b => a * c + c <= b * c)
<1>1. a * c \in Nat
  OBVIOUS
<1>2. CASE a < b
  <2>1. b = a + 1 + (b - a - 1) /\ b - a - 1 \in Nat
    BY <1>2
  <2>2. b * c = a * c + c + (b - a - 1) * c
    BY <2>1
  <2>3. (b - a - 1) * c \in Nat
    BY <2>1
  <2>4. QED
    BY <2>2, <2>3, <1>1
<1>3. QED
  BY <1>1, <1>2

(* Division with remainder.                                                *)
LEMMA Quotient ==
  ASSUME NEW a \in Nat, NEW d \in Nat \ {0}
  PROVE  /\ a \div d \in Nat
         /\ (a \div d) * d <= a
         /\ a < (a \div d) * d + d
<1>1. a \div d \in Nat
  OBVIOUS
<1>2. d * (a \div d) <= a /\ a < d * (a \div d) + d
  OBVIOUS
<1>3. d * (a \div d) = (a \div d) * d
  BY <1>1
<1>4. QED
  BY <1>1, <1>2, <1>3

(* A quotient is at least what goes into the number that often.            *)
LEMMA QuotientBound ==
  ASSUME NEW a \in Nat, NEW d \in Nat \ {0}, NEW n \in Nat
  PROVE  /\ n * d <= a => n <= a \div d
         /\ a < n * d => a \div d < n
<1> DEFINE q == a \div d
<1>1. q \in Nat /\ q * d <= a /\ a < q * d + d
  BY Quotient
<1> HIDE DEF q
<1>2. q < n => q * d + d <= n * d
  BY <1>1, Product
<1>3. n <= q => n * d <= q * d
  <2>1. CASE n = q
    BY <2>1, <1>1
  <2>2. CASE n < q
    BY <2>2, <1>1, Product
  <2>3. QED
    BY <2>1, <2>2, <1>1
<1>4. n * d \in Nat /\ q * d \in Nat
  BY <1>1, Product
<1>5. QED
  BY <1>1, <1>2, <1>3, <1>4 DEF q
----
(* Words, lit pixels and their places in the stream.                       *)

LEMMA EffectiveType == ASSUME NEW c \in Configs
                       PROVE  Effective(c) \in Config /\ NewConfig(c) \in Config
<1>1. /\ c.active \in Nat /\ c.lengths \in [Output -> Nat]
      /\ OutputCount \in Nat /\ PixelsPerOutput \in Nat
  BY ConfigsAssumption, SizeAssumption
<1>2. /\ Clamp(c.active, OutputCount) \in 0 .. OutputCount
      /\ \A o \in Output : Clamp(c.lengths[o], PixelsPerOutput) \in 0 .. PixelsPerOutput
  BY <1>1 DEF Clamp
<1>3. Effective(c) \in Config
  BY <1>2 DEF Effective, Config
<1>4. NewConfig(c) \in Config
  BY <1>1, <1>3 DEF NewConfig, Config
<1>5. QED
  BY <1>3, <1>4

LEMMA WordType == /\ Word \subseteq Nat /\ IsFiniteSet(Word) /\ 0 \in Word
                  /\ \A w \in Word : OutputOf(w) \in Output
<1> DEFINE size == OutputCount * PixelsPerOutput
<1>1. size \in Nat
  BY SizeAssumption
<1>2. size > 0
  BY SizeAssumption, Product, 0 \in Nat
<1> HIDE DEF size
<1>3. Word = 0 .. size - 1
  BY DEF Word, size
<1>4. Word \subseteq Nat /\ IsFiniteSet(Word) /\ 0 \in Word
  BY <1>1, <1>2, <1>3, FS_Interval
<1>5. ASSUME NEW w \in Word PROVE OutputOf(w) \in Output
  <2>1. w \in Nat /\ w < OutputCount * PixelsPerOutput
    BY <1>1, <1>3, <1>4 DEF size
  <2>2. w \div PixelsPerOutput \in Nat /\ w \div PixelsPerOutput < OutputCount
    BY <2>1, SizeAssumption, Quotient, QuotientBound
  <2>3. QED
    BY <2>2, SizeAssumption DEF OutputOf, Output
<1>6. QED
  BY <1>4, <1>5

LEMMA LitType == ASSUME NEW c
                 PROVE  /\ Lit(c) \subseteq Word /\ IsFiniteSet(Lit(c))
                        /\ TotalPixels(c) \in Nat /\ TotalSlots(c) \in Nat
<1>1. Lit(c) \subseteq Word
  BY DEF Lit
<1>2. IsFiniteSet(Lit(c)) /\ TotalPixels(c) \in Nat
  BY <1>1, WordType, FS_Subset, FS_CardinalityType DEF TotalPixels
<1>3. QED
  BY <1>1, <1>2 DEF TotalSlots

LEMMA LinearIndexType == ASSUME NEW c, NEW w \in Lit(c)
                         PROVE  LinearIndex(c, w) \in Nat /\ LinearIndex(c, w) < TotalPixels(c)
<1> DEFINE below == {v \in Lit(c) : v < w}
<1>1. below \subseteq Lit(c) /\ w \notin below
  <2>1. w \in Nat
    BY WordType, LitType
  <2>2. ~ (w < w)
    BY <2>1
  <2>3. QED
    BY <2>2
<1>2. IsFiniteSet(below) /\ Cardinality(below) <= Cardinality(Lit(c))
      /\ (Cardinality(Lit(c)) = Cardinality(below) => Lit(c) = below)
  BY <1>1, LitType, FS_Subset
<1>3. Cardinality(below) \in Nat /\ Cardinality(Lit(c)) \in Nat
  BY <1>2, LitType, FS_CardinalityType
<1>4. QED
  BY <1>1, <1>2, <1>3 DEF LinearIndex, TotalPixels

(* The words needed end with a lit one.                                    *)
LEMMA LastWordLit == ASSUME NEW c, Lit(c) # {}
                     PROVE  /\ RequiredWords(c) \in Nat \ {0}
                            /\ RequiredWords(c) - 1 \in Lit(c)
<1> DEFINE last == CHOOSE w \in Lit(c) : \A v \in Lit(c) : v <= w
<1>1. Lit(c) \subseteq Nat
  BY WordType, LitType
<1>2. last \in Lit(c)
  BY <1>1, LitType, Greatest
<1>3. last \in Nat /\ RequiredWords(c) = 1 + last
  BY <1>1, <1>2 DEF RequiredWords
<1>4. QED
  BY <1>2, <1>3

----
(* Types.                                                                  *)

LEMMA WrittenType ==
  ASSUME TypeOK, NEW words \in [Word -> Pixel \cup {Black}]
  PROVE  Written(words) \in [Word -> Pixel \cup {Black, Junk}]
<1>1. 1 - active \in Bank
  BY DEF TypeOK, Bank
<1>2. memory[1 - active] \in [Word -> Pixel \cup {Black, Junk}]
  BY <1>1 DEF TypeOK
<1>3. QED
  BY <1>2 DEF Written

LEMMA CommitType ==
  ASSUME TypeOK, NEW words \in [Word -> Pixel \cup {Black}],
         NEW r \in {"ok", "busy", "failed"}, Commit(words, r)
  PROVE  /\ staging' \in [Bank -> [Word -> Pixel \cup {Black}]]
         /\ memory' \in [Bank -> [Word -> Pixel \cup {Black, Junk}]]
         /\ writeBank' \in Bank /\ active' \in Bank
         /\ error' \in BOOLEAN
         /\ result' \in {"ok", "busy", "failed"}
         /\ shown' \in Config
<1>1. Written(words) \in [Word -> Pixel \cup {Black, Junk}]
  BY WrittenType
<1>2. writeBank \in Bank /\ active \in Bank /\ 1 - active \in Bank /\ 1 - writeBank \in Bank
  BY DEF TypeOK, Bank
<1>3. staging' \in [Bank -> [Word -> Pixel \cup {Black}]] /\ writeBank' \in Bank
      /\ result' \in {"ok", "busy", "failed"}
  BY <1>2 DEF Commit, Swap, TypeOK
<1>4. /\ memory' = memory \/ memory' = [memory EXCEPT ![1 - active] = Written(words)]
      /\ active' = active \/ active' = 1 - active
      /\ shown' = shown \/ shown' = config
      /\ error' = error \/ error' = (r = "failed")
  BY DEF Commit, pl
<1>5. memory' \in [Bank -> [Word -> Pixel \cup {Black, Junk}]]
  BY <1>1, <1>4 DEF TypeOK
<1>6. error' \in BOOLEAN
  BY <1>4 DEF TypeOK
<1>7. QED
  BY <1>2, <1>3, <1>4, <1>5, <1>6 DEF TypeOK

LEMMA AllBlackType == AllBlack \in [Word -> Pixel \cup {Black}]
BY DEF AllBlack

LEMMA StagedType ==
  ASSUME TypeOK, NEW u \in Word, NEW slots \in 0 .. SlotsPerUniverse, NEW s \in Sender
  PROVE  Staged(u, slots, s) \in [Word -> Pixel \cup {Black}]
<1>1. staging[writeBank] \in [Word -> Pixel \cup {Black}]
  BY DEF TypeOK
<1>2. ASSUME NEW w \in Covered(config, u, slots)
      PROVE  LinearIndex(config, w) - FirstPixel(u) \in Nat
  <2>1. slots \div 3 \in Nat
    BY SlotsAssumption
  <2>2. QED
    BY <2>1, <1>2 DEF Covered
<1>3. u \in Nat
  BY WordType
<1>4. QED
  BY <1>1, <1>2, <1>3 DEF Staged, Pixel

LEMMA MarkType ==
  ASSUME TypeOK, NEW restart \in BOOLEAN, NEW u \in Word
  PROVE  MarkUniverse(Kept(restart), u) \in
            [received : SUBSET Word, count : Nat, pending : BOOLEAN]
<1>1. Kept(restart) \in [received : SUBSET Word, count : Nat, pending : BOOLEAN]
  BY DEF Kept, EmptyAssembly, TypeOK
<1>2. /\ Kept(restart).received \cup {u} \in SUBSET Word
      /\ Kept(restart).count \in Nat /\ Kept(restart).count + 1 \in Nat
  BY <1>1
<1>3. QED
  BY <1>1, <1>2 DEF MarkUniverse

LEMMA CoveredType == ASSUME NEW c, NEW u, NEW slots PROVE Covered(c, u, slots) \subseteq Word
BY LitType DEF Covered

(* The unprimed conjuncts of the type invariant that a sweep touches.      *)
SweepType == /\ assembly \in [received : SUBSET Word, count : Nat, pending : BOOLEAN]
             /\ fresh \subseteq Word

LEMMA DataPacketType ==
  ASSUME TypeOK, NEW u \in Word, NEW slots \in 0 .. SlotsPerUniverse, NEW s \in Sender,
         NEW sync \in BOOLEAN, NEW takeOver \in BOOLEAN, DataPacket(u, slots, s, sync, takeOver)
  PROVE  TypeOK'
<1> DEFINE restart == takeOver \/ sync # synced
           words == Staged(u, slots, s)
           asm == MarkUniverse(Kept(restart), u)
           staged == FreshKept(restart) \cup Covered(config, u, slots)
<1>1. words \in [Word -> Pixel \cup {Black}]
  BY StagedType
<1>2. restart \in BOOLEAN
  OBVIOUS
<1>3. asm \in [received : SUBSET Word, count : Nat, pending : BOOLEAN]
  BY <1>2, MarkType
<1>4. staged \subseteq Word
  BY CoveredType DEF FreshKept, TypeOK
<1>5. synced' \in BOOLEAN /\ config' \in Config
  BY DEF DataPacket, TypeOK
<1>6. CASE CommitCurrent(words, asm, staged)
  <2>1. PICK r \in {"ok", "busy", "failed"} :
            /\ Commit(words, r)
            /\ assembly' = IF r = "failed" THEN asm ELSE EmptyAssembly
            /\ fresh' = IF r = "failed" THEN staged ELSE {}
    BY <1>6 DEF CommitCurrent
  <2>2. SweepType'
    BY <2>1, <1>3, <1>4 DEF SweepType, EmptyAssembly
  <2>3. QED
    BY <2>1, <2>2, <1>1, <1>5, CommitType DEF TypeOK, SweepType
<1>7. CASE /\ staging' = [staging EXCEPT ![writeBank] = words]
           /\ assembly' = [asm EXCEPT !.pending = @ \/ Complete(asm)]
           /\ fresh' = staged
           /\ UNCHANGED <<writeBank, pl, error, result, shown>>
  <2>1. staging' \in [Bank -> [Word -> Pixel \cup {Black}]]
    BY <1>1, <1>7 DEF TypeOK
  <2>2. SweepType'
    BY <1>3, <1>4, <1>7 DEF SweepType, Complete
  <2>3. QED
    BY <2>1, <2>2, <1>5, <1>7 DEF TypeOK, SweepType, pl
<1>8. QED
  BY <1>6, <1>7 DEF DataPacket

THEOREM TypeCorrect == Spec => []TypeOK
<1>1. Init => TypeOK
  <2>1. SUFFICES ASSUME Init PROVE TypeOK
    OBVIOUS
  <2>2. config \in Config /\ shown \in Config
    BY <2>1, EffectiveType DEF Init
  <2>3. staging \in [Bank -> [Word -> Pixel \cup {Black}]]
    BY <2>1, AllBlackType DEF Init
  <2>4. memory \in [Bank -> [Word -> Pixel \cup {Black, Junk}]]
    BY <2>1 DEF Init
  <2>5. QED
    BY <2>1, <2>2, <2>3, <2>4 DEF TypeOK, Init, Bank, EmptyAssembly
<1>2. TypeOK /\ [Next]_vars => TypeOK'
  <2>1. SUFFICES ASSUME TypeOK, [Next]_vars PROVE TypeOK'
    OBVIOUS
  <2>2. CASE \E u \in Word, slots \in 0 .. SlotsPerUniverse, s \in Sender,
                sync \in BOOLEAN, takeOver \in BOOLEAN :
                DataPacket(u, slots, s, sync, takeOver)
    BY <2>1, <2>2, DataPacketType
  <2>3. CASE RejectedTakeOver
    BY <2>1, <2>3 DEF RejectedTakeOver, TypeOK, EmptyAssembly, pl
  <2>4. CASE SyncPacket
    <3>1. PICK r \in {"ok", "busy", "failed"} :
              /\ Commit(staging[writeBank], r)
              /\ assembly' = IF r = "failed" THEN assembly ELSE EmptyAssembly
              /\ fresh' = IF r = "failed" THEN fresh ELSE {}
      BY <2>4 DEF SyncPacket, CommitCurrent
    <3>2. staging[writeBank] \in [Word -> Pixel \cup {Black}]
      BY <2>1 DEF TypeOK
    <3>3. SweepType'
      BY <2>1, <3>1 DEF SweepType, EmptyAssembly, TypeOK
    <3>4. synced' = synced /\ config' = config
      BY <2>4 DEF SyncPacket
    <3>5. QED
      BY <2>1, <3>1, <3>2, <3>3, <3>4, CommitType DEF TypeOK, SweepType
  <2>5. CASE BlackOut
    <3>1. PICK r \in {"ok", "busy", "failed"} : Commit(AllBlack, r)
      BY <2>5 DEF BlackOut
    <3>2. QED
      BY <2>1, <2>5, <3>1, CommitType, AllBlackType DEF TypeOK, BlackOut, EmptyAssembly
  <2>6. ASSUME NEW c \in Configs, Configure(c) PROVE TypeOK'
    <3>1. NewConfig(c) \in Config
      BY EffectiveType
    <3>2. CASE NeedsBlack(NewConfig(c))
      <4>1. PICK r \in {"ok", "busy", "failed"} :
                /\ Commit(AllBlack, r)
                /\ config' = IF r = "ok" THEN NewConfig(c) ELSE config
                /\ fresh' = {}
        BY <2>6, <3>2 DEF Configure
      <4>2. QED
        BY <2>1, <2>6, <3>1, <4>1, CommitType, AllBlackType DEF TypeOK, Configure, receiver
    <3>3. CASE ~NeedsBlack(NewConfig(c))
      BY <2>1, <2>6, <3>1, <3>3 DEF TypeOK, Configure, receiver, pl
    <3>4. QED
      BY <3>2, <3>3
  <2>7. CASE ConsumerError
    BY <2>1, <2>7 DEF ConsumerError, TypeOK, receiver, pl
  <2>8. CASE UNCHANGED vars
    BY <2>1, <2>8 DEF TypeOK, vars, receiver, pl
  <2>9. QED
    BY <2>1, <2>2, <2>3, <2>4, <2>5, <2>6, <2>7, <2>8 DEF Next
<1>3. QED
  BY <1>1, <1>2, PTL DEF Spec

----
(* Every change of buffers and banks is a commit or goes to the staging    *)
(* buffer that is being filled; every change of the configuration goes     *)
(* through frame_pipeline_configure.                                       *)
Committing(words) == \E r \in {"ok", "busy", "failed"} : Commit(words, r)

Filling(words) == /\ staging' = [staging EXCEPT ![writeBank] = words]
                  /\ UNCHANGED <<writeBank, pl, error, result, shown>>

Idle == UNCHANGED <<staging, writeBank, pl, result, shown>>

LEMMA Steps ==
  ASSUME TypeOK, [Next]_vars
  PROVE  \/ /\ UNCHANGED config
            /\ \E words \in [Word -> Pixel \cup {Black}] : Committing(words) \/ Filling(words)
         \/ UNCHANGED config /\ Idle /\ (error' = error \/ error')
         \/ \E c \in Configs : Configure(c)
<1>1. ASSUME NEW u \in Word, NEW slots \in 0 .. SlotsPerUniverse, NEW s \in Sender,
             NEW sync \in BOOLEAN, NEW takeOver \in BOOLEAN,
             DataPacket(u, slots, s, sync, takeOver)
      PROVE  /\ UNCHANGED config
             /\ \E words \in [Word -> Pixel \cup {Black}] : Committing(words) \/ Filling(words)
  <2>1. Staged(u, slots, s) \in [Word -> Pixel \cup {Black}]
    BY StagedType
  <2>2. UNCHANGED config /\ (Committing(Staged(u, slots, s)) \/ Filling(Staged(u, slots, s)))
    BY <1>1 DEF DataPacket, CommitCurrent, Committing, Filling
  <2>3. QED
    BY <2>1, <2>2
<1>2. ASSUME SyncPacket
      PROVE  /\ UNCHANGED config
             /\ \E words \in [Word -> Pixel \cup {Black}] : Committing(words) \/ Filling(words)
  <2>1. staging[writeBank] \in [Word -> Pixel \cup {Black}]
    BY DEF TypeOK
  <2>2. UNCHANGED config /\ Committing(staging[writeBank])
    BY <1>2 DEF SyncPacket, CommitCurrent, Committing
  <2>3. QED
    BY <2>1, <2>2
<1>3. ASSUME BlackOut
      PROVE  /\ UNCHANGED config
             /\ \E words \in [Word -> Pixel \cup {Black}] : Committing(words) \/ Filling(words)
  BY <1>3, AllBlackType DEF BlackOut, Committing
<1>4. CASE RejectedTakeOver \/ ConsumerError \/ UNCHANGED vars
  BY <1>4 DEF RejectedTakeOver, ConsumerError, vars, pl, Idle
<1>5. QED
  BY <1>1, <1>2, <1>3, <1>4 DEF Next

LEMMA CommitKeepsPairs ==
  ASSUME TypeOK, BuffersFollowBanks, NEW words \in [Word -> Pixel \cup {Black}],
         NEW r \in {"ok", "busy", "failed"}, Commit(words, r)
  PROVE  BuffersFollowBanks'
<1> SUFFICES ASSUME ~error'
             PROVE  /\ active' = 1 - writeBank'
                    /\ \A w \in Lit(shown') : memory'[active'][w] = staging'[1 - writeBank'][w]
  BY DEF BuffersFollowBanks
<1>1. /\ writeBank \in Bank /\ active \in Bank /\ 1 - active \in Bank
      /\ active # 1 - active /\ 1 - (1 - active) = active
  BY DEF TypeOK, Bank
<1>2. ~error /\ active = 1 - writeBank /\ writeBank = 1 - active
  BY <1>1 DEF Commit, BuffersFollowBanks, TypeOK, Bank
<1>3. staging' = [staging EXCEPT ![writeBank] = words]
  BY DEF Commit
<1>4. staging'[active] = staging[active] /\ staging'[1 - active] = words
  BY <1>1, <1>2, <1>3 DEF TypeOK
<1>5. CASE r # "ok"
  <2>1. /\ active' = active /\ shown' = shown /\ writeBank' = writeBank
        /\ memory' = memory \/ memory' = [memory EXCEPT ![1 - active] = Written(words)]
    BY <1>5 DEF Commit, Swap, pl
  <2>2. memory'[active] = memory[active]
    BY <2>1, <1>1 DEF TypeOK
  <2>3. QED
    BY <2>1, <2>2, <1>2, <1>4, <1>1 DEF BuffersFollowBanks
<1>6. CASE r = "ok"
  <2>1. /\ active' = 1 - active /\ shown' = config /\ writeBank' = 1 - writeBank
        /\ memory' = [memory EXCEPT ![1 - active] = Written(words)]
    BY <1>6 DEF Commit, Swap
  <2>2. memory'[1 - active] = Written(words)
    BY <2>1, <1>1 DEF TypeOK
  <2>3. \A w \in Lit(config) : Written(words)[w] = words[w]
    BY LitType DEF Written
  <2>4. QED
    BY <2>1, <2>2, <2>3, <1>2, <1>4, <1>1
<1>7. QED
  BY <1>5, <1>6

(* The idle staging buffer is the frame in the active bank, for every      *)
(* configuration and every failure (see BuffersFollowBanks).               *)
THEOREM BuffersFollowBanksHolds == Spec => []BuffersFollowBanks
<1>1. Init => BuffersFollowBanks
  <2>1. SUFFICES ASSUME Init PROVE BuffersFollowBanks
    OBVIOUS
  <2>2. \A w \in Lit(shown) : w \in Word /\ memory[0][w] = Black /\ staging[0][w] = Black
    BY <2>1, LitType DEF Init, Bank, AllBlack
  <2>3. QED
    BY <2>1, <2>2 DEF Init, BuffersFollowBanks
<1>2. TypeOK /\ BuffersFollowBanks /\ [Next]_vars => BuffersFollowBanks'
  <2>1. SUFFICES ASSUME TypeOK, BuffersFollowBanks, [Next]_vars PROVE BuffersFollowBanks'
    OBVIOUS
  <2>2. ASSUME NEW words \in [Word -> Pixel \cup {Black}], Committing(words)
        PROVE  BuffersFollowBanks'
    BY <2>1, <2>2, CommitKeepsPairs DEF Committing
  <2>3. ASSUME NEW words \in [Word -> Pixel \cup {Black}], Filling(words)
        PROVE  BuffersFollowBanks'
    <3>1. writeBank # 1 - writeBank /\ 1 - writeBank \in Bank
      BY <2>1 DEF TypeOK, Bank
    <3>2. staging'[1 - writeBank] = staging[1 - writeBank]
      BY <2>1, <2>3, <3>1 DEF Filling, TypeOK
    <3>3. QED
      BY <2>1, <2>3, <3>2 DEF Filling, BuffersFollowBanks, pl
  <2>4. CASE Idle /\ (error' = error \/ error')
    BY <2>1, <2>4 DEF Idle, BuffersFollowBanks, pl
  <2>5. ASSUME NEW c \in Configs, Configure(c) PROVE BuffersFollowBanks'
    <3>1. CASE NeedsBlack(NewConfig(c))
      BY <2>2, <2>5, <3>1, AllBlackType DEF Configure, Committing
    <3>2. CASE ~NeedsBlack(NewConfig(c))
      BY <2>1, <2>5, <3>2 DEF Configure, BuffersFollowBanks, pl
    <3>3. QED
      BY <3>1, <3>2
  <2>6. QED
    BY <2>1, <2>2, <2>3, <2>4, <2>5, Steps
<1>3. QED
  BY <1>1, <1>2, TypeCorrect, PTL DEF Spec

(* A new configuration without a black frame gives no pixel up.            *)
LEMMA NothingGivenUp ==
  ASSUME TypeOK, NEW new \in Config, ~NeedsBlack(new)
  PROVE  Lit(config) \subseteq Lit(new)
<1>1. ASSUME NEW w \in Lit(config) PROVE w \in Lit(new)
  <2>1. w \in Word /\ OutputOf(w) \in Output
    BY LitType, WordType
  <2>2. OutputOf(w) < config.active /\ w - Base(OutputOf(w)) < config.lengths[OutputOf(w)]
    BY DEF Lit
  <2>3. OutputOf(w) < new.active /\ ~ (new.lengths[OutputOf(w)] < config.lengths[OutputOf(w)])
    <3>1. ~ (OutputOf(w) >= new.active)
      BY <2>1, <2>2 DEF NeedsBlack
    <3>2. OutputOf(w) \in Nat /\ new.active \in Nat
      BY <2>1, SizeAssumption DEF Output, Config
    <3>3. QED
      BY <3>1, <3>2, <2>1, <2>2 DEF NeedsBlack
  <2>4. /\ new.lengths[OutputOf(w)] \in Nat /\ config.lengths[OutputOf(w)] \in Nat
        /\ w - Base(OutputOf(w)) \in Int
    <3>1. config.lengths[OutputOf(w)] \in Nat /\ new.lengths[OutputOf(w)] \in Nat
      BY <2>1, SizeAssumption DEF Config, TypeOK
    <3>2. w \in Nat /\ OutputOf(w) * PixelsPerOutput \in Nat
      BY <2>1, WordType, SizeAssumption, Product DEF Output
    <3>3. QED
      BY <3>1, <3>2 DEF Base
  <2>5. w - Base(OutputOf(w)) < new.lengths[OutputOf(w)]
    BY <2>2, <2>3, <2>4
  <2>6. QED
    BY <2>1, <2>3, <2>5 DEF Lit
<1>2. QED
  BY <1>1

(* Whatever a new configuration gives up is black in the frame committed   *)
(* then (see GivenUpDark).                                                 *)
THEOREM GivenUpDarkHolds == Spec => GivenUpDark
<1> DEFINE Dark == \A w \in Lit(config) \ Lit(config') : memory'[active'][w] = Black
<1>1. TypeOK /\ [Next]_vars => [Dark]_vars
  <2>1. SUFFICES ASSUME TypeOK, [Next]_vars PROVE Dark
    OBVIOUS
  <2>2. CASE UNCHANGED config
    BY <2>2
  <2>3. ASSUME NEW c \in Configs, Configure(c) PROVE Dark
    <3>1. CASE ~NeedsBlack(NewConfig(c))
      BY <2>1, <2>3, <3>1, EffectiveType, NothingGivenUp DEF Configure
    <3>2. CASE NeedsBlack(NewConfig(c))
      <4>1. PICK r \in {"ok", "busy", "failed"} :
                /\ Commit(AllBlack, r)
                /\ config' = IF r = "ok" THEN NewConfig(c) ELSE config
        BY <2>3, <3>2 DEF Configure
      <4>2. CASE r # "ok"
        BY <4>1, <4>2
      <4>3. CASE r = "ok"
        <5>1. active' = 1 - active /\ memory' = [memory EXCEPT ![1 - active] = Written(AllBlack)]
          BY <4>1, <4>3 DEF Commit
        <5>2. memory'[active'] = Written(AllBlack)
          BY <2>1, <5>1 DEF TypeOK, Bank
        <5>3. \A w \in Lit(config) : Written(AllBlack)[w] = Black
          BY LitType DEF Written, AllBlack
        <5>4. QED
          BY <5>2, <5>3
      <4>4. QED
        BY <4>2, <4>3
    <3>3. QED
      BY <3>1, <3>2
  <2>4. QED
    BY <2>1, <2>2, <2>3, Steps
<1>2. QED
  BY <1>1, TypeCorrect, PTL DEF Spec, GivenUpDark

----
(* With the first strand lit, whenever one is, the words read back are     *)
(* those just written.                                                     *)
FirstWordLit(c) == Lit(c) # {} => 0 \in Lit(c)

LEMMA ReadBackIsGood ==
  ASSUME FirstWordLit(config), NEW words
  PROVE  ReadBackGood(words)
<1>1. CASE Lit(config) = {}
  BY <1>1 DEF ReadBackGood, RequiredWords
<1>2. CASE Lit(config) # {}
  <2>1. 0 \in Lit(config) /\ RequiredWords(config) - 1 \in Lit(config)
    BY <1>2, LastWordLit DEF FirstWordLit
  <2>2. \A w \in Lit(config) : Written(words)[w] = words[w]
    BY LitType DEF Written
  <2>3. QED
    BY <2>1, <2>2 DEF ReadBackGood
<1>3. QED
  BY <1>1, <1>2

(* If no configuration leaves its first strand empty while another is lit, *)
(* a commit fails only on an error of the PL (see FailsOnlyOnError).       *)
THEOREM FailsOnlyOnErrorHolds ==
  ASSUME \A c \in Configs : FirstWordLit(Effective(c)) /\ FirstWordLit(NewConfig(c))
  PROVE  Spec => []FailsOnlyOnError
<1> DEFINE Inv == FirstWordLit(config) /\ FailsOnlyOnError
<1>1. Init => Inv
  BY DEF Init, FirstWordLit, FailsOnlyOnError
<1>2. TypeOK /\ Inv /\ [Next]_vars => Inv'
  <2>1. SUFFICES ASSUME TypeOK, Inv, [Next]_vars PROVE Inv'
    OBVIOUS
  <2>2. ASSUME NEW words \in [Word -> Pixel \cup {Black}], Committing(words)
        PROVE  FailsOnlyOnError'
    <3>1. PICK r \in {"ok", "busy", "failed"} : Commit(words, r)
      BY <2>2 DEF Committing
    <3>2. ReadBackGood(words)
      BY <2>1, ReadBackIsGood
    <3>3. CASE r = "failed"
      <4>1. ASSUME error PROVE error'
        <5>1. error' = error
          BY <3>1, <4>1 DEF Commit
        <5>2. QED
          BY <4>1, <5>1, Zenon
      <4>2. ASSUME ~error PROVE error'
        <5>1. error' = (r = "failed")
          BY <3>1, <3>2, <3>3, <4>2 DEF Commit
        <5>2. QED
          BY <3>3, <5>1
      <4>3. error'
        BY <4>1, <4>2, Zenon
      <4>4. QED
        BY <4>3, Zenon DEF FailsOnlyOnError
    <3>4. CASE r # "failed"
      BY <3>1, <3>4 DEF Commit, FailsOnlyOnError
    <3>5. QED
      BY <3>3, <3>4
  <2>3. ASSUME NEW words \in [Word -> Pixel \cup {Black}], Filling(words)
        PROVE  FailsOnlyOnError'
    BY <2>1, <2>3 DEF Filling, FailsOnlyOnError
  <2>4. ASSUME Idle, error' = error \/ error'
        PROVE  FailsOnlyOnError'
    <3>1. result' = "failed" => error
      BY <2>1, <2>4 DEF Idle, FailsOnlyOnError
    <3>2. error => error'
      BY <2>4, Zenon
    <3>3. QED
      BY <3>1, <3>2, Zenon DEF FailsOnlyOnError
  <2>5. UNCHANGED config => FirstWordLit(config')
    BY <2>1
  <2>6. ASSUME NEW c \in Configs, Configure(c) PROVE Inv'
    <3>1. FirstWordLit(config')
      <4>1. FirstWordLit(NewConfig(c)) /\ FirstWordLit(config)
        BY <2>1
      <4>2. config' = NewConfig(c) \/ config' = config
        BY <2>6 DEF Configure
      <4>3. QED
        BY <4>1, <4>2
    <3>2. CASE NeedsBlack(NewConfig(c))
      BY <2>2, <2>6, <3>1, <3>2, AllBlackType DEF Configure, Committing
    <3>3. CASE ~NeedsBlack(NewConfig(c))
      BY <2>1, <2>6, <3>1, <3>3 DEF Configure, FailsOnlyOnError
    <3>4. QED
      BY <3>2, <3>3
  <2>7. QED
    BY <2>1, <2>2, <2>3, <2>4, <2>5, <2>6, Steps
<1>3. Inv => FailsOnlyOnError
  OBVIOUS
<1>4. QED
  BY <1>1, <1>2, <1>3, TypeCorrect, PTL DEF Spec

----
(* The sweep.  The universes received are those of the frame, and all      *)
(* words of each were staged.                                              *)
SweptBy(asm, words) ==
    /\ asm.received \subseteq 0 .. Universes(config) - 1
    /\ asm.count = Cardinality(asm.received)
    /\ \A u \in asm.received : Covered(config, u, ExpectedSlots(config, u)) \subseteq words

LEMMA UniversesType == ASSUME NEW c PROVE Universes(c) \in Nat
<1>1. /\ TotalSlots(c) + SlotsPerUniverse - 1 \in Nat /\ SlotsPerUniverse \in Nat \ {0}
  BY LitType, SlotsAssumption
<1>2. QED
  BY <1>1, Quotient DEF Universes

(* The universe of a lit word is one of the frame and covers it.           *)
LEMMA CoveredByUniverse ==
  ASSUME NEW c, NEW w \in Lit(c)
  PROVE  \E u \in 0 .. Universes(c) - 1 : w \in Covered(c, u, ExpectedSlots(c, u))
<1> DEFINE k == SlotsPerUniverse \div 3
           i == LinearIndex(c, w)
           t == TotalPixels(c)
           u == i \div k
<1>1. k \in Nat \ {0} /\ SlotsPerUniverse = 3 * k
  BY SlotsAssumption
<1>2. i \in Nat /\ t \in Nat /\ i < t
  BY LinearIndexType, LitType
<1>3. u \in Nat /\ u * k <= i /\ i < u * k + k
  BY <1>1, <1>2, Quotient
<1> HIDE DEF k, i, t, u
<1> DEFINE m == u * k
<1>4. m \in Nat /\ FirstSlot(u) = 3 * m
  <2>1. m \in Nat
    BY <1>1, <1>3, Product
  <2>2. u * (3 * k) = 3 * (u * k)
    BY <1>1, <1>3
  <2>3. QED
    BY <2>1, <2>2, <1>1 DEF FirstSlot
<1>5. TotalSlots(c) = 3 * t
  BY DEF TotalSlots, t
<1>6. u < Universes(c)
  <2>1. (u + 1) * SlotsPerUniverse = 3 * m + 3 * k
    BY <1>1, <1>3, <1>4
  <2>2. /\ TotalSlots(c) + SlotsPerUniverse - 1 \in Nat /\ u + 1 \in Nat
        /\ (u + 1) * SlotsPerUniverse <= TotalSlots(c) + SlotsPerUniverse - 1
    BY <2>1, <1>1, <1>2, <1>3, <1>4, <1>5
  <2>3. u + 1 <= Universes(c)
    BY <2>2, QuotientBound, SlotsAssumption DEF Universes
  <2>4. QED
    BY <2>3, <1>3, UniversesType
<1>7. i - FirstPixel(u) \in 0 .. (ExpectedSlots(c, u) \div 3) - 1
  <2>1. FirstPixel(u) = m
    BY <1>4 DEF FirstPixel
  <2>2. ExpectedSlots(c, u) = IF t - m < k THEN 3 * (t - m) ELSE 3 * k
    BY <1>1, <1>2, <1>4, <1>5 DEF ExpectedSlots, Clamp
  <2>3. ExpectedSlots(c, u) \div 3 = IF t - m < k THEN t - m ELSE k
    BY <2>2, <1>1, <1>2, <1>4
  <2>4. QED
    BY <2>1, <2>3, <1>1, <1>2, <1>3, <1>4
<1>8. w \in Covered(c, u, ExpectedSlots(c, u))
  BY <1>7 DEF Covered, i
<1>9. QED
  BY <1>3, <1>6, <1>8, UniversesType

LEMMA CompleteCovers ==
  ASSUME NEW asm, NEW words, SweptBy(asm, words), Complete(asm)
  PROVE  Lit(config) \subseteq words
<1>1. /\ Universes(config) \in Nat
      /\ IsFiniteSet(0 .. Universes(config) - 1)
      /\ Cardinality(0 .. Universes(config) - 1) = Universes(config)
  BY UniversesType, FS_Interval
<1>2. /\ asm.received \in SUBSET (0 .. Universes(config) - 1)
      /\ Cardinality(asm.received) = Universes(config)
  BY DEF SweptBy, Complete
<1> DEFINE all == 0 .. Universes(config) - 1
           received == asm.received
<1>3. received = all
  <2> HIDE DEF all, received
  <2>1. IsFiniteSet(all) /\ received \in SUBSET all /\ Cardinality(all) = Cardinality(received)
    BY <1>1, <1>2 DEF all, received
  <2>2. QED
    BY <2>1, FS_Subset
<1>4. QED
  BY <1>3, CoveredByUniverse DEF SweptBy

LEMMA MarkKeepsSwept ==
  ASSUME NEW asm, asm \in [received : SUBSET Word, count : Nat, pending : BOOLEAN],
         NEW words, SweptBy(asm, words), NEW u \in Word, NEW slots, Accepted(config, u, slots)
  PROVE  SweptBy(MarkUniverse(asm, u), words \cup Covered(config, u, slots))
<1> DEFINE new == MarkUniverse(asm, u)
<1>1. new.received = asm.received \cup {u}
      /\ new.count = IF u \in asm.received THEN asm.count ELSE asm.count + 1
  BY DEF MarkUniverse
<1>2. u \in 0 .. Universes(config) - 1 /\ slots = ExpectedSlots(config, u)
  BY WordType, UniversesType DEF Accepted
<1> DEFINE received == asm.received
<1>3. IsFiniteSet(received)
  <2> HIDE DEF received
  <2>1. received \in SUBSET Word /\ IsFiniteSet(Word)
    BY WordType DEF received
  <2>2. QED
    BY <2>1, FS_Subset
<1>4. new.count = Cardinality(new.received)
  <2>1. /\ new.received = received \cup {u}
        /\ new.count = IF u \in received THEN Cardinality(received) ELSE Cardinality(received) + 1
    BY <1>1 DEF SweptBy
  <2> HIDE DEF received, new
  <2>2. QED
    BY <2>1, <1>3, FS_AddElement
<1> HIDE DEF new
<1>5. QED
  BY <1>1, <1>2, <1>4 DEF SweptBy, new

LEMMA NothingSwept == ASSUME NEW words PROVE SweptBy(EmptyAssembly, words)
BY FS_EmptySet DEF SweptBy, EmptyAssembly

(* What a data packet makes of the sweep, before a commit ends it.         *)
LEMMA DataPacketSwept ==
  ASSUME TypeOK, SweptBy(assembly, fresh),
         NEW u \in Word, NEW slots \in 0 .. SlotsPerUniverse, NEW s \in Sender,
         NEW sync \in BOOLEAN, NEW takeOver \in BOOLEAN, DataPacket(u, slots, s, sync, takeOver)
  PROVE  LET restart == takeOver \/ sync # synced
             asm == MarkUniverse(Kept(restart), u)
         IN  /\ SweptBy(asm, FreshKept(restart) \cup Covered(config, u, slots))
             /\ asm \in [received : SUBSET Word, count : Nat, pending : BOOLEAN]
<1> DEFINE restart == takeOver \/ sync # synced
<1>1. SweptBy(Kept(restart), FreshKept(restart))
  BY NothingSwept DEF Kept, FreshKept
<1>2. Kept(restart) \in [received : SUBSET Word, count : Nat, pending : BOOLEAN]
  BY DEF Kept, EmptyAssembly, TypeOK
<1>3. SweptBy(MarkUniverse(Kept(restart), u), FreshKept(restart) \cup Covered(config, u, slots))
  BY <1>1, <1>2, MarkKeepsSwept DEF DataPacket
<1>4. restart \in BOOLEAN
  OBVIOUS
<1>5. QED
  BY <1>3, <1>4, MarkType

(* While the configuration stays, what counts as received was staged.      *)
THEOREM SweptHolds ==
  ASSUME ~Reconfigures
  PROVE  Spec => []SweptBy(assembly, fresh)
<1> DEFINE Inv == SweptBy(assembly, fresh)
<1>1. Init => Inv
  BY NothingSwept DEF Init
<1>2. TypeOK /\ Inv /\ [Next]_vars => Inv'
  <2>1. SUFFICES ASSUME TypeOK, Inv, [Next]_vars PROVE Inv'
    OBVIOUS
  <2>2. UNCHANGED config
    BY <2>1, Steps DEF Configure
  <2>3. SUFFICES SweptBy(assembly', fresh')
    BY <2>2 DEF SweptBy, Universes, Covered, ExpectedSlots
  <2>4. ASSUME NEW u \in Word, NEW slots \in 0 .. SlotsPerUniverse, NEW s \in Sender,
               NEW sync \in BOOLEAN, NEW takeOver \in BOOLEAN,
               DataPacket(u, slots, s, sync, takeOver)
        PROVE  SweptBy(assembly', fresh')
    <3> DEFINE restart == takeOver \/ sync # synced
               asm == MarkUniverse(Kept(restart), u)
               staged == FreshKept(restart) \cup Covered(config, u, slots)
    <3>1. SweptBy(asm, staged) /\ asm \in [received : SUBSET Word, count : Nat, pending : BOOLEAN]
      <4>1. TypeOK /\ SweptBy(assembly, fresh) /\ DataPacket(u, slots, s, sync, takeOver)
        BY <2>1, <2>4
      <4>2. QED
        BY <4>1, DataPacketSwept
    <3>2. \/ assembly' = EmptyAssembly
          \/ assembly' = asm /\ fresh' = staged
          \/ assembly' = [asm EXCEPT !.pending = @ \/ Complete(asm)] /\ fresh' = staged
      BY <2>4 DEF DataPacket, CommitCurrent
    <3>3. [asm EXCEPT !.pending = @ \/ Complete(asm)].received = asm.received
          /\ [asm EXCEPT !.pending = @ \/ Complete(asm)].count = asm.count
      BY <3>1
    <3> HIDE DEF asm, staged
    <3>4. QED
      BY <3>1, <3>2, <3>3, NothingSwept DEF SweptBy
  <2>5. CASE RejectedTakeOver
    BY <2>5, NothingSwept DEF RejectedTakeOver
  <2>6. CASE SyncPacket
    BY <2>1, <2>6, NothingSwept DEF SyncPacket, CommitCurrent
  <2>7. CASE BlackOut
    BY <2>7, NothingSwept DEF BlackOut
  <2>8. CASE ConsumerError \/ UNCHANGED vars
    BY <2>1, <2>8 DEF ConsumerError, vars, receiver
  <2>9. QED
    BY <2>1, <2>4, <2>5, <2>6, <2>7, <2>8 DEF Next, Configure
<1>3. QED
  BY <1>1, <1>2, TypeCorrect, PTL DEF Spec

(* While the configuration stays, a complete sweep has overwritten every   *)
(* lit word (see SweepCovers).                                             *)
THEOREM SweepCoversHolds ==
  ASSUME ~Reconfigures
  PROVE  Spec => []SweepCovers
<1>1. SweptBy(assembly, fresh) => SweepCovers
  BY CompleteCovers DEF SweepCovers
<1>2. QED
  BY <1>1, SweptHolds, PTL

----
(* Lit pixels of an output, and lit words below a word.                    *)
Strand(c, o) == IF o < c.active THEN c.lengths[o] ELSE 0
LitBelow(c, y) == {v \in Lit(c) : v < y}
Below(c, y) == Cardinality(LitBelow(c, y))

(* A word within the stretch of an output is that output's.                *)
LEMMA OutputOfStretch ==
  ASSUME NEW o \in Output, NEW x \in Nat, x < PixelsPerOutput
  PROVE  /\ Base(o) \in Nat /\ Base(o + 1) = Base(o) + PixelsPerOutput
         /\ Base(o) + x \in Word /\ OutputOf(Base(o) + x) = o
<1>1. o \in Nat /\ o + 1 \in Nat /\ OutputCount \in Nat /\ PixelsPerOutput \in Nat \ {0}
      /\ o < OutputCount
  BY SizeAssumption DEF Output
<1>2. Base(o) \in Nat /\ Base(o + 1) = Base(o) + PixelsPerOutput
  <2>1. o * PixelsPerOutput \in Nat /\ (o + 1) * PixelsPerOutput = o * PixelsPerOutput + PixelsPerOutput
    BY <1>1
  <2>2. QED
    BY <2>1 DEF Base
<1>3. Base(o) + PixelsPerOutput <= OutputCount * PixelsPerOutput
      /\ OutputCount * PixelsPerOutput \in Nat
  BY <1>1, Product DEF Base
<1>4. Base(o) + x \in Word
  BY <1>1, <1>2, <1>3 DEF Word
<1>5. o <= (Base(o) + x) \div PixelsPerOutput /\ (Base(o) + x) \div PixelsPerOutput < o + 1
  <2>1. Base(o) + x \in Nat /\ o * PixelsPerOutput <= Base(o) + x
    BY <1>2 DEF Base
  <2>2. Base(o) + x < (o + 1) * PixelsPerOutput
    BY <1>1, <1>2 DEF Base
  <2>3. QED
    BY <2>1, <2>2, <1>1, QuotientBound
<1>6. (Base(o) + x) \div PixelsPerOutput \in Nat
  BY <1>1, <1>2, Quotient
<1>7. QED
  BY <1>1, <1>2, <1>4, <1>5, <1>6 DEF OutputOf

(* Within the stretch of an output the lit words are its first ones.       *)
LEMMA LitInStretch ==
  ASSUME NEW c \in Config, NEW o \in Output, NEW x \in 0 .. PixelsPerOutput
  PROVE  Below(c, Base(o) + x) = Below(c, Base(o)) + Clamp(x, Strand(c, o))
<1> DEFINE b == Base(o)
           m == Clamp(x, Strand(c, o))
           A == LitBelow(c, b)
           S == b .. (b + m - 1)
<1>1. o \in Nat /\ PixelsPerOutput \in Nat \ {0} /\ x \in Nat /\ x <= PixelsPerOutput
  BY SizeAssumption DEF Output
<1>2. b \in Nat
  BY <1>1, OutputOfStretch, 0 < PixelsPerOutput
<1>3. Strand(c, o) \in Nat
  BY <1>1 DEF Strand, Config
<1>4. m \in Nat /\ m <= x /\ m <= Strand(c, o) /\ (m = x \/ m = Strand(c, o))
  BY <1>1, <1>3 DEF Clamp
<1>5. \A i \in Nat : i < x => b + i \in Word /\ OutputOf(b + i) = o
  BY <1>1, OutputOfStretch
<1>6. \A i \in Nat : i < x => (b + i \in Lit(c) <=> i < Strand(c, o))
  <2>1. SUFFICES ASSUME NEW i \in Nat, i < x
                 PROVE  b + i \in Lit(c) <=> i < Strand(c, o)
    OBVIOUS
  <2>2. b + i \in Word /\ OutputOf(b + i) = o /\ (b + i) - b = i
    BY <2>1, <1>5, <1>2
  <2>3. b + i \in Lit(c) <=> (o < c.active /\ i < c.lengths[o])
    BY <2>2 DEF Lit
  <2>4. QED
    BY <2>1, <2>3, <1>1 DEF Strand
<1>7. Lit(c) \subseteq Nat
  BY LitType, WordType
<1> HIDE DEF b, m
<1>8. LitBelow(c, b + x) = A \cup S
  <2>1. ASSUME NEW v \in LitBelow(c, b + x) PROVE v \in A \cup S
    <3>1. v \in Lit(c) /\ v \in Nat /\ v < b + x
      BY <1>7 DEF LitBelow
    <3>2. CASE v < b
      BY <3>1, <3>2 DEF LitBelow
    <3>3. CASE ~ (v < b)
      <4> DEFINE i == v - b
      <4>1. i \in Nat /\ i < x /\ v = b + i
        BY <3>1, <3>3, <1>1, <1>2
      <4>2. i < Strand(c, o)
        BY <4>1, <3>1, <1>6
      <4>3. i < m
        BY <4>1, <4>2, <1>4
      <4>4. QED
        BY <4>1, <4>3, <1>2, <1>4
    <3>4. QED
      BY <3>2, <3>3
  <2>2. ASSUME NEW v \in S PROVE v \in LitBelow(c, b + x)
    <3> DEFINE i == v - b
    <3>1. i \in Nat /\ i < m /\ v = b + i
      BY <1>2, <1>4
    <3>2. i < x /\ i < Strand(c, o)
      BY <3>1, <1>1, <1>3, <1>4
    <3>3. v \in Lit(c) /\ v < b + x
      BY <3>1, <3>2, <1>1, <1>2, <1>6
    <3>4. QED
      BY <3>3 DEF LitBelow
  <2>3. A \subseteq LitBelow(c, b + x)
    BY <1>1, <1>2, <1>7 DEF LitBelow
  <2>4. QED
    BY <2>1, <2>2, <2>3
<1>9. A \cap S = {}
  BY <1>2, <1>4, <1>7 DEF LitBelow
<1>10. IsFiniteSet(A) /\ IsFiniteSet(S) /\ Cardinality(S) = m /\ Cardinality(A) \in Nat
  <2>1. A \subseteq Lit(c) /\ IsFiniteSet(Lit(c))
    BY LitType DEF LitBelow
  <2>2. IsFiniteSet(A) /\ Cardinality(A) \in Nat
    BY <2>1, FS_Subset, FS_CardinalityType
  <2>3. b \in Int /\ b + m - 1 \in Int
    BY <1>2, <1>4
  <2> DEFINE e == b + m - 1
  <2>4. S = b .. e /\ e = b + m - 1 /\ e \in Int
    BY <2>3
  <2> HIDE DEF e, S
  <2>5. IsFiniteSet(S) /\ Cardinality(S) = IF b > e THEN 0 ELSE e - b + 1
    BY <2>3, <2>4, FS_Interval
  <2>6. QED
    BY <2>2, <2>4, <2>5, <1>2, <1>4
<1>11. Cardinality(A \cup S) = Cardinality(A) + Cardinality(S)
  <2> HIDE DEF A, S
  <2>1. Cardinality(A \cup S) = Cardinality(A) + Cardinality(S) - Cardinality(A \cap S)
    BY <1>10, FS_Union
  <2>2. Cardinality(A \cap S) = 0
    BY <1>9, FS_EmptySet
  <2>3. Cardinality(S) \in Nat
    BY <1>10, FS_CardinalityType
  <2>4. QED
    BY <2>1, <2>2, <2>3, <1>10
<1>12. QED
  BY <1>8, <1>10, <1>11 DEF Below, b, m

LEMMA BelowOutputs ==
  ASSUME NEW c \in Config
  PROVE  /\ Below(c, Base(0)) = 0
         /\ \A o \in Output : /\ Below(c, Base(o)) \in Nat
                              /\ Below(c, Base(o + 1)) = Below(c, Base(o)) + Strand(c, o)
<1>1. Base(0) = 0
  BY SizeAssumption DEF Base
<1>2. LitBelow(c, 0) = {}
  <2>1. Lit(c) \subseteq Nat
    BY LitType, WordType
  <2>2. QED
    BY <2>1 DEF LitBelow
<1>3. ASSUME NEW o \in Output
      PROVE  /\ Below(c, Base(o)) \in Nat
             /\ Below(c, Base(o + 1)) = Below(c, Base(o)) + Strand(c, o)
  <2>1. LitBelow(c, Base(o)) \subseteq Lit(c) /\ IsFiniteSet(Lit(c))
    BY LitType DEF LitBelow
  <2>2. Below(c, Base(o)) \in Nat
    BY <2>1, FS_Subset, FS_CardinalityType DEF Below
  <2>3. PixelsPerOutput \in Nat \ {0} /\ 0 \in Nat /\ PixelsPerOutput \in 0 .. PixelsPerOutput
    BY SizeAssumption
  <2>4. Base(o + 1) = Base(o) + PixelsPerOutput
    BY <2>3, OutputOfStretch, 0 < PixelsPerOutput
  <2>5. Strand(c, o) \in 0 .. PixelsPerOutput
    <3>1. c.lengths[o] \in 0 .. PixelsPerOutput
      BY DEF Config
    <3>2. 0 \in 0 .. PixelsPerOutput
      BY <2>3
    <3>3. QED
      BY <3>1, <3>2 DEF Strand
  <2>6. Clamp(PixelsPerOutput, Strand(c, o)) = Strand(c, o)
    BY <2>3, <2>5 DEF Clamp
  <2>7. QED
    BY <2>2, <2>3, <2>4, <2>6, LitInStretch
<1>4. QED
  BY <1>1, <1>2, <1>3, FS_EmptySet DEF Below

(* A set of natural numbers that is not empty has a least element.         *)
LEMMA Least == ASSUME NEW T \in SUBSET Nat, T # {} PROVE \E x \in T : \A y \in T : x <= y
<1>1. IsWellFoundedOn(OpToRel(<, Nat), Nat)
  BY NatLessThanWellFounded
<1>2. PICK x \in T : \A y \in T : <<y, x>> \notin OpToRel(<, Nat)
  BY <1>1, WFMin
<1>3. ASSUME NEW y \in T PROVE x <= y
  <2>1. x \in Nat /\ y \in Nat
    OBVIOUS
  <2>2. ~ (y < x)
    BY <1>2, <2>1 DEF OpToRel
  <2>3. QED
    BY <2>1, <2>2
<1>4. QED
  BY <1>3

(* The sum over the outputs before o counts the lit words before its first *)
(* word: both satisfy the equation of the sum, and it has one solution.    *)
LEMMA PixelsBeforeIs ==
  ASSUME NEW c \in Config, NEW o \in 0 .. OutputCount
  PROVE  PixelsBefore(c, o) = Below(c, Base(o))
<1> DEFINE Sums(f) == f = [n \in 0 .. OutputCount |->
                              IF n = 0 THEN 0
                              ELSE f[n - 1] + (IF n - 1 < c.active THEN c.lengths[n - 1] ELSE 0)]
           g == [n \in 0 .. OutputCount |-> Below(c, Base(n))]
           h == CHOOSE f : Sums(f)
<1>1. OutputCount \in Nat
  BY SizeAssumption
<1>2. ASSUME NEW n \in 0 .. OutputCount
      PROVE  g[n] = IF n = 0 THEN 0
                    ELSE g[n - 1] + (IF n - 1 < c.active THEN c.lengths[n - 1] ELSE 0)
  <2>1. CASE n = 0
    BY <2>1, BelowOutputs
  <2>2. CASE n # 0
    <3>1. n - 1 \in Output /\ n - 1 \in 0 .. OutputCount /\ (n - 1) + 1 = n
      BY <2>2, <1>1 DEF Output
    <3>2. Below(c, Base(n)) = Below(c, Base(n - 1)) + Strand(c, n - 1)
      BY <3>1, BelowOutputs
    <3>3. QED
      BY <2>2, <3>1, <3>2 DEF Strand
  <2>3. QED
    BY <2>1, <2>2
<1>3. Sums(g)
  BY <1>2
<1>4. Sums(h)
  <2> HIDE DEF Sums, g
  <2>1. \E f : Sums(f)
    BY <1>3
  <2>2. QED
    BY <2>1
<1>5. PixelsBefore(c, o) = h[o]
  BY DEF PixelsBefore
<1> DEFINE T == {n \in 0 .. OutputCount : h[n] # g[n]}
<1>6. T = {}
  <2>1. SUFFICES ASSUME T # {} PROVE FALSE
    OBVIOUS
  <2>2. PICK n \in T : \A k \in T : n <= k
    <3>1. T \in SUBSET Nat
      BY <1>1
    <3> HIDE DEF T
    <3>2. QED
      BY <2>1, <3>1, Least
  <2>3. n \in 0 .. OutputCount /\ h[n] # g[n]
    OBVIOUS
  <2>4. h[n] = IF n = 0 THEN 0
               ELSE h[n - 1] + (IF n - 1 < c.active THEN c.lengths[n - 1] ELSE 0)
    <3> HIDE DEF h
    <3>1. QED
      BY <1>4, <2>3
  <2> HIDE DEF h, g
  <2>5. n # 0
    BY <2>3, <2>4, <1>2
  <2>6. n - 1 \in 0 .. OutputCount /\ n - 1 \notin T
    BY <2>2, <2>3, <2>5, <1>1
  <2>7. h[n - 1] = g[n - 1]
    BY <2>6
  <2>8. QED
    BY <2>3, <2>4, <2>5, <2>7, <1>2
<1>7. QED
  BY <1>5, <1>6

(* The place of a lit word in the stream.                                  *)
LEMMA PlaceInStream ==
  ASSUME NEW c \in Config, NEW w \in Lit(c)
  PROVE  LinearIndex(c, w) = PixelsBefore(c, OutputOf(w)) + w - Base(OutputOf(w))
<1> DEFINE o == OutputOf(w)
           x == w - Base(o)
<1>1. w \in Nat /\ o \in Output /\ w \in Word
  BY LitType, WordType
<1>2. Base(o) \in Nat /\ x \in Nat /\ x < PixelsPerOutput /\ w = Base(o) + x
  <2>1. w \div PixelsPerOutput \in Nat /\ Base(o) <= w /\ w < Base(o) + PixelsPerOutput
    BY <1>1, SizeAssumption, Quotient DEF OutputOf, Base
  <2>2. Base(o) \in Nat
    BY <2>1, SizeAssumption, Product DEF OutputOf, Base
  <2>3. QED
    BY <2>1, <2>2, <1>1, SizeAssumption
<1>3. o < c.active /\ x < c.lengths[o]
  BY DEF Lit
<1>4. PixelsPerOutput \in Nat /\ c.lengths[o] \in 0 .. PixelsPerOutput
  BY <1>1, SizeAssumption DEF Config
<1> HIDE DEF o, x
<1>5. Clamp(x, Strand(c, o)) = x
  BY <1>2, <1>3, <1>4 DEF Clamp, Strand
<1>6. LinearIndex(c, w) = Below(c, Base(o)) + x
  <2>1. x \in 0 .. PixelsPerOutput
    BY <1>2, <1>4
  <2>2. Below(c, Base(o) + x) = Below(c, Base(o)) + x
    BY <1>1, <1>5, <2>1, LitInStretch
  <2>3. LinearIndex(c, w) = Below(c, w)
    BY DEF LinearIndex, Below, LitBelow
  <2>4. QED
    BY <1>2, <2>2, <2>3
<1>7. o \in 0 .. OutputCount
  BY <1>1, SizeAssumption DEF Output
<1>8. Below(c, Base(o)) = PixelsBefore(c, o) /\ Below(c, Base(o)) \in Nat
  BY <1>1, <1>7, PixelsBeforeIs, BelowOutputs
<1>9. LinearIndex(c, w) = PixelsBefore(c, o) + w - Base(o)
  BY <1>2, <1>6, <1>8
<1>10. QED
  BY <1>9 DEF o

----
(* A word holds the slots whose place in the stream is its own.            *)
InPlace(word, w) == /\ word \in Pixel
                    /\ word.universe * SlotsPerUniverse + 3 * word.index
                         = 3 * LinearIndex(config, w)

AllInPlace(words, W) == \A w \in W : InPlace(words[w], w)

(* What is fresh is in its place, a sweep that waits for its sync packet   *)
(* has all words, and the frame in the active bank came from one or from a *)
(* blackout.                                                               *)
FreshInPlace == AllInPlace(staging[writeBank], fresh)
PendingWhole == assembly.pending => Lit(config) \subseteq fresh
ActiveWhole == \/ \A w \in Lit(config) : memory[active][w] = Black
               \/ AllInPlace(memory[active], Lit(config))
PlaceInv == shown = config /\ FreshInPlace /\ PendingWhole /\ ActiveWhole

(* Place in the universe and number of the universe add up: no pixel       *)
(* straddles two universes.                                                *)
LEMMA StagedInPlace ==
  ASSUME TypeOK, NEW u \in Word, NEW slots \in 0 .. SlotsPerUniverse, NEW s \in Sender,
         NEW W \in SUBSET Word, AllInPlace(staging[writeBank], W)
  PROVE  AllInPlace(Staged(u, slots, s), W \cup Covered(config, u, slots))
<1>1. ASSUME NEW w \in Covered(config, u, slots)
      PROVE  InPlace(Staged(u, slots, s)[w], w)
  <2> DEFINE k == SlotsPerUniverse \div 3
             i == LinearIndex(config, w)
  <2>1. k \in Nat \ {0} /\ SlotsPerUniverse = 3 * k
    BY SlotsAssumption
  <2>2. w \in Word /\ w \in Lit(config) /\ i - FirstPixel(u) \in 0 .. (slots \div 3) - 1
    BY <1>1, LitType DEF Covered
  <2>3. i \in Nat /\ u \in Nat /\ slots \div 3 \in Nat
    BY <2>2, LinearIndexType, WordType, SlotsAssumption
  <2>4. Staged(u, slots, s)[w] = [sender |-> s, universe |-> u, index |-> i - FirstPixel(u)]
    BY <1>1, <2>2 DEF Staged
  <2>5. i - FirstPixel(u) \in Nat
    BY <2>2, <2>3
  <2> HIDE DEF k, i
  <2>6. u * k \in Nat /\ u * SlotsPerUniverse = 3 * (u * k)
    <3>1. u * k \in Nat
      BY <2>1, <2>3, Product
    <3>2. u * (3 * k) = 3 * (u * k)
      BY <2>1, <2>3
    <3>3. QED
      BY <3>1, <3>2, <2>1
  <2>7. FirstPixel(u) = u * k
    BY <2>6 DEF FirstPixel, FirstSlot
  <2>8. u * SlotsPerUniverse + 3 * (i - FirstPixel(u)) = 3 * i
    BY <2>3, <2>6, <2>7
  <2>9. QED
    BY <2>3, <2>4, <2>5, <2>8 DEF InPlace, Pixel, i
<1>2. ASSUME NEW w \in W, w \notin Covered(config, u, slots)
      PROVE  InPlace(Staged(u, slots, s)[w], w)
  BY <1>2 DEF AllInPlace, Staged
<1>3. QED
  BY <1>1, <1>2 DEF AllInPlace

(* A commit leaves the active bank as it was or makes it the frame.        *)
LEMMA CommitShows ==
  ASSUME TypeOK, NEW words, NEW r \in {"ok", "busy", "failed"}, Commit(words, r)
  PROVE  /\ staging'[writeBank] = words
         /\ r = "failed" => writeBank' = writeBank
         /\ \/ memory'[active'] = memory[active] /\ shown' = shown
            \/ memory'[active'] = Written(words) /\ shown' = config
<1>1. writeBank \in Bank /\ active \in Bank /\ 1 - active \in Bank /\ 1 - active # active
  BY DEF TypeOK, Bank
<1>2. staging'[writeBank] = words /\ (r = "failed" => writeBank' = writeBank)
  BY <1>1 DEF Commit, Swap, TypeOK
<1>3. CASE UNCHANGED <<pl, shown>>
  BY <1>2, <1>3 DEF pl
<1>4. CASE /\ memory' = [memory EXCEPT ![1 - active] = Written(words)]
           /\ UNCHANGED <<active, shown>>
  BY <1>1, <1>2, <1>4 DEF TypeOK
<1>5. CASE /\ memory' = [memory EXCEPT ![1 - active] = Written(words)]
           /\ active' = 1 - active /\ shown' = config
  BY <1>1, <1>2, <1>5 DEF TypeOK
<1>6. QED
  BY <1>3, <1>4, <1>5 DEF Commit

(* A commit of a whole or a black frame keeps the active bank whole.       *)
LEMMA CommitWhole ==
  ASSUME TypeOK, shown = config, ActiveWhole, UNCHANGED config,
         NEW words, AllInPlace(words, Lit(config)) \/ words = AllBlack,
         NEW r \in {"ok", "busy", "failed"}, Commit(words, r)
  PROVE  shown' = config' /\ ActiveWhole'
<1>1. shown' = config'
  BY CommitShows
<1>3. Lit(config') = Lit(config) /\ Lit(config) \subseteq Word
  BY LitType
<1>4. CASE memory'[active'] = memory[active]
  BY <1>1, <1>3, <1>4 DEF ActiveWhole, AllInPlace, InPlace
<1>5. CASE memory'[active'] = Written(words)
  <2>1. \A w \in Lit(config) : memory'[active'][w] = words[w]
    BY <1>3, <1>5 DEF Written
  <2>2. CASE AllInPlace(words, Lit(config))
    BY <1>1, <1>3, <2>1, <2>2 DEF ActiveWhole, AllInPlace, InPlace
  <2>3. CASE words = AllBlack
    BY <1>1, <1>3, <2>1, <2>3 DEF ActiveWhole, AllBlack
  <2>4. QED
    BY <2>2, <2>3
<1>6. QED
  BY <1>1, <1>4, <1>5, CommitShows

(* The end of a sweep, or the sweep kept for another try.                  *)
LEMMA CommitKeepsPlaces ==
  ASSUME TypeOK, PlaceInv, UNCHANGED config,
         NEW words, NEW asm, NEW staged,
         AllInPlace(words, staged), AllInPlace(words, Lit(config)),
         asm.pending => Lit(config) \subseteq staged,
         CommitCurrent(words, asm, staged)
  PROVE  PlaceInv'
<1>1. PICK r \in {"ok", "busy", "failed"} :
         /\ Commit(words, r)
         /\ assembly' = IF r = "failed" THEN asm ELSE EmptyAssembly
         /\ fresh' = IF r = "failed" THEN staged ELSE {}
  BY DEF CommitCurrent
<1>2. ActiveWhole' /\ shown' = config'
  BY <1>1, CommitWhole DEF PlaceInv
<1>3. CASE r = "failed"
  <2>1. staging'[writeBank'] = words
    BY <1>1, <1>3, CommitShows
  <2>2. assembly' = asm /\ fresh' = staged
    BY <1>1, <1>3
  <2>3. QED
    BY <1>2, <2>1, <2>2 DEF PlaceInv, FreshInPlace, PendingWhole, AllInPlace, InPlace
<1>4. CASE r # "failed"
  <2>1. fresh' = {} /\ assembly' = EmptyAssembly
    BY <1>1, <1>4
  <2>2. QED
    BY <1>2, <2>1 DEF PlaceInv, FreshInPlace, PendingWhole, AllInPlace, EmptyAssembly
<1>5. QED
  BY <1>3, <1>4

(* While the configuration stays, every frame on the strands is black or   *)
(* has each pixel in its place (see PixelsInPlace).                        *)
THEOREM PixelsInPlaceHolds ==
  ASSUME ~Reconfigures
  PROVE  Spec => []PixelsInPlace
<1> DEFINE Swept == SweptBy(assembly, fresh)
<1>1. Init => PlaceInv
  <2>1. SUFFICES ASSUME Init PROVE PlaceInv
    OBVIOUS
  <2>2. \A w \in Lit(config) : memory[active][w] = Black
    <3>1. PICK left \in {Black, Junk} :
             memory = [b \in Bank |-> IF b = 1 THEN [w \in Word |-> Junk]
                                 ELSE [w \in Word |-> IF w \in Lit(config) THEN Black ELSE left]]
      BY <2>1 DEF Init
    <3>2. active = 0 /\ Lit(config) \subseteq Word
      BY <2>1, LitType DEF Init
    <3>3. QED
      BY <3>1, <3>2 DEF Bank
  <2>3. QED
    BY <2>1, <2>2 DEF Init, PlaceInv, FreshInPlace, AllInPlace, PendingWhole, ActiveWhole,
                      EmptyAssembly
<1>2. TypeOK /\ Swept /\ PlaceInv /\ [Next]_vars => PlaceInv'
  <2>1. SUFFICES ASSUME TypeOK, Swept, PlaceInv, [Next]_vars PROVE PlaceInv'
    OBVIOUS
  <2>2. UNCHANGED config
    BY <2>1, Steps DEF Configure
  <2>3. ASSUME NEW u \in Word, NEW slots \in 0 .. SlotsPerUniverse, NEW s \in Sender,
               NEW sync \in BOOLEAN, NEW takeOver \in BOOLEAN,
               DataPacket(u, slots, s, sync, takeOver)
        PROVE  PlaceInv'
    <3> DEFINE restart == takeOver \/ sync # synced
               words == Staged(u, slots, s)
               asm == MarkUniverse(Kept(restart), u)
               staged == FreshKept(restart) \cup Covered(config, u, slots)
    <3>1. SweptBy(asm, staged) /\ asm \in [received : SUBSET Word, count : Nat, pending : BOOLEAN]
      BY <2>1, <2>3, DataPacketSwept
    <3>2. FreshKept(restart) \in SUBSET Word /\ AllInPlace(staging[writeBank], FreshKept(restart))
      BY <2>1 DEF FreshKept, TypeOK, PlaceInv, FreshInPlace, AllInPlace
    <3>3. AllInPlace(words, staged)
      BY <2>1, <3>2, StagedInPlace
    <3>4. Complete(asm) => Lit(config) \subseteq staged
      BY <3>1, CompleteCovers
    <3>5. asm.pending => Lit(config) \subseteq staged
      BY <2>1 DEF MarkUniverse, Kept, EmptyAssembly, FreshKept, PlaceInv, PendingWhole, TypeOK
    <3>6. [asm EXCEPT !.pending = @ \/ Complete(asm)].pending = (asm.pending \/ Complete(asm))
      BY <3>1
    <3>7. DataPacket(u, slots, s, sync, takeOver) =>
             \/ Complete(asm) /\ CommitCurrent(words, asm, staged)
             \/ /\ staging' = [staging EXCEPT ![writeBank] = words]
                /\ assembly' = [asm EXCEPT !.pending = @ \/ Complete(asm)]
                /\ fresh' = staged
                /\ UNCHANGED <<writeBank, pl, error, result, shown>>
      BY DEF DataPacket
    <3> HIDE DEF asm, staged, words
    <3>8. CASE Complete(asm) /\ CommitCurrent(words, asm, staged)
      <4>1. AllInPlace(words, Lit(config))
        BY <3>3, <3>4, <3>8 DEF AllInPlace
      <4>2. QED
        BY <2>1, <2>2, <3>3, <3>5, <3>8, <4>1, CommitKeepsPlaces
    <3>9. CASE /\ staging' = [staging EXCEPT ![writeBank] = words]
               /\ assembly' = [asm EXCEPT !.pending = @ \/ Complete(asm)]
               /\ fresh' = staged
               /\ UNCHANGED <<writeBank, pl, error, result, shown>>
      <4>1. staging'[writeBank'] = words
        BY <2>1, <3>9 DEF TypeOK
      <4>2. FreshInPlace'
        BY <2>2, <3>3, <3>9, <4>1 DEF FreshInPlace, AllInPlace, InPlace
      <4>3. PendingWhole'
        BY <2>2, <3>4, <3>5, <3>6, <3>9 DEF PendingWhole
      <4>4. ActiveWhole' /\ shown' = config'
        BY <2>1, <2>2, <3>9 DEF PlaceInv, ActiveWhole, AllInPlace, InPlace, pl
      <4>5. QED
        BY <4>2, <4>3, <4>4 DEF PlaceInv
    <3>10. QED
      BY <2>3, <3>7, <3>8, <3>9
  <2>4. CASE RejectedTakeOver
    BY <2>1, <2>2, <2>4 DEF RejectedTakeOver, EmptyAssembly, PlaceInv, FreshInPlace,
                            PendingWhole, ActiveWhole, AllInPlace, InPlace, pl
  <2>5. CASE SyncPacket
    <3>1. AllInPlace(staging[writeBank], fresh) /\ AllInPlace(staging[writeBank], Lit(config))
      BY <2>1, <2>5 DEF SyncPacket, PlaceInv, FreshInPlace, PendingWhole, AllInPlace
    <3>2. assembly.pending => Lit(config) \subseteq fresh
      BY <2>1 DEF PlaceInv, PendingWhole
    <3>3. QED
      BY <2>1, <2>2, <2>5, <3>1, <3>2, CommitKeepsPlaces DEF SyncPacket
  <2>6. CASE BlackOut
    <3>1. PICK r \in {"ok", "busy", "failed"} : Commit(AllBlack, r)
      BY <2>6 DEF BlackOut
    <3>2. ActiveWhole' /\ shown' = config'
      BY <2>1, <2>2, <3>1, CommitWhole DEF PlaceInv
    <3>3. QED
      BY <2>6, <3>2 DEF BlackOut, EmptyAssembly, PlaceInv, FreshInPlace, PendingWhole, AllInPlace
  <2>7. CASE ConsumerError \/ UNCHANGED vars
    BY <2>1, <2>2, <2>7 DEF ConsumerError, vars, receiver, PlaceInv, FreshInPlace,
                            PendingWhole, ActiveWhole, AllInPlace, InPlace, pl
  <2>8. QED
    BY <2>1, <2>3, <2>4, <2>5, <2>6, <2>7 DEF Next, Configure
<1>3. PlaceInv /\ TypeOK => PixelsInPlace
  <2>1. SUFFICES ASSUME PlaceInv, TypeOK,
                        ~ \A w \in Lit(shown) : memory[active][w] = Black,
                        NEW w \in Lit(shown)
                 PROVE  LET word == memory[active][w]
                            o == OutputOf(w)
                        IN  /\ word \notin {Black, Junk}
                            /\ word.universe * SlotsPerUniverse + 3 * word.index
                                 = 3 * (PixelsBefore(shown, o) + w - Base(o))
    BY DEF PixelsInPlace
  <2>2. shown = config /\ shown \in Config /\ InPlace(memory[active][w], w)
    BY <2>1 DEF PlaceInv, ActiveWhole, AllInPlace, TypeOK
  <2>3. LinearIndex(shown, w) = PixelsBefore(shown, OutputOf(w)) + w - Base(OutputOf(w))
    BY <2>2, PlaceInStream
  <2>4. memory[active][w] \notin {Black, Junk}
    BY <2>2, WordsAssumption DEF InPlace
  <2>5. QED
    BY <2>2, <2>3, <2>4 DEF InPlace
<1>4. QED
  BY <1>1, <1>2, <1>3, SweptHolds, TypeCorrect, PTL DEF Spec
====
