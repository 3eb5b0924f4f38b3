---------------------------- MODULE InboxProofs -----------------------------
(***************************************************************************)
(* For any messages, record lengths, limits, windows and delays: what a    *)
(* cut or interleaved append swallows is confined, and the reader catches  *)
(* up with all the rest.                                                   *)
(***************************************************************************)
EXTENDS InboxFile, FiniteSetTheorems, SequenceTheorems, TLAPS

Parts  == {"whole", "first", "second", "scrap"}
Writes == [msg : Msgs, part : Parts]

\* What a write in the file says of its message.
Fits(w) ==
  /\ w.part = "whole"  => w.msg \notin Long /\ phase[w.msg] = "reported"
  /\ w.part = "first"  => w.msg \in Long /\ phase[w.msg] \in {"half", "reported", "cut"}
  /\ w.part = "second" => w.msg \in Long /\ phase[w.msg] = "reported"
  /\ w.part = "scrap"  => phase[w.msg] = "cut"

WriterInv ==
  /\ TypeOK
  /\ \A i \in 1..Len(file) : Fits(file[i])
  /\ \A m \in Msgs : phase[m] = "half" => m \in Long
  /\ \A m \in Msgs \ Long : phase[m] = "reported" => \E i \in 1..Len(file) : file[i] = Whole(m)

-----------------------------------------------------------------------------
(* The file                                                                *)

LEMMA FileIsSeq ==
  ASSUME TypeOK
  PROVE  /\ file \in Seq(Writes) /\ Len(file) \in Nat
         /\ \A i \in 1..Len(file) : file[i] \in Writes
  <1>1. file \in Seq(Writes)
    BY DEF TypeOK, Writes, Parts
  <1> QED
    BY <1>1, LenProperties, ElementOfSeq

LEMMA Appended ==
  ASSUME TypeOK, NEW w \in Writes, file' = Append(file, w)
  PROVE  /\ file' \in Seq(Writes)
         /\ Len(file') = Len(file) + 1
         /\ \A i \in 1..Len(file) : file'[i] = file[i] /\ i \in 1..Len(file')
         /\ file'[Len(file) + 1] = w /\ Len(file) + 1 \in 1..Len(file')
         /\ \A i \in 1..Len(file') : i \in 1..Len(file) \/ i = Len(file) + 1
  <1>1. file \in Seq(Writes) /\ Len(file) \in Nat
    BY FileIsSeq
  <1> QED
    BY <1>1, AppendProperties

\* A step that appends a write that is new and fits, and leaves the others
\* fitting, keeps the invariant.
LEMMA AppendFits ==
  ASSUME WriterInv, NEW m \in Msgs, NEW p \in Parts, NEW q,
         file' = Append(file, [msg |-> m, part |-> p]),
         phase' = [phase EXCEPT ![m] = q],
         q \in {"half", "reported", "cut"},
         UNCHANGED <<clock, at, reads>>,
         Fits([msg |-> m, part |-> p])',
         phase[m] \in {"minted", "half"},
         p = "first" => phase[m] = "minted",
         phase[m] = "half" => q \in {"reported", "cut"},
         q = "half" => m \in Long,
         q = "reported" /\ m \notin Long => p = "whole"
  PROVE  WriterInv'
  <1> DEFINE w == [msg |-> m, part |-> p]
  <1>0. TypeOK /\ w \in Writes /\ phase \in [Msgs -> {"unsent", "minted", "half", "reported", "cut"}]
    BY DEF WriterInv, Writes, TypeOK
  <1>1. /\ file' \in Seq(Writes)
        /\ Len(file') = Len(file) + 1
        /\ \A i \in 1..Len(file) : file'[i] = file[i] /\ i \in 1..Len(file')
        /\ file'[Len(file) + 1] = w /\ Len(file) + 1 \in 1..Len(file')
        /\ \A i \in 1..Len(file') : i \in 1..Len(file) \/ i = Len(file) + 1
    BY <1>0, Appended
  <1>2. \A i \in 1..Len(file) : file[i] \in Writes /\ Fits(file[i])
    BY <1>0, FileIsSeq DEF WriterInv
  <1>3. \A i \in 1..Len(file) : file[i].msg = m => file[i].part = "first" /\ phase[m] = "half"
    BY <1>2 DEF Fits, Writes, Parts
  <1>4. \A i \in 1..Len(file) : Fits(file[i])'
    <2> SUFFICES ASSUME NEW i \in 1..Len(file) PROVE Fits(file[i])'
      OBVIOUS
    <2>1. file'[i] = file[i] /\ file[i] \in Writes /\ Fits(file[i])
      BY <1>1, <1>2
    <2>2. CASE file[i].msg # m
      <3>1. phase'[file[i].msg] = phase[file[i].msg]
        BY <2>1, <2>2, <1>0 DEF Writes
      <3> QED
        BY <2>1, <3>1 DEF Fits
    <2>3. CASE file[i].msg = m
      <3>1. file[i].part = "first" /\ m \in Long /\ phase'[m] \in {"reported", "cut"}
        BY <2>1, <2>3, <1>3, <1>0 DEF Fits
      <3> QED
        BY <2>1, <2>3, <3>1 DEF Fits
    <2> QED
      BY <2>2, <2>3
  <1>5. \A i \in 1..Len(file') : Fits(file[i])'
    BY <1>1, <1>4
  <1>6. \A i, j \in 1..Len(file') : file'[i] = file'[j] => i = j
    <2>1. \A i \in 1..Len(file) : file[i] # w
      BY <1>3
    <2>2. \A i, j \in 1..Len(file) : file[i] = file[j] => i = j
      BY <1>0 DEF TypeOK
    <2> QED
      BY <1>1, <2>1, <2>2
  <1>7. TypeOK'
    <2>1. \A i \in 1..Len(file') : file'[i] \in Writes
      BY <1>1
    <2>2. \A i \in 1..Len(file') : file'[i] \in {Second(k) : k \in Msgs}
            => phase'[file'[i].msg] = "reported"
      <3> SUFFICES ASSUME NEW i \in 1..Len(file'), NEW k \in Msgs, file'[i] = Second(k)
                   PROVE  phase'[file'[i].msg] = "reported"
        OBVIOUS
      <3>1. file'[i].part = "second" /\ Fits(file[i])'
        BY <1>5 DEF Second
      <3> QED
        BY <3>1 DEF Fits
    <2>3. phase' \in [Msgs -> {"unsent", "minted", "half", "reported", "cut"}]
      BY <1>0
    <2>4. file' \in Seq([msg : Msgs, part : {"whole", "first", "second", "scrap"}])
      BY <1>1 DEF Writes, Parts
    <2> QED
      BY <1>0, <1>6, <2>2, <2>3, <2>4 DEF TypeOK, reads
  <1>8. \A k \in Msgs : phase'[k] = "half" => k \in Long
    BY <1>0 DEF WriterInv
  <1>9. ASSUME NEW k \in Msgs \ Long, phase'[k] = "reported"
        PROVE  \E i \in 1..Len(file') : file'[i] = Whole(k)
    <2>1. CASE k = m
      BY <2>1, <1>0, <1>1, <1>9 DEF Whole
    <2>2. CASE k # m
      <3>1. phase[k] = "reported"
        BY <2>2, <1>0, <1>9
      <3>2. PICK i \in 1..Len(file) : file[i] = Whole(k)
        BY <3>1, <1>9 DEF WriterInv
      <3> QED
        BY <3>2, <1>1
    <2> QED
      BY <2>1, <2>2
  <1> QED
    BY <1>5, <1>7, <1>8, <1>9 DEF WriterInv

LEMMA WriterInit == Init => WriterInv
  <1> SUFFICES ASSUME Init PROVE WriterInv
    OBVIOUS
  <1>1. file = <<>> /\ Len(file) = 0 /\ file \in Seq([msg : Msgs, part : {"whole", "first", "second", "scrap"}])
    BY DEF Init
  <1>2. 0 \in 0..MaxClock
    BY InboxAssumption
  <1>3. TypeOK
    BY <1>1, <1>2 DEF Init, TypeOK
  <1> QED
    BY <1>1, <1>3 DEF Init, WriterInv

LEMMA WriterStep == WriterInv /\ [Next]_vars => WriterInv'
  <1> SUFFICES ASSUME WriterInv, [Next]_vars PROVE WriterInv'
    OBVIOUS
  <1>0. /\ TypeOK
        /\ phase \in [Msgs -> {"unsent", "minted", "half", "reported", "cut"}]
        /\ \A i \in 1..Len(file) : file[i] \in Writes /\ Fits(file[i])
    BY FileIsSeq DEF WriterInv, TypeOK
  <1>1. ASSUME NEW m \in Msgs, Mint(m) PROVE WriterInv'
    <2>1. /\ phase[m] = "unsent" /\ phase' = [phase EXCEPT ![m] = "minted"]
          /\ at' = [at EXCEPT ![m] = clock] /\ UNCHANGED <<clock, file, reads>>
      BY <1>1 DEF Mint
    <2>2. \A i \in 1..Len(file) : phase'[file[i].msg] = phase[file[i].msg]
      BY <1>0, <2>1 DEF Fits, Writes, Parts
    <2>3. \A i \in 1..Len(file') : Fits(file[i])'
      BY <1>0, <2>1, <2>2 DEF Fits
    <2>4. TypeOK'
      <3>1. \A i \in 1..Len(file) : file[i] \in {Second(k) : k \in Msgs}
              => phase'[file[i].msg] = "reported"
        BY <1>0, <2>2 DEF TypeOK
      <3>2. at' \in [Msgs -> 0..clock']
        BY <1>0, <2>1 DEF TypeOK
      <3> QED
        BY <1>0, <2>1, <3>1, <3>2 DEF TypeOK, reads
    <2> QED
      BY <1>0, <2>1, <2>3, <2>4 DEF WriterInv
  <1>2. ASSUME NEW m \in Msgs, WriteWhole(m) PROVE WriterInv'
    <2>1. Fits([msg |-> m, part |-> "whole"])'
      BY <1>0, <1>2 DEF WriteWhole, Fits
    <2> QED
      BY <1>2, <2>1, AppendFits DEF WriteWhole, Whole, Parts, reads
  <1>3. ASSUME NEW m \in Msgs, WriteFirst(m) PROVE WriterInv'
    <2>1. Fits([msg |-> m, part |-> "first"])'
      BY <1>0, <1>3 DEF WriteFirst, Fits
    <2> QED
      BY <1>3, <2>1, AppendFits DEF WriteFirst, First, Parts, reads
  <1>4. ASSUME NEW m \in Msgs, WriteSecond(m) PROVE WriterInv'
    <2>1. m \in Long
      BY <1>4 DEF WriteSecond, WriterInv
    <2>2. Fits([msg |-> m, part |-> "second"])'
      BY <1>0, <1>4, <2>1 DEF WriteSecond, Fits
    <2> QED
      BY <1>4, <2>1, <2>2, AppendFits DEF WriteSecond, Second, Parts, reads
  <1>5. ASSUME NEW m \in Msgs, Cut(m) PROVE WriterInv'
    <2>1. /\ phase[m] \in {"minted", "half"} /\ phase' = [phase EXCEPT ![m] = "cut"]
          /\ UNCHANGED <<clock, at, reads>>
      BY <1>5 DEF Cut
    <2>2. CASE file' = Append(file, Scrap(m))
      <3>1. Fits([msg |-> m, part |-> "scrap"])'
        BY <1>0, <2>1 DEF Fits
      <3> QED
        BY <2>1, <2>2, <3>1, AppendFits DEF Scrap, Parts
    <2>3. CASE file' = file
      <3>1. ASSUME NEW i \in 1..Len(file) PROVE Fits(file[i])'
        <4>1. file[i] \in Writes /\ Fits(file[i]) /\ file'[i] = file[i]
          BY <1>0, <2>3
        <4>2. CASE file[i].msg = m
          <5>1. file[i].part = "first" /\ m \in Long /\ phase'[m] = "cut"
            BY <1>0, <2>1, <4>1, <4>2 DEF Fits, Writes, Parts
          <5> QED
            BY <4>1, <4>2, <5>1 DEF Fits
        <4>3. CASE file[i].msg # m
          <5>1. phase'[file[i].msg] = phase[file[i].msg]
            BY <1>0, <2>1, <4>1, <4>3 DEF Writes
          <5> QED
            BY <4>1, <5>1 DEF Fits
        <4> QED
          BY <4>2, <4>3
      <3>2. \A i \in 1..Len(file) : file[i] \in {Second(k) : k \in Msgs}
              => phase'[file[i].msg] = "reported"
        <4> SUFFICES ASSUME NEW i \in 1..Len(file), NEW k \in Msgs, file[i] = Second(k)
                     PROVE  phase'[file[i].msg] = "reported"
          OBVIOUS
        <4>1. file'[i].part = "second" /\ file'[i] = file[i] /\ Fits(file[i])'
          BY <2>3, <3>1 DEF Second
        <4> QED
          BY <4>1 DEF Fits
      <3>3. TypeOK'
        BY <1>0, <2>1, <2>3, <3>2 DEF TypeOK, reads
      <3> QED
        BY <1>0, <2>1, <2>3, <3>1, <3>3 DEF WriterInv
    <2> QED
      BY <1>5, <2>2, <2>3 DEF Cut
  <1>6. CASE Read
    <2>1. UNCHANGED <<clock, phase, at, file>> /\ lastRead' = clock
      BY <1>6 DEF Read
    <2>2. present' \subseteq Msgs /\ shown' \subseteq Msgs /\ counted' \subseteq Msgs
      BY <1>0, <1>6 DEF Read, Readable, Newest, Matches, TypeOK
    <2>3. lastRead' \in 0..clock'
      BY <1>0, <2>1 DEF TypeOK
    <2>4. TypeOK'
      BY <1>0, <2>1, <2>2, <2>3 DEF TypeOK
    <2> QED
      BY <2>1, <2>4 DEF WriterInv, Fits
  <1>7. CASE Tick
    <2>1. UNCHANGED <<phase, at, file, reads>> /\ clock' = clock + 1 /\ clock < MaxClock
      BY <1>7 DEF Tick
    <2>2. clock' \in 0..MaxClock /\ lastRead' \in 0..clock' /\ at' \in [Msgs -> 0..clock']
      BY <1>0, <2>1, InboxAssumption DEF TypeOK, reads
    <2>3. TypeOK'
      BY <1>0, <2>1, <2>2 DEF TypeOK, reads
    <2> QED
      BY <2>1, <2>3 DEF WriterInv, Fits
  <1>8. CASE UNCHANGED vars
    BY <1>8 DEF vars, reads, WriterInv, TypeOK, Fits
  <1> QED
    BY <1>1, <1>2, <1>3, <1>4, <1>5, <1>6, <1>7, <1>8 DEF Next

LEMMA WriterInvariant == Spec => []WriterInv
  BY WriterInit, WriterStep, PTL DEF Spec

\* The inbox file and its reader are well typed, and no record is written twice.
THEOREM InboxTypes == Spec => []TypeOK
  <1>1. WriterInv => TypeOK
    BY DEF WriterInv
  <1> QED
    BY <1>1, WriterInvariant, PTL

-----------------------------------------------------------------------------
(* What is lost                                                            *)

\* A record's line is at one place.
LEMMA OneLine ==
  ASSUME WriterInv, NEW m \in Msgs, NEW i \in 1..Len(file), NEW j \in 1..Len(file),
         IsLine(m, i), IsLine(m, j)
  PROVE  i = j
  <1>1. /\ file[i] \in {Whole(m), First(m)} /\ Fits(file[i])
        /\ file[j] \in {Whole(m), First(m)} /\ Fits(file[j])
    BY DEF IsLine, WriterInv
  <1>2. file[i] = file[j]
    BY <1>1 DEF Fits, Whole, First
  <1> QED
    BY <1>2 DEF WriterInv, TypeOK

\* A lost record was appended to a line that had no end.
LEMMA WhyLost ==
  ASSUME WriterInv, NEW m \in Lost
  PROVE  \E i \in 1..(Len(file) - 1) :
           /\ file[i + 1] = Whole(m)
           /\ \E k \in Msgs :
                \/ k \in Split /\ file[i] = First(k)
                \/ k \in CutShort /\ file[i] = Scrap(k)
  <1>0. TypeOK /\ Len(file) \in Nat /\ m \in Msgs \ Long /\ phase[m] = "reported"
    BY FileIsSeq DEF WriterInv, Lost
  <1>1. PICK j \in 1..Len(file) : file[j] = Whole(m)
    BY <1>0 DEF WriterInv
  <1>2. ~StartsLine(j)
    BY <1>0, <1>1 DEF Lost, Readable, IsLine
  <1> DEFINE i == j - 1
  <1>3. /\ i \in 1..(Len(file) - 1) /\ i \in 1..Len(file) /\ i + 1 = j
        /\ ~EndsLine(i)
    BY <1>0, <1>1, <1>2 DEF StartsLine
  <1>4. /\ file[i] \in Writes /\ Fits(file[i])
        /\ file[i].part \in {"first", "scrap"} /\ file[i].msg \in Msgs
    BY <1>0, <1>3, FileIsSeq DEF EndsLine, Writes, Parts, WriterInv
  <1> DEFINE k == file[i].msg
  <1>5. CASE file[i].part = "scrap"
    <2>1. file[i] = Scrap(k) /\ phase[k] = "cut"
      BY <1>4, <1>5 DEF Writes, Scrap, Fits
    <2> QED
      BY <1>1, <1>3, <1>4, <2>1 DEF CutShort
  <1>6. CASE file[i].part = "first"
    <2>1. file[i] = First(k) /\ k \in Long
      BY <1>4, <1>6 DEF Writes, First, Fits
    <2>2. ASSUME NEW n \in 1..Len(file), IsLine(k, n) PROVE FALSE
      <3>1. file[n] \in {Whole(k), First(k)} /\ Fits(file[n])
        BY <2>2 DEF IsLine, WriterInv
      <3>2. file[n] = First(k) /\ file[n] # Whole(k)
        BY <2>1, <3>1 DEF Fits, Whole, First
      <3>3. n = i
        BY <1>0, <1>3, <2>1, <3>2 DEF TypeOK
      <3>4. file[i + 1] = Second(k)
        BY <2>2, <3>2, <3>3 DEF IsLine
      <3> QED
        BY <1>1, <1>3, <3>4 DEF Second, Whole
    <2>3. k \in Split
      BY <1>3, <1>4, <2>1, <2>2 DEF Split, Readable
    <2> QED
      BY <1>1, <1>3, <1>4, <2>1, <2>3
  <1> QED
    BY <1>4, <1>5, <1>6

LEMMA FinitelyMany ==
  ASSUME NEW S \in SUBSET Msgs
  PROVE  IsFiniteSet(S) /\ Cardinality(S) \in Nat
  BY InboxAssumption, FS_Subset, FS_CardinalityType

\* As many as messages to blame, when each has one of its own.
LEMMA EachItsOwn ==
  ASSUME NEW S \in SUBSET Msgs, NEW T \in SUBSET Msgs, NEW Blames,
         \A m \in S : \E k \in T : <<m, k>> \in Blames,
         \A m, n \in S : \A k \in T :
           <<m, k>> \in Blames /\ <<n, k>> \in Blames => m = n
  PROVE  Cardinality(S) <= Cardinality(T)
  <1> DEFINE f == [m \in S |-> CHOOSE k \in T : <<m, k>> \in Blames]
  <1>1. \A m \in S : f[m] \in T /\ <<m, f[m]>> \in Blames
    OBVIOUS
  <1>2. f \in [S -> T]
    BY <1>1
  <1>3. \A m, n \in S : f[m] = f[n] => m = n
    BY <1>1
  <1> HIDE DEF f
  <1>4. f \in Injection(S, T)
    BY <1>2, <1>3 DEF Injection, IsInjective
  <1> QED
    BY <1>4, FS_Injection, FinitelyMany

LEMMA Confined == WriterInv => LossIsConfined
  <1> SUFFICES ASSUME WriterInv PROVE LossIsConfined
    OBVIOUS
  <1> DEFINE After(m, w) == \E i \in 1..(Len(file) - 1) : file[i + 1] = Whole(m) /\ file[i] = w
             Torn  == {m \in Lost : \E k \in Split : After(m, First(k))}
             Glued == {m \in Lost : \E k \in CutShort : After(m, Scrap(k))}
  <1>0. TypeOK /\ Len(file) \in Nat
    BY FileIsSeq DEF WriterInv
  <1>1. Lost \subseteq Torn \cup Glued
    BY WhyLost
  <1>2. /\ Torn \in SUBSET Msgs /\ Glued \in SUBSET Msgs /\ Lost \in SUBSET Msgs
        /\ Split \in SUBSET Msgs /\ CutShort \in SUBSET Msgs
    BY InboxAssumption DEF Lost, Split, CutShort
  <1>3. ASSUME NEW m \in Msgs, NEW n \in Msgs, NEW w, After(m, w), After(n, w) PROVE m = n
    <2>1. PICK i \in 1..(Len(file) - 1) : file[i + 1] = Whole(m) /\ file[i] = w
      BY <1>3
    <2>2. PICK j \in 1..(Len(file) - 1) : file[j + 1] = Whole(n) /\ file[j] = w
      BY <1>3
    <2>3. i = j
      BY <1>0, <2>1, <2>2 DEF TypeOK
    <2> QED
      BY <2>1, <2>2, <2>3 DEF Whole
  <1>4. Cardinality(Torn) <= Cardinality(Split)
    <2> DEFINE Blames == {p \in Msgs \X Msgs : After(p[1], First(p[2]))}
    <2>1. \A m \in Torn : \E k \in Split : <<m, k>> \in Blames
      BY <1>2
    <2>2. ASSUME NEW m \in Torn, NEW n \in Torn, NEW k \in Split,
                 <<m, k>> \in Blames, <<n, k>> \in Blames
          PROVE  m = n
      <3>1. m \in Msgs /\ n \in Msgs /\ After(m, First(k)) /\ After(n, First(k))
        BY <2>2
      <3> HIDE DEF After
      <3> QED
        BY <3>1, <1>3
    <2> HIDE DEF Torn, Blames
    <2> QED
      BY <1>2, <2>1, <2>2, EachItsOwn
  <1>5. Cardinality(Glued) <= Cardinality(CutShort)
    <2> DEFINE Blames == {p \in Msgs \X Msgs : After(p[1], Scrap(p[2]))}
    <2>1. \A m \in Glued : \E k \in CutShort : <<m, k>> \in Blames
      BY <1>2
    <2>2. ASSUME NEW m \in Glued, NEW n \in Glued, NEW k \in CutShort,
                 <<m, k>> \in Blames, <<n, k>> \in Blames
          PROVE  m = n
      <3>1. m \in Msgs /\ n \in Msgs /\ After(m, Scrap(k)) /\ After(n, Scrap(k))
        BY <2>2
      <3> HIDE DEF After
      <3> QED
        BY <3>1, <1>3
    <2> HIDE DEF Glued, Blames
    <2> QED
      BY <1>2, <2>1, <2>2, EachItsOwn
  <1> HIDE DEF Torn, Glued
  <1>6. Cardinality(Lost) <= Cardinality(Torn) + Cardinality(Glued)
    <2>1. /\ IsFiniteSet(Torn) /\ IsFiniteSet(Glued)
          /\ Cardinality(Torn) \in Nat /\ Cardinality(Glued) \in Nat
      BY <1>2, FinitelyMany
    <2>2. /\ IsFiniteSet(Torn \cup Glued)
          /\ Cardinality(Torn \cup Glued)
               = Cardinality(Torn) + Cardinality(Glued) - Cardinality(Torn \cap Glued)
      BY <2>1, FS_Union
    <2>3. Cardinality(Torn \cap Glued) \in Nat /\ Cardinality(Lost) \in Nat
      BY <1>2, FinitelyMany
    <2>4. Cardinality(Lost) <= Cardinality(Torn \cup Glued)
      BY <1>1, <2>2, FS_Subset
    <2> QED
      BY <2>1, <2>2, <2>3, <2>4
  <1> QED
    <2>1. /\ Cardinality(Lost) \in Nat /\ Cardinality(Torn) \in Nat /\ Cardinality(Glued) \in Nat
          /\ Cardinality(Split) \in Nat /\ Cardinality(CutShort) \in Nat
      BY <1>2, FinitelyMany
    <2> QED
      BY <1>4, <1>5, <1>6, <2>1 DEF LossIsConfined

\* A record that was appended in one piece can fail to be readable only if an
\* append that another got into, or one that was cut short, is to blame - and
\* each of those is to blame for one at most.
THEOREM LossConfined == Spec => []LossIsConfined
  BY Confined, WriterInvariant, PTL

-----------------------------------------------------------------------------
(* Catching up                                                             *)

\* Nobody is late; what the reader has not seen yet was on its way when it ran.
TimelyInv ==
  /\ clock <= lastRead + Every
  /\ \A m \in Msgs : phase[m] \in {"minted", "half"} => clock <= at[m] + Delay
  /\ present \subseteq Readable
  /\ \A m \in Readable \ present : lastRead <= at[m] + Delay
  /\ CatchesUp

LEMMA ReadableReported ==
  ASSUME WriterInv, NEW m \in Readable
  PROVE  m \in Msgs /\ phase[m] = "reported" /\ at[m] \in Nat
  <1>1. TypeOK /\ m \in Msgs
    BY DEF WriterInv, Readable
  <1>2. PICK i \in 1..Len(file) : IsLine(m, i)
    BY DEF Readable
  <1>3. CASE file[i] = Whole(m)
    BY <1>1, <1>3 DEF WriterInv, Fits, Whole, TypeOK
  <1>4. CASE i < Len(file) /\ file[i + 1] = Second(m)
    <2>1. i + 1 \in 1..Len(file)
      BY <1>4, <1>1, FileIsSeq
    <2>2. Fits(file[i + 1])
      BY <2>1 DEF WriterInv
    <2> QED
      BY <1>1, <1>4, <2>2 DEF Fits, Second, TypeOK
  <1>5. at[m] \in Nat
    BY <1>1 DEF TypeOK
  <1>6. file[i] = Whole(m) \/ (i < Len(file) /\ file[i + 1] = Second(m))
    BY <1>2 DEF IsLine
  <1> QED
    BY <1>1, <1>3, <1>4, <1>5, <1>6

\* The file only grows, and a line that is whole stays so.
FileGrows ==
  /\ Len(file) \in Nat /\ Len(file') \in Nat /\ Len(file) <= Len(file')
  /\ \A i \in 1..Len(file) : file'[i] = file[i]

LEMMA LinesStay ==
  ASSUME FileGrows, NEW m \in Msgs, NEW i \in 1..Len(file), IsLine(m, i)
  PROVE  i \in 1..Len(file') /\ IsLine(m, i)'
  <1>1. i \in 1..Len(file') /\ i \in Nat /\ file'[i] = file[i]
    BY DEF FileGrows
  <1>2. i = 1 \/ (i - 1 \in 1..Len(file) /\ file'[i - 1] = file[i - 1])
    BY DEF FileGrows
  <1>3. StartsLine(i)'
    BY <1>1, <1>2 DEF IsLine, StartsLine, EndsLine
  <1>4. i < Len(file) => i < Len(file') /\ file'[i + 1] = file[i + 1]
    BY <1>1 DEF FileGrows
  <1> QED
    BY <1>1, <1>3, <1>4 DEF IsLine, Whole, First, Second

LEMMA PositionIs ==
  ASSUME WriterInv, NEW m \in Msgs, NEW i \in 1..Len(file), IsLine(m, i)
  PROVE  Position(m) = i
  BY OneLine DEF Position

\* What was readable stays where it is in the order.
LEMMA OrderStays ==
  ASSUME WriterInv, WriterInv', FileGrows,
         \A m \in Readable : at'[m] = at[m]
  PROVE  /\ Readable \subseteq Readable'
         /\ \A m, n \in Readable : Later(n, m) => Later(n, m)'
  <1>1. ASSUME NEW m \in Readable
        PROVE  m \in Readable' /\ Position(m)' = Position(m)
    <2>1. PICK i \in 1..Len(file) : IsLine(m, i)
      BY <1>1 DEF Readable
    <2>2. m \in Msgs
      BY <1>1 DEF Readable
    <2>3. i \in 1..Len(file') /\ IsLine(m, i)'
      BY <2>1, <2>2, LinesStay
    <2>4. Position(m) = i
      BY <2>1, <2>2, PositionIs
    <2>5. \A j \in 1..Len(file') : IsLine(m, j)' => j = i
      <3>1. ASSUME NEW j \in 1..Len(file'), IsLine(m, j)' PROVE j = i
        <4>1. /\ file'[i] \in {Whole(m), First(m)} /\ Fits(file[i])'
              /\ file'[j] \in {Whole(m), First(m)} /\ Fits(file[j])'
          BY <2>3, <3>1 DEF IsLine, WriterInv, Whole, First
        <4>2. file'[i] = file'[j]
          BY <4>1 DEF Fits, Whole, First
        <4> QED
          BY <2>3, <3>1, <4>2 DEF WriterInv, TypeOK
      <3> QED
        BY <3>1
    <2>6. Position(m)' = i
      BY <2>3, <2>5 DEF Position
    <2> QED
      BY <2>2, <2>3, <2>4, <2>6 DEF Readable
  <1> QED
    BY <1>1 DEF Later

\* Printed, counted, or crowded out - and it stays so.
LEMMA StaysCaughtUp ==
  ASSUME WriterInv, WriterInv', FileGrows, CatchesUp,
         \A m \in Readable : at'[m] = at[m],
         present \subseteq Readable, UNCHANGED reads
  PROVE  CatchesUp'
  <1> SUFFICES ASSUME NEW m \in present \ Hidden
               PROVE  \/ m \in (IF Withheld(m) THEN counted ELSE shown)
                      \/ /\ Limit > 0
                         /\ Cardinality({n \in Readable \ Hidden : Later(n, m)})' >= Limit
    BY DEF CatchesUp, reads, Withheld
  <1>1. CASE m \in (IF Withheld(m) THEN counted ELSE shown)
    BY <1>1
  <1>2. CASE /\ Limit > 0
             /\ Cardinality({n \in Readable \ Hidden : Later(n, m)}) >= Limit
    <2> DEFINE S == {n \in Readable \ Hidden : Later(n, m)}
    <2>1. S \subseteq S'
      BY OrderStays
    <2>2. S' \in SUBSET Msgs /\ S \in SUBSET Msgs
      BY DEF Readable
    <2>3. IsFiniteSet(S') /\ Cardinality(S') \in Nat /\ Cardinality(S) \in Nat
      BY <2>2, FinitelyMany
    <2> HIDE DEF S
    <2>4. Cardinality(S) <= Cardinality(S')
      BY <2>1, <2>3, FS_Subset
    <2>5. Cardinality(S) >= Limit
      BY <1>2 DEF S
    <2>6. Cardinality(S)' >= Limit
      BY <2>3, <2>4, <2>5, InboxAssumption
    <2> QED
      BY <1>2, <2>6 DEF S
  <1> QED
    BY <1>1, <1>2 DEF CatchesUp

\* An append makes no other record readable than the one it belongs to.
LEMMA OnlyItsOwn ==
  ASSUME TypeOK, NEW m \in Msgs, NEW p \in Parts,
         file' = Append(file, [msg |-> m, part |-> p]),
         NEW k \in Readable', k \notin Readable
  PROVE  k = m
  <1> DEFINE w == [msg |-> m, part |-> p]
  <1>0. Len(file) \in Nat /\ w \in Writes
    BY FileIsSeq DEF Writes
  <1>1. /\ Len(file') = Len(file) + 1
        /\ \A i \in 1..Len(file) : file'[i] = file[i]
        /\ file'[Len(file) + 1] = w
    BY <1>0, Appended
  <1>2. PICK i \in 1..Len(file') : IsLine(k, i)' /\ k \in Msgs
    BY DEF Readable
  <1>3. CASE i = Len(file) + 1
    BY <1>1, <1>2, <1>3 DEF IsLine, Whole, First
  <1>4. CASE i \in 1..Len(file)
    <2>1. StartsLine(i)
      BY <1>0, <1>1, <1>2, <1>4 DEF IsLine, StartsLine, EndsLine
    <2>2. file[i] # Whole(k)
      BY <1>2, <1>4, <2>1 DEF Readable, IsLine
    <2>3. file[i] = First(k) /\ file'[i + 1] = Second(k) /\ i < Len(file) + 1
      BY <1>1, <1>2, <1>4, <2>2 DEF IsLine, Whole, First, Second
    <2>4. ~(i < Len(file) /\ file[i + 1] = Second(k))
      BY <1>2, <1>4, <2>1, <2>3 DEF Readable, IsLine
    <2>5. i = Len(file)
      BY <1>0, <1>1, <1>4, <2>3, <2>4
    <2> QED
      BY <1>1, <2>3, <2>5 DEF Second
  <1> QED
    BY <1>0, <1>1, <1>2, <1>3, <1>4

\* A writer's step on m: the file grows by at most one of m's writes.
LEMMA WritingIsTimely ==
  ASSUME WriterInv, WriterInv', TimelyInv, NEW m \in Msgs,
         phase[m] \in {"minted", "half"},
         \/ file' = file
         \/ \E p \in Parts : file' = Append(file, [msg |-> m, part |-> p]),
         \A k \in Msgs \ {m} : phase'[k] = phase[k],
         UNCHANGED <<clock, at, reads>>
  PROVE  TimelyInv'
  <1>0. TypeOK /\ TypeOK'
    BY DEF WriterInv
  <1>1. FileGrows
    <2>1. CASE file' = file
      BY <1>0, <2>1, FileIsSeq DEF FileGrows
    <2>2. ASSUME NEW p \in Parts, file' = Append(file, [msg |-> m, part |-> p])
          PROVE  FileGrows
      <3>1. [msg |-> m, part |-> p] \in Writes
        BY DEF Writes
      <3> QED
        BY <1>0, <2>2, <3>1, Appended, FileIsSeq DEF FileGrows
    <2> QED
      BY <2>1, <2>2
  <1>2. CatchesUp'
    BY <1>1, StaysCaughtUp DEF TimelyInv
  <1>3. Readable \subseteq Readable'
    BY <1>1, OrderStays
  <1>4. \A k \in Readable' \ Readable : k = m
    <2>1. CASE file' = file
      BY <2>1 DEF Readable, IsLine, StartsLine, EndsLine, Whole, First, Second
    <2>2. ASSUME NEW p \in Parts, file' = Append(file, [msg |-> m, part |-> p])
          PROVE  \A k \in Readable' \ Readable : k = m
      BY <1>0, <2>2, OnlyItsOwn
    <2> QED
      BY <2>1, <2>2
  <1>5. lastRead <= at[m] + Delay
    BY <1>0, InboxAssumption DEF TimelyInv, TypeOK
  <1>6. \A k \in Msgs : phase'[k] \in {"minted", "half"} => clock <= at[k] + Delay
    BY DEF TimelyInv
  <1> QED
    BY <1>2, <1>3, <1>4, <1>5, <1>6 DEF TimelyInv, reads

\* The file stays as it is, and so does what can be read.
LEMMA SameFile ==
  ASSUME WriterInv, file' = file
  PROVE  Readable' = Readable /\ FileGrows
  <1>1. Len(file) \in Nat
    BY FileIsSeq DEF WriterInv
  <1> QED
    BY <1>1 DEF Readable, IsLine, StartsLine, EndsLine, Whole, First, Second, FileGrows

LEMMA MintIsTimely ==
  ASSUME WriterInv, WriterInv', TimelyInv, NEW m \in Msgs, Mint(m)
  PROVE  TimelyInv'
  <1>0. /\ TypeOK /\ phase[m] = "unsent" /\ phase' = [phase EXCEPT ![m] = "minted"]
        /\ at' = [at EXCEPT ![m] = clock] /\ UNCHANGED <<clock, file, reads>>
    BY DEF Mint, WriterInv
  <1>1. Readable' = Readable /\ FileGrows
    BY <1>0, SameFile
  <1>2. m \notin Readable /\ Readable \subseteq Msgs
    BY <1>0, ReadableReported
  <1>3. \A k \in Msgs \ {m} : at'[k] = at[k] /\ phase'[k] = phase[k]
    BY <1>0 DEF TypeOK
  <1>4. CatchesUp'
    BY <1>0, <1>1, <1>2, <1>3, StaysCaughtUp DEF TimelyInv
  <1>5. at'[m] = clock /\ clock \in Nat /\ clock <= clock + Delay
    BY <1>0, InboxAssumption DEF TypeOK
  <1> QED
    BY <1>0, <1>1, <1>2, <1>3, <1>4, <1>5 DEF TimelyInv, reads

LEMMA ReadIsTimely ==
  ASSUME WriterInv, TimelyInv, Read
  PROVE  TimelyInv'
  <1>0. /\ TypeOK /\ lastRead' = clock /\ present' = Readable
        /\ shown' = shown \cup {m \in Newest : ~Withheld(m)}
        /\ counted' = counted \cup {m \in Newest : Withheld(m)}
        /\ UNCHANGED <<clock, phase, at, file>>
    BY DEF WriterInv, Read
  <1>1. Readable' = Readable
    BY <1>0, SameFile
  <1>2. clock \in Nat /\ lastRead \in Nat /\ \A m \in Msgs : at[m] \in Nat
    BY <1>0 DEF TypeOK
  <1>3. \A m, n \in Msgs : Later(n, m)' <=> Later(n, m)
    BY <1>0 DEF Later, Position, IsLine, StartsLine, EndsLine, Whole, First, Second
  <1>4. Readable \subseteq Msgs
    BY DEF Readable
  <1>5. ASSUME NEW m \in Readable \ Hidden
        PROVE  \/ m \in (IF Withheld(m) THEN counted' ELSE shown')
               \/ Limit > 0 /\ Cardinality({n \in Readable \ Hidden : Later(n, m)}) >= Limit
    <2>1. CASE m \in Newest
      BY <1>0, <2>1
    <2>2. CASE m \in Matches /\ m \notin Newest
      <3> DEFINE S == {n \in Matches : Later(n, m)}
                 T == {n \in Readable \ Hidden : Later(n, m)}
      <3>1. Limit # 0 /\ ~(Cardinality(S) < Limit)
        BY <2>2 DEF Newest
      <3>2. S \subseteq T /\ S \in SUBSET Msgs /\ T \in SUBSET Msgs
        BY <1>4 DEF Matches
      <3> HIDE DEF S, T
      <3>3. IsFiniteSet(T) /\ Cardinality(S) \in Nat /\ Cardinality(T) \in Nat
        BY <3>2, FinitelyMany
      <3>4. Cardinality(S) <= Cardinality(T)
        BY <3>2, <3>3, FS_Subset
      <3>5. Limit > 0 /\ Cardinality(T) >= Limit
        BY <3>1, <3>3, <3>4, InboxAssumption
      <3> QED
        BY <3>5 DEF T
    <2>3. CASE m \notin Matches
      <3>1. at[m] < clock - Since
        BY <1>2, <1>4, <2>3, InboxAssumption DEF Matches
      <3>2. m \in present
        BY <1>2, <1>4, <3>1, InboxAssumption DEF TimelyInv
      <3>3. \/ m \in (IF Withheld(m) THEN counted ELSE shown)
            \/ Limit > 0 /\ Cardinality({n \in Readable \ Hidden : Later(n, m)}) >= Limit
        BY <3>2 DEF TimelyInv, CatchesUp
      <3> QED
        BY <1>0, <3>3
    <2> QED
      BY <2>1, <2>2, <2>3
  <1>6. CatchesUp'
    <2> SUFFICES ASSUME NEW m \in Readable \ Hidden
                 PROVE  \/ m \in (IF Withheld(m) THEN counted' ELSE shown')
                        \/ /\ Limit > 0
                           /\ Cardinality({n \in Readable' \ Hidden : Later(n, m)'}) >= Limit
      BY <1>0 DEF CatchesUp, Withheld
    <2>1. {n \in Readable' \ Hidden : Later(n, m)'} = {n \in Readable \ Hidden : Later(n, m)}
      BY <1>1, <1>3, <1>4
    <2> QED
      BY <1>5, <2>1
  <1>7. clock' <= lastRead' + Every
    BY <1>0, <1>2, InboxAssumption
  <1> QED
    BY <1>0, <1>1, <1>6, <1>7 DEF TimelyInv

LEMMA TickIsTimely ==
  ASSUME WriterInv, WriterInv', TimelyInv, Tick
  PROVE  TimelyInv'
  <1>0. /\ TypeOK /\ clock' = clock + 1 /\ UNCHANGED <<phase, at, file, reads>>
        /\ clock < lastRead + Every
        /\ \A m \in Msgs : phase[m] \in {"minted", "half"} => clock < at[m] + Delay
    BY DEF WriterInv, Tick
  <1>1. Readable' = Readable /\ FileGrows
    BY <1>0, SameFile
  <1>2. /\ clock \in Nat /\ lastRead \in Nat /\ \A m \in Msgs : at[m] \in Nat
        /\ Every \in Nat /\ Delay \in Nat
    BY <1>0, InboxAssumption DEF TypeOK
  <1>3. CatchesUp'
    BY <1>0, <1>1, StaysCaughtUp DEF TimelyInv
  <1>4. clock' <= lastRead' + Every
    BY <1>0, <1>2 DEF reads
  <1>5. \A m \in Msgs : phase'[m] \in {"minted", "half"} => clock' <= at'[m] + Delay
    BY <1>0, <1>2
  <1> QED
    BY <1>0, <1>1, <1>3, <1>4, <1>5 DEF TimelyInv, reads

LEMMA TimelyStep ==
  ASSUME WriterInv, WriterInv', TimelyInv, [Next]_vars
  PROVE  TimelyInv'
  <1>0. phase \in [Msgs -> {"unsent", "minted", "half", "reported", "cut"}]
    BY DEF WriterInv, TypeOK
  <1>1. ASSUME NEW m \in Msgs, WriteWhole(m) \/ WriteFirst(m) \/ WriteSecond(m) \/ Cut(m)
        PROVE  TimelyInv'
    <2>1. /\ phase[m] \in {"minted", "half"} /\ UNCHANGED <<clock, at, reads>>
          /\ \A k \in Msgs \ {m} : phase'[k] = phase[k]
      BY <1>0, <1>1 DEF WriteWhole, WriteFirst, WriteSecond, Cut
    <2>2. \/ file' = file
          \/ \E p \in Parts : file' = Append(file, [msg |-> m, part |-> p])
      BY <1>1 DEF WriteWhole, WriteFirst, WriteSecond, Cut, Whole, First, Second, Scrap, Parts
    <2> QED
      BY <2>1, <2>2, WritingIsTimely
  <1>2. CASE UNCHANGED vars
    <2>1. /\ Readable' = Readable
          /\ UNCHANGED <<clock, phase, at, present, lastRead>>
      BY <1>2, SameFile DEF vars, reads
    <2>2. CatchesUp'
      BY <1>2, SameFile, StaysCaughtUp DEF vars, reads, TimelyInv
    <2> QED
      BY <2>1, <2>2 DEF TimelyInv
  <1> QED
    BY <1>1, <1>2, MintIsTimely, ReadIsTimely, TickIsTimely DEF Next

LEMMA TimelyInit == Init => TimelyInv
  <1> SUFFICES ASSUME Init PROVE TimelyInv
    OBVIOUS
  <1>1. Readable = {}
    BY DEF Init, Readable
  <1> QED
    BY <1>1, InboxAssumption DEF Init, TimelyInv, CatchesUp

\* A reader whose --since covers the time between its runs and the longest
\* delivery prints or counts, run by run, every whole record there is, unless
\* its --limit gives the place to later ones.
THEOREM ReaderCatchesUp == Spec => []CatchesUp
  <1>1. TimelyInv => CatchesUp
    BY DEF TimelyInv
  <1> QED
    BY <1>1, TimelyInit, TimelyStep, WriterInvariant, PTL DEF Spec
=============================================================================
