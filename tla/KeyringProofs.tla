--------------------------- MODULE KeyringProofs ----------------------------
(***************************************************************************)
(* What the keyring commands guarantee, for any commands, agents and keys, *)
(* whichever of the commands die half-way.  When the operator runs them    *)
(* one at a time (Exclusive): the ring is whole, no pin is overwritten     *)
(* silently, and every command that reports success took effect at once.   *)
(* When they run in parallel: a ring left corrupt is not replaced.         *)
(***************************************************************************)
EXTENDS KeyringStore, TLAPS

\* A command's own file is new as long as the command has not opened it.
Fresh(p) == path # p /\ tmp # p

\* What p wants to store is the merge of the ring as it is.
UpToDate(p) == /\ Stored \in Rings
               /\ ~Refuses(Stored, p)
               /\ ring[p] = Merged(Stored, p)

\* p writes to the file named .tmp, which is not the ring, and once it has
\* written, that file holds its text.
HoldsTmp(p) == /\ fd[p] = tmp /\ tmp # NoFile
               /\ pc[p] = "writing" => content[tmp] = Blank
               /\ pc[p] = "written" => content[tmp] = ring[p]

AloneInv ==
  /\ TypeOK
  /\ RingIntact
  /\ path # NoFile => path # tmp
  /\ \A p, q \in Procs : Running(p) /\ Running(q) => p = q
  /\ \A p \in Procs : pc[p] \in {"idle", "merged"} => Fresh(p)
  /\ \A p \in Procs : Running(p) => UpToDate(p)
  /\ \A p \in Procs : pc[p] \in {"writing", "written"} => HoldsTmp(p)

LEMMA NoPinsIsARing == NoPins \in Rings
  BY DEF NoPins, Rings

LEMMA MergedIsARing ==
  ASSUME NEW p \in Procs, NEW kr \in Rings PROVE Merged(kr, p) \in Rings
  <1>1. Wish[p] \in Rings
    BY MergeAssumption
  <1>2. \A a \in Agents : kr[a] \in Keys \cup {NoKey} /\ Wish[p][a] \in Keys \cup {NoKey}
    BY <1>1 DEF Rings
  <1> QED
    BY <1>2 DEF Merged, Rings

LEMMA StoredIsARing == TypeOK /\ RingIntact => Stored \in Rings
  BY NoPinsIsARing DEF TypeOK, RingIntact, Stored

LEMMA AloneInit == Init => AloneInv
  <1> SUFFICES ASSUME Init PROVE AloneInv
    OBVIOUS
  <1>1. TypeOK
    BY NoPinsIsARing DEF Init, TypeOK
  <1>2. \A p \in Procs : pc[p] = "idle" /\ Fresh(p)
    BY StoreAssumption DEF Init, Fresh, Inodes
  <1> QED
    BY <1>1, <1>2 DEF AloneInv, Init, RingIntact, Running

\* Between the open and the replace only the file named .tmp changes, and that
\* is not the ring: its content is still what every running command merged.
LEMMA AloneStep ==
  ASSUME AloneInv, [Next]_vars, \A p \in Procs : Load(p) => \A q \in Procs : ~Running(q)
  PROVE  AloneInv'
  <1>0. /\ TypeOK /\ RingIntact
        /\ Stored \in Rings
    BY StoredIsARing DEF AloneInv
  <1>1. ASSUME NEW p \in Procs, Load(p) PROVE AloneInv'
    <2>1. /\ pc[p] = "idle" /\ Fresh(p)
          /\ \A q \in Procs : ~Running(q)
          /\ UNCHANGED <<fd, path, tmp, content>>
      BY <1>1 DEF Load, AloneInv
    <2>2. Stored' = Stored
      BY <2>1 DEF Stored
    <2>3. \/ pc' = [pc EXCEPT ![p] = "failed"] /\ UNCHANGED ring
          \/ /\ pc' = [pc EXCEPT ![p] = "merged"] /\ ~Refuses(Stored, p)
             /\ ring' = [ring EXCEPT ![p] = Merged(Stored, p)]
      BY <1>1 DEF Load
    <2>4. Merged(Stored, p) \in Rings
      BY <1>0, MergedIsARing
    <2>5. TypeOK'
      BY <1>0, <2>1, <2>3, <2>4 DEF TypeOK
    <2>6. \A q \in Procs \ {p} : pc'[q] = pc[q] /\ ~Running(q)'
      BY <2>1, <2>3, <1>0 DEF Running, TypeOK
    <2>7. Running(p)' => UpToDate(p)'
      BY <2>2, <2>3, <1>0 DEF UpToDate, Running, TypeOK, Refuses, Conflict, Merged
    <2>8. pc'[p] \notin {"writing", "written"}
      BY <2>3, <1>0 DEF TypeOK
    <2> QED
      BY <2>1, <2>5, <2>6, <2>7, <2>8, <1>0
      DEF AloneInv, RingIntact, Fresh, Running
  <1>2. ASSUME NEW p \in Procs, Open(p) PROVE AloneInv'
    <2> DEFINE i == IF tmp = NoFile THEN p ELSE tmp
    <2>1. /\ pc[p] = "merged" /\ Fresh(p) /\ Running(p) /\ UpToDate(p)
          /\ \A q \in Procs \ {p} : ~Running(q)
      BY <1>2 DEF Open, AloneInv, Running
    <2>2. /\ fd' = [fd EXCEPT ![p] = i] /\ tmp' = i
          /\ content' = [content EXCEPT ![i] = Blank]
          /\ pc' = [pc EXCEPT ![p] = "writing"]
          /\ UNCHANGED <<ring, path>>
      BY <1>2 DEF Open
    <2>3. i \in Inodes /\ i # NoFile /\ i # path
      BY <1>0, <2>1, StoreAssumption DEF TypeOK, Inodes, Fresh, AloneInv
    <2>4. TypeOK'
      BY <1>0, <2>2, <2>3 DEF TypeOK
    <2>5. path # NoFile => content'[path] = content[path]
      BY <2>2, <2>3, <1>0 DEF TypeOK
    <2>6. Stored' = Stored
      BY <2>5, <2>2 DEF Stored
    <2>7. \A q \in Procs \ {p} : pc'[q] = pc[q] /\ ~Running(q)'
      BY <2>1, <2>2, <1>0 DEF Running, TypeOK
    <2>8. pc'[p] = "writing" /\ HoldsTmp(p)'
      BY <2>2, <2>3, <1>0 DEF HoldsTmp, TypeOK
    <2>9. UpToDate(p)'
      BY <2>1, <2>2, <2>6 DEF UpToDate, Refuses, Conflict, Merged
    <2>10. \A q \in Procs \ {p} : pc[q] = "idle" => Fresh(q)'
      BY <2>1, <2>2, StoreAssumption DEF AloneInv, Fresh
    <2>11. RingIntact' /\ path' # tmp'
      BY <2>2, <2>3, <2>5, <1>0 DEF RingIntact
    <2> QED
      BY <2>4, <2>7, <2>8, <2>9, <2>10, <2>11, <1>0 DEF AloneInv, Running
  <1>3. ASSUME NEW p \in Procs, Write(p) PROVE AloneInv'
    <2>1. /\ pc[p] = "writing" /\ Running(p) /\ UpToDate(p) /\ HoldsTmp(p)
          /\ \A q \in Procs \ {p} : ~Running(q)
      BY <1>3 DEF Write, AloneInv, Running
    <2>2. /\ content' = [content EXCEPT ![tmp] = ring[p]]
          /\ pc' = [pc EXCEPT ![p] = "written"]
          /\ UNCHANGED <<ring, fd, path, tmp>>
      BY <1>3, <2>1 DEF Write, HoldsTmp
    <2>3. tmp \in Inodes /\ path # tmp /\ ring[p] \in Rings
      BY <1>0, <2>1 DEF TypeOK, HoldsTmp, AloneInv
    <2>4. TypeOK'
      BY <1>0, <2>1, <2>2, <2>3 DEF TypeOK
    <2>5. path # NoFile => content'[path] = content[path]
      BY <2>2, <2>3, <1>0 DEF TypeOK
    <2>6. Stored' = Stored
      BY <2>5, <2>2 DEF Stored
    <2>7. \A q \in Procs \ {p} : pc'[q] = pc[q] /\ ~Running(q)'
      BY <2>1, <2>2, <1>0 DEF Running, TypeOK
    <2>8. pc'[p] = "written" /\ HoldsTmp(p)'
      BY <2>1, <2>2, <2>3, <1>0 DEF HoldsTmp, TypeOK
    <2>9. UpToDate(p)'
      BY <2>1, <2>2, <2>6 DEF UpToDate, Refuses, Conflict, Merged
    <2>10. \A q \in Procs \ {p} : pc[q] = "idle" => Fresh(q)'
      BY <2>1, <2>2 DEF AloneInv, Fresh
    <2>11. RingIntact' /\ path' # tmp'
      BY <2>2, <2>3, <2>5, <1>0 DEF RingIntact
    <2> QED
      BY <2>4, <2>7, <2>8, <2>9, <2>10, <2>11, <1>0 DEF AloneInv, Running
  <1>4. ASSUME NEW p \in Procs, Replace(p) PROVE AloneInv'
    <2>1. /\ pc[p] = "written" /\ Running(p) /\ UpToDate(p) /\ HoldsTmp(p)
          /\ \A q \in Procs \ {p} : ~Running(q)
      BY <1>4 DEF Replace, AloneInv, Running
    <2>2. /\ path' = tmp /\ tmp' = NoFile
          /\ pc' = [pc EXCEPT ![p] = "ok"]
          /\ UNCHANGED <<ring, fd, content>>
      BY <1>4, <2>1 DEF Replace, HoldsTmp
    <2>3. tmp \in Inodes /\ content[tmp] = ring[p] /\ ring[p] \in Rings
      BY <1>0, <2>1 DEF TypeOK, HoldsTmp
    <2>4. TypeOK'
      BY <1>0, <2>2, <2>3 DEF TypeOK
    <2>5. \A q \in Procs : ~Running(q)'
      BY <2>1, <2>2, <1>0 DEF Running, TypeOK
    <2>6. \A q \in Procs : pc'[q] = "idle" => q # p /\ pc[q] = "idle"
      BY <2>2, <1>0 DEF TypeOK
    <2>7. \A q \in Procs : pc'[q] = "idle" => Fresh(q)'
      BY <2>2, <2>6, StoreAssumption DEF AloneInv, Fresh, Inodes
    <2>8. RingIntact' /\ path' # tmp'
      BY <2>1, <2>2, <2>3 DEF RingIntact, HoldsTmp
    <2> QED
      BY <2>4, <2>5, <2>7, <2>8, <1>0 DEF AloneInv, Running
  <1>5. ASSUME NEW p \in Procs, Die(p) PROVE AloneInv'
    <2>1. /\ pc' = [pc EXCEPT ![p] = "failed"]
          /\ UNCHANGED <<ring, fd, path, tmp, content>>
      BY <1>5 DEF Die
    <2>2. TypeOK' /\ RingIntact' /\ Stored' = Stored
      BY <2>1, <1>0 DEF TypeOK, RingIntact, Stored
    <2>3. \A q \in Procs \ {p} : pc'[q] = pc[q]
      BY <2>1, <1>0 DEF TypeOK
    <2>4. pc'[p] = "failed" /\ ~Running(p)'
      BY <2>1, <1>0 DEF TypeOK, Running
    <2>5. \A q \in Procs : Running(q)' => Running(q) /\ UpToDate(q)'
      BY <2>1, <2>2, <2>3, <2>4
      DEF AloneInv, Running, UpToDate, Refuses, Conflict, Merged
    <2>6. \A q \in Procs : pc'[q] \in {"writing", "written"} => HoldsTmp(q)'
      BY <2>1, <2>3, <2>4 DEF AloneInv, HoldsTmp
    <2>7. \A q \in Procs : pc'[q] \in {"idle", "merged"} => Fresh(q)'
      BY <2>1, <2>3, <2>4 DEF AloneInv, Fresh
    <2> QED
      BY <2>1, <2>2, <2>5, <2>6, <2>7, <1>0 DEF AloneInv
  <1>6. CASE UNCHANGED vars
    BY <1>6 DEF vars, AloneInv, TypeOK, RingIntact, Fresh, Running, UpToDate,
                HoldsTmp, Stored, Refuses, Conflict, Merged
  <1> QED
    BY <1>1, <1>2, <1>3, <1>4, <1>5, <1>6 DEF Next

LEMMA AloneAlways == Exclusive /\ Spec => []AloneInv
  <1> SUFFICES ASSUME Exclusive PROVE Spec => []AloneInv
    OBVIOUS
  <1>1. AloneInv /\ [Next]_vars => AloneInv'
    BY AloneStep DEF Load
  <1> QED
    BY AloneInit, <1>1, PTL DEF Spec

\* keyring.py 55-65: with one command at a time, whatever dies between two
\* system calls, mesh-keyring.json is never half-written.
THEOREM RingStaysIntact == Exclusive /\ Spec => []RingIntact
  <1>1. AloneInv => RingIntact
    BY DEF AloneInv
  <1> QED
    BY <1>1, AloneAlways, PTL

\* A step either leaves the ring and the set of successful commands alone, or
\* it is the replace of a command whose merge is that of the ring as it is.
LEMMA StepsCommit ==
  ASSUME AloneInv, [Next]_vars
  PROVE  \/ Stored' = Stored /\ \A q \in Procs : (pc'[q] = "ok") <=> (pc[q] = "ok")
         \/ \E p \in Procs :
              /\ Replace(p) /\ pc[p] = "written" /\ UpToDate(p)
              /\ Stored' = Merged(Stored, p)
              /\ pc' = [pc EXCEPT ![p] = "ok"]
  <1>0. TypeOK /\ Stored \in Rings
    BY StoredIsARing DEF AloneInv
  <1>1. ASSUME NEW p \in Procs, Load(p) \/ Die(p)
        PROVE  Stored' = Stored /\ \A q \in Procs : (pc'[q] = "ok") <=> (pc[q] = "ok")
    BY <1>0, <1>1 DEF Load, Die, Running, Stored, TypeOK
  <1>2. ASSUME NEW p \in Procs, Open(p) \/ Write(p)
        PROVE  Stored' = Stored /\ \A q \in Procs : (pc'[q] = "ok") <=> (pc[q] = "ok")
    <2>1. pc[p] \in {"merged", "writing"} /\ Running(p)
      BY <1>2 DEF Open, Write, Running
    <2>2. pc[p] = "merged" => Fresh(p)
      BY DEF AloneInv
    <2>3. pc[p] = "writing" => fd[p] = tmp /\ tmp # NoFile
      BY DEF AloneInv, HoldsTmp
    <2>4. path' = path /\ (path # NoFile => content'[path] = content[path])
      <3>1. CASE Open(p)
        BY <1>0, <3>1, <2>2, StoreAssumption DEF Open, TypeOK, Fresh, AloneInv
      <3>2. CASE Write(p)
        BY <1>0, <3>2, <2>3 DEF Write, TypeOK, AloneInv
      <3> QED
        BY <1>2, <3>1, <3>2
    <2>5. \A q \in Procs : (pc'[q] = "ok") <=> (pc[q] = "ok")
      BY <1>0, <1>2, <2>1 DEF Open, Write, TypeOK
    <2> QED
      BY <2>4, <2>5 DEF Stored
  <1>3. ASSUME NEW p \in Procs, Replace(p)
        PROVE  /\ Replace(p) /\ pc[p] = "written" /\ UpToDate(p)
               /\ Stored' = Merged(Stored, p)
               /\ pc' = [pc EXCEPT ![p] = "ok"]
    <2>1. pc[p] = "written" /\ UpToDate(p) /\ HoldsTmp(p)
      BY <1>3 DEF Replace, AloneInv, Running
    <2>2. /\ path' = tmp /\ tmp # NoFile /\ content' = content
          /\ pc' = [pc EXCEPT ![p] = "ok"]
      BY <1>3, <2>1 DEF Replace, HoldsTmp
    <2>3. Stored' = ring[p]
      BY <2>1, <2>2 DEF Stored, HoldsTmp
    <2> QED
      BY <1>3, <2>1, <2>2, <2>3 DEF UpToDate
  <1>4. CASE UNCHANGED vars
    BY <1>4 DEF vars, Stored
  <1> QED
    BY <1>1, <1>2, <1>3, <1>4 DEF Next

\* A pin of the step's result that differs from the one before is a wish of
\* the command, and one that replaces a pin is a --rotate command's.
LEMMA OnlyRotationReplaces ==
  ASSUME NEW p \in Procs, NEW kr \in Rings, NEW a \in Agents,
         ~Refuses(kr, p), kr[a] # NoKey, Merged(kr, p)[a] # kr[a]
  PROVE  p \in Rotating /\ Wish[p][a] = Merged(kr, p)[a]
  BY DEF Merged, Conflict

\* keyring.py 10-11, 18-19: with one command at a time, a different key for a
\* known agent is replaced only by a command given --rotate.
THEOREM NothingOverwrittenSilently == Exclusive /\ Spec => NoSilentOverwrite
  <1>1. AloneInv /\ [Next]_vars => [ReplacedByRotation]_vars
    <2> SUFFICES ASSUME AloneInv, [Next]_vars, NEW a \in Agents,
                        Stored[a] # NoKey, Stored'[a] # Stored[a]
                 PROVE  \E p \in Rotating : Wish[p][a] = Stored'[a] /\ pc[p] = "written"
      BY DEF ReplacedByRotation
    <2>1. PICK p \in Procs : /\ pc[p] = "written" /\ UpToDate(p)
                             /\ Stored' = Merged(Stored, p)
      BY StepsCommit
    <2>2. p \in Rotating /\ Wish[p][a] = Stored'[a]
      BY <2>1, OnlyRotationReplaces DEF UpToDate
    <2> QED
      BY <2>1, <2>2
  <1> QED
    BY <1>1, AloneAlways, PTL DEF Spec, NoSilentOverwrite

\* keyring.py 92-166, 191-238: with one command at a time, the commands
\* implement the atomic ones; no pin a command reported is lost.
THEOREM CommandsImplementAtomic == Exclusive /\ Spec => CommandsAreAtomic
  <1>1. Init => Atomic!Init
    BY DEF Init, Atomic!Init, Stored, Atomic!NoPins, NoPins
  <1>2. AloneInv /\ [Next]_vars => [Atomic!Next]_(Atomic!keyring)
    <2> SUFFICES ASSUME AloneInv, [Next]_vars PROVE [Atomic!Next]_(Atomic!keyring)
      OBVIOUS
    <2>0. TypeOK
      BY DEF AloneInv
    <2>1. CASE Stored' = Stored /\ \A q \in Procs : (pc'[q] = "ok") <=> (pc[q] = "ok")
      BY <2>1 DEF Atomic!keyring
    <2>2. ASSUME NEW p \in Procs, pc[p] = "written", UpToDate(p),
                 Stored' = Merged(Stored, p), pc' = [pc EXCEPT ![p] = "ok"]
          PROVE  Atomic!Commit(p)
      <3>1. {q \in Procs : pc'[q] = "ok"} = {q \in Procs : pc[q] = "ok"} \cup {p}
        BY <2>0, <2>2 DEF TypeOK
      <3> QED
        BY <2>2, <3>1 DEF Atomic!Commit, UpToDate, Refuses, Merged, Conflict,
           Atomic!Refuses, Atomic!Merged, Atomic!Conflict
    <2> QED
      BY <2>1, <2>2, StepsCommit DEF Atomic!Next
  <1> QED
    BY <1>1, <1>2, AloneAlways, PTL DEF Spec, CommandsAreAtomic, Atomic!Spec

(* Commands that run in parallel, in any number                            *)

LEMMA TypeInit == Init => TypeOK
  BY NoPinsIsARing DEF Init, TypeOK

\* A command opens its own new file or the one named .tmp, and writes its ring
\* or pieces of texts to a file it has opened.
LEMMA TypeStep == TypeOK /\ [Next]_vars => TypeOK'
  <1> SUFFICES ASSUME TypeOK, [Next]_vars PROVE TypeOK'
    OBVIOUS
  <1> USE DEF TypeOK
  <1>1. ASSUME NEW p \in Procs, Load(p) PROVE TypeOK'
    <2>1. Stored \in Rings => Merged(Stored, p) \in Rings
      BY MergedIsARing
    <2> QED
      BY <1>1, <2>1 DEF Load
  <1>2. ASSUME NEW p \in Procs, Open(p) PROVE TypeOK'
    BY <1>2 DEF Open, Inodes
  <1>3. ASSUME NEW p \in Procs, Write(p) PROVE TypeOK'
    BY <1>3 DEF Write
  <1>4. ASSUME NEW p \in Procs, Replace(p) PROVE TypeOK'
    BY <1>4 DEF Replace
  <1>5. ASSUME NEW p \in Procs, Die(p) PROVE TypeOK'
    BY <1>5 DEF Die
  <1>6. CASE UNCHANGED vars
    BY <1>6 DEF vars
  <1> QED
    BY <1>1, <1>2, <1>3, <1>4, <1>5, <1>6 DEF Next

\* keyring.py 92-238: the types hold however many commands run at a time: a
\* command writes only to a file that it has opened.
THEOREM TypeCorrect == Spec => []TypeOK
  BY TypeInit, TypeStep, PTL DEF Spec

\* The ring is corrupt and no command is under way.
LeftCorrupt == Corrupt /\ \A p \in Procs : ~Running(p)

LEMMA LeftCorruptStep == TypeOK /\ LeftCorrupt /\ [Next]_vars => LeftCorrupt'
  <1> SUFFICES ASSUME TypeOK, LeftCorrupt, [Next]_vars PROVE LeftCorrupt'
    OBVIOUS
  <1>1. ASSUME NEW p \in Procs, Load(p) PROVE LeftCorrupt'
    <2>1. pc' = [pc EXCEPT ![p] = "failed"] /\ UNCHANGED <<path, content>>
      BY <1>1 DEF Load, LeftCorrupt, Corrupt
    <2> QED
      BY <2>1 DEF LeftCorrupt, Corrupt, Stored, Running, TypeOK
  <1>2. ASSUME NEW p \in Procs PROVE ~(Open(p) \/ Write(p) \/ Replace(p) \/ Die(p))
    BY DEF LeftCorrupt, Running, Open, Write, Replace, Die
  <1>3. CASE UNCHANGED vars
    BY <1>3 DEF vars, LeftCorrupt, Corrupt, Stored, Running
  <1> QED
    BY <1>1, <1>2, <1>3 DEF Next

\* sign.py 377-383: whatever commands ran in parallel before, a ring that they
\* left corrupt is replaced by none that comes after: each refuses to load it.
THEOREM CorruptRingIsKept == Spec => CorruptRingSurvives
  <1>1. LeftCorrupt => Corrupt
    BY DEF LeftCorrupt
  <1>2. Corrupt /\ (\A p \in Procs : ~Running(p)) => LeftCorrupt
    BY DEF LeftCorrupt
  <1> QED
    BY <1>1, <1>2, TypeCorrect, LeftCorruptStep, PTL DEF Spec, CorruptRingSurvives
=============================================================================
