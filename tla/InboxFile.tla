----------------------------- MODULE InboxFile ------------------------------
(***************************************************************************)
(* One agent's inbox file: the processes that append records to it         *)
(* (send.py's file transport; listen.py and agent.py do the same), and     *)
(* inbox.py, which prints what is new.  An append is not atomic: a record  *)
(* longer than the write buffer takes two writes, a full disk or a kill    *)
(* cuts one short, and nothing keeps two writers apart.                    *)
(*                                                                         *)
(* The reader keeps no state and changes none: what it would print now is  *)
(* an operator, and the action Read remembers what it has printed so far.  *)
(***************************************************************************)
EXTENDS Integers, Sequences, FiniteSets

CONSTANTS
  Msgs,
  Long,       \* the messages whose record takes two writes
  Hidden,     \* own, the owner's or fyi messages, which the reader skips
  Verified,   \* the messages whose record is stamped verify=ok
  Enforce,    \* SYN_ENFORCE_SIGNING at the reader
  Limit,      \* --limit; 0 is no limit
  Since,      \* --since
  Delay,      \* the longest time from new_message to the end of the append
  Every,      \* the longest time between two reads
  MaxClock, MaxCuts   \* bounds

ASSUME InboxAssumption ==
  /\ IsFiniteSet(Msgs)
  /\ Long \subseteq Msgs /\ Hidden \subseteq Msgs /\ Verified \subseteq Msgs
  /\ Enforce \in BOOLEAN
  /\ Limit \in Nat /\ Since \in Nat /\ Delay \in Nat /\ Every \in Nat
  /\ Every + Delay <= Since
  /\ MaxClock \in Nat /\ MaxCuts \in Nat

VARIABLES
  clock,
  phase,      \* phase[m]: "unsent", "minted", "half", "reported" or "cut"
  at,         \* at[m]: the _at of m
  file,       \* the writes to the file, in order
  lastRead,   \* history: when the reader last ran,
  present,    \*   which records it could read then,
  shown,      \*   which it has ever printed
  counted     \*   and which it has counted as suppressed

reads == <<lastRead, present, shown, counted>>
vars == <<clock, phase, at, file, reads>>

\* A write holds a whole record, one of its halves, or what got out before it
\* was cut short.
Whole(m)  == [msg |-> m, part |-> "whole"]
First(m)  == [msg |-> m, part |-> "first"]
Second(m) == [msg |-> m, part |-> "second"]
Scrap(m)  == [msg |-> m, part |-> "scrap"]

\* Types; a record is in the file as far as its writer got.
TypeOK ==
  /\ clock \in 0..MaxClock /\ lastRead \in 0..clock
  /\ phase \in [Msgs -> {"unsent", "minted", "half", "reported", "cut"}]
  /\ at \in [Msgs -> 0..clock]
  /\ file \in Seq([msg : Msgs, part : {"whole", "first", "second", "scrap"}])
  /\ present \subseteq Msgs /\ shown \subseteq Msgs /\ counted \subseteq Msgs
  /\ \A i, j \in 1..Len(file) : file[i] = file[j] => i = j
  /\ \A i \in 1..Len(file) : file[i] \in {Second(m) : m \in Msgs}
       => phase[file[i].msg] = "reported"

Init ==
  /\ clock = 0
  /\ phase = [m \in Msgs |-> "unsent"]
  /\ at = [m \in Msgs |-> 0]
  /\ file = <<>>
  /\ lastRead = 0
  /\ present = {} /\ shown = {} /\ counted = {}

-----------------------------------------------------------------------------
(* The writers                                                             *)

\* new_message stamps _at; signing, verifying and wrapping follow.
Mint(m) ==
  /\ phase[m] = "unsent"
  /\ phase' = [phase EXCEPT ![m] = "minted"]
  /\ at' = [at EXCEPT ![m] = clock]
  /\ UNCHANGED <<clock, file, reads>>

WriteWhole(m) ==
  /\ phase[m] = "minted" /\ m \notin Long
  /\ phase' = [phase EXCEPT ![m] = "reported"]
  /\ file' = Append(file, Whole(m))
  /\ UNCHANGED <<clock, at, reads>>

WriteFirst(m) ==
  /\ phase[m] = "minted" /\ m \in Long
  /\ phase' = [phase EXCEPT ![m] = "half"]
  /\ file' = Append(file, First(m))
  /\ UNCHANGED <<clock, at, reads>>

WriteSecond(m) ==
  /\ phase[m] = "half"
  /\ phase' = [phase EXCEPT ![m] = "reported"]
  /\ file' = Append(file, Second(m))
  /\ UNCHANGED <<clock, at, reads>>

\* Mutant of Cut: a failed append is tried again.
CutRetried(m) ==
  /\ phase[m] \in {"minted", "half"}
  /\ phase' = [phase EXCEPT ![m] = "minted"]
  /\ Len(file) < 3 /\ file' = Append(file, Scrap(m))
  /\ UNCHANGED <<clock, at, reads>>

\* The disk is full or the writer is killed: part of what was to be written is
\* in the file, or nothing; nobody removes it.  (Not modelled: a cut that leaves
\* out no more than the newline; the record could then be read.)
Cut(m) ==
  /\ phase[m] \in {"minted", "half"}
  /\ Cardinality({k \in Msgs : phase[k] = "cut"}) < MaxCuts
  /\ phase' = [phase EXCEPT ![m] = "cut"]
  /\ file' = file \/ file' = Append(file, Scrap(m))
  /\ UNCHANGED <<clock, at, reads>>

-----------------------------------------------------------------------------
(* The reader                                                              *)

\* Mutant of EndsLine: a record is written without its newline.
EndsLineNever(i) == FALSE

EndsLine(i) == file[i].part \in {"whole", "second"}

StartsLine(i) == i = 1 \/ EndsLine(i - 1)

\* The lines that are one whole record; the reader skips any other silently.
IsLine(m, i) ==
  /\ StartsLine(i)
  /\ \/ file[i] = Whole(m)
     \/ file[i] = First(m) /\ i < Len(file) /\ file[i + 1] = Second(m)

Readable == {m \in Msgs : \E i \in 1..Len(file) : IsLine(m, i)}

\* Mutant of Matches: the window excludes its far end.
MatchesStrictly == {m \in Readable \ Hidden : at[m] > clock - Since}

Matches == {m \in Readable \ Hidden : at[m] >= clock - Since}

Position(m) == CHOOSE i \in 1..Len(file) : IsLine(m, i)

\* The order in which matches are printed (the sort is stable).
Later(n, m) == at[n] > at[m] \/ (at[n] = at[m] /\ Position(n) > Position(m))

\* matches[-limit:]; an unverified match takes a place here even if enforce
\* then withholds it.
Newest == {m \in Matches : Limit = 0 \/ Cardinality({n \in Matches : Later(n, m)}) < Limit}

Withheld(m) == Enforce /\ m \notin Verified

Read ==
  /\ lastRead' = clock
  /\ present' = Readable
  /\ shown' = shown \cup {m \in Newest : ~Withheld(m)}
  /\ counted' = counted \cup {m \in Newest : Withheld(m)}
  /\ UNCHANGED <<clock, phase, at, file>>

\* Time passes, as long as nobody is later than Delay and Every allow.
Tick ==
  /\ clock < MaxClock
  /\ clock < lastRead + Every
  /\ \A m \in Msgs : phase[m] \in {"minted", "half"} => clock < at[m] + Delay
  /\ clock' = clock + 1
  /\ UNCHANGED <<phase, at, file, reads>>

Next ==
  \/ Read \/ Tick
  \/ \E m \in Msgs : Mint(m) \/ WriteWhole(m) \/ WriteFirst(m) \/ WriteSecond(m) \/ Cut(m)

Spec == Init /\ [][Next]_vars
-----------------------------------------------------------------------------
(* Properties                                                              *)

\* inbox.py 3-4: a reader that looks back over the time since its last run and
\* the longest delivery has, after each run, printed every whole record there
\* was - or counted it as suppressed - unless Limit later ones took its place.
CatchesUp ==
  \A m \in present \ Hidden :
    \/ m \in (IF Withheld(m) THEN counted ELSE shown)
    \/ Limit > 0 /\ Cardinality({n \in Readable \ Hidden : Later(n, m)}) >= Limit

\* What cannot be read is confined: an append that another got into costs at
\* most one record written in one piece, and one that was cut short one more.
Lost  == {m \in Msgs \ Long : phase[m] = "reported" /\ m \notin Readable}
Split == {m \in Long \ Readable : \E i \in 1..Len(file) : file[i] = First(m)}
CutShort == {m \in Msgs : phase[m] = "cut"}
LossIsConfined ==
  Cardinality(Lost) <= Cardinality(Split) + Cardinality(CutShort)
=============================================================================
